--------------------------- MODULE PolicyRouting ---------------------------
(***************************************************************************)
(* The routing engine: RoutingEngine.rebuild and apply_assignment_sets     *)
(* (app/services/routing.py), the reconciler thread that calls it          *)
(* (app/services/routing_reconciler.py), the boot sequence of create_app   *)
(* and the request handlers that edit groups and assignments.              *)
(*                                                                         *)
(* Every `ip` or `nft` command (or pair of commands no other engine call   *)
(* can tell apart) is one step, because nothing in the program serialises  *)
(* engine calls: the reconciler, the lifecycle threads and two request     *)
(* threads may be inside rebuild or apply_assignment_sets together.        *)
(***************************************************************************)
EXTENDS Integers, FiniteSets

CONSTANTS
    Groups,           \* routing group ids the database may allocate
    Clients,          \* WG-Easy clients, one IPv4 source address each
    Profiles,         \* VPN profiles
    NoProfile,        \* vpn_profile_id IS NULL: the group exits by the WAN
    NoGroup,          \* no assignment: the client's packets carry no mark
    Reconciler,       \* the boot thread, later the reconciler thread
    Handlers,         \* request threads and lifecycle threads
    NoActor,
    Faulty,           \* causes of engine calls whose commands may fail
    MaxEdits, MaxTunnelEvents, MaxFaults, MaxRestarts

Actors == Handlers \cup {Reconciler}
FallbackModes == {"block", "wan"}
Causes == {"boot", "reconcile", "edit", "delete", "assign"}

ASSUME GroupsAssumption == Groups \subseteq Nat /\ NoGroup \notin Groups
ASSUME ProfilesAssumption ==
    /\ NoProfile \notin Profiles
    /\ \A r \in {"none", "blackhole", "wan", "drop"} :
           r \notin Profiles /\ r # NoProfile
ASSUME ActorsAssumption == Reconciler \notin Handlers /\ NoActor \notin Actors
ASSUME BoundsAssumption ==
    /\ MaxEdits \in Nat /\ MaxTunnelEvents \in Nat
    /\ MaxFaults \in Nat /\ MaxRestarts \in Nat

VARIABLES
    groups, vpnProfile, fallback,  \* RoutingGroup rows
    assigned, override, \* ClientAssignment and active ClientRouteOverride of a client
    conn, dev,    \* profiles reported connected; profiles whose interface exists
    rules,        \* number of `ip rule` entries of each group
    table,        \* default route in each group's table
    loads,        \* `nft -f` loads since the nft table was created, 0: no table
    marks,        \* load in which a group's mark rule was last appended, 0: none
    sets,         \* members of the nft set group_<id>_v4
    pc, cause, snap, todo, route,  \* one engine call per actor
    booted, signature, seen, \* reconciler started; its _last_signature and current
    missed,       \* history: what the reconciler may never notice, see below
    edits, tunnelEvents, faults, restarts,  \* bounds on the environment
    pure, settled \* history: an undisturbed call; what the last one left right

db == <<groups, vpnProfile, fallback, assigned, override>>
tunnels == <<conn, dev>>
policy == <<rules, table>>
filter == <<loads, marks, sets>>
call == <<pc, cause, snap, todo, route>>
poll == <<booted, signature, seen, missed>>
bounds == <<edits, tunnelEvents, faults, restarts>>
history == <<pure, settled>>
vars == <<db, tunnels, policy, filter, call, poll, bounds, history>>

-----------------------------------------------------------------------------
(* Operators over the configuration.                                       *)

\* What _build_wan_table and _build_vpn_table make the default route of a
\* group with target p and fallback mode f, when `up` are connected.
RouteFor(p, f, up) ==
    CASE p \in up -> p
      [] p \notin up /\ (p = NoProfile \/ f = "wan") -> "wan"
      [] OTHER -> "blackhole"

\* The path a packet takes for a default route: `ip rule` lookups that find
\* nothing fall through to the main table, that is to the WAN.
Exit(r) ==
    CASE r = "none" -> "wan"
      [] r = "blackhole" -> "drop"
      [] OTHER -> r

\* effective_assignments: an active override replaces the assignment. The
\* group it names may have been deleted.
Effective == [c \in Clients |-> IF override[c] # NoGroup THEN override[c] ELSE assigned[c]]

\* The path the configuration asks for. An unassigned client, or one whose
\* group is gone, is left to the host's main table.
Desired(c) ==
    LET g == Effective[c]
    IN  IF g \in groups THEN Exit(RouteFor(vpnProfile[g], fallback[g], conn)) ELSE "wan"

\* The mark rules that match a client: `meta mark set` does not end the
\* chain, so of several matching rules the last one appended wins.
Matching(c) == {g \in Groups : marks[g] > 0 /\ c \in sets[g]}

Wins(c, g) ==
    /\ g \in Matching(c)
    /\ \A h \in Matching(c) : marks[h] < marks[g] \/ (marks[h] = marks[g] /\ h <= g)

\* The path the kernel's present state gives a client's internet traffic.
Path(c) ==
    IF Matching(c) = {}
    THEN "wan"
    ELSE LET g == CHOOSE h \in Groups : Wins(c, h)
         IN  IF rules[g] = 0 THEN "wan" ELSE Exit(table[g])

\* RoutingReconciler._snapshot: one entry per VPN-backed group.
Snapshot ==
    {<<g, vpnProfile[g], vpnProfile[g] \in conn, vpnProfile[g] \in dev, fallback[g]>> :
        g \in {h \in groups : vpnProfile[h] # NoProfile}}

EmptySnap ==
    [groups |-> {}, vpn |-> [g \in Groups |-> NoProfile],
     fb |-> [g \in Groups |-> "block"], assigned |-> [c \in Clients |-> NoGroup]]

RebuildSteps ==
    {"rb_assignments", "rb_stale", "rb_flush", "rb_build", "rb_route", "rb_rule",
     "rb_nft_load"}
ApplySteps == {"ap_assignments", "ap_flush", "ap_add"}
EngineSteps == RebuildSteps \cup ApplySteps
OutsideSteps ==
    {"boot", "booted", "idle", "chosen", "expired", "delete_commit", "reconciled",
     "rb_groups", "ap_groups"}

\* No other actor is between an engine call's first read and its last command.
Alone(a) == \A b \in Actors \ {a} : pc[b] \notin EngineSteps

-----------------------------------------------------------------------------
(* History: `pure` is the actor whose call has run so far with no other      *)
(* call beside it and no change of its inputs; `settled` is "all" when such  *)
(* a call has completed and nothing has changed since, "routes" when only    *)
(* assignments have changed since. `missed` is about the reconciler: a tunnel *)
(* has changed since it last found a difference, or its boot rebuild did not  *)
(* run undisturbed to its end.                                               *)

Disturb == pure' = NoActor /\ settled' = "no"

BeginRebuild(a) ==
    /\ pure' = IF Alone(a) THEN a ELSE NoActor
    /\ settled' = "no"

BeginApply(a) ==
    IF Alone(a) /\ settled # "no"
    THEN pure' = a /\ settled' = "routes"
    ELSE Disturb

-----------------------------------------------------------------------------
(* How an engine call ends, by what made the call.                           *)

Goto(a, step) == pc' = [pc EXCEPT ![a] = step]

Release(a) ==
    /\ snap' = [snap EXCEPT ![a] = EmptySnap]
    /\ todo' = [todo EXCEPT ![a] = {}]
    /\ route' = [route EXCEPT ![a] = "none"]
    /\ cause' = [cause EXCEPT ![a] = "none"]

Complete(a) ==
    /\ Goto(a, CASE cause[a] = "boot" -> "booted"
                 [] cause[a] = "reconcile" -> "reconciled"
                 [] OTHER -> "idle")
    /\ Release(a)
    /\ IF pure = a
       THEN pure' = NoActor /\ settled' = "all"
       ELSE UNCHANGED history

\* A reconciler that records the new signature even when the rebuild failed.
AbortAsIfDone(a) ==
    /\ Goto(a, CASE cause[a] = "boot" -> "booted"
                 [] cause[a] = "reconcile" -> "reconciled"
                 [] OTHER -> "idle")
    /\ Release(a)
    /\ Disturb

\* RoutingEngineError leaves the call; every caller logs or flashes it. The
\* boot sequence goes on, the reconciler keeps its old signature.
Abort(a) ==
    /\ Goto(a, IF cause[a] = "boot" THEN "booted" ELSE "idle")
    /\ Release(a)
    /\ Disturb

\* The groups are visited in ascending id.
IsNext(a, g) == g \in todo[a] /\ \A h \in todo[a] : g <= h

-----------------------------------------------------------------------------
(* RoutingEngine.rebuild.                                                  *)

ReadGroups(a) ==
    /\ pc[a] = "rb_groups"
    /\ snap' = [snap EXCEPT ![a] = [@ EXCEPT !.groups = groups, !.vpn = vpnProfile,
                                             !.fb = fallback]]
    /\ Goto(a, "rb_assignments")
    /\ BeginRebuild(a)
    /\ UNCHANGED <<db, tunnels, policy, filter, cause, todo, route, poll, bounds>>

ReadAssignments(a) ==
    /\ pc[a] = "rb_assignments"
    /\ snap' = [snap EXCEPT ![a].assigned = Effective]
    /\ Goto(a, "rb_stale")
    /\ UNCHANGED <<db, tunnels, policy, filter, cause, todo, route, poll, bounds, history>>

\* A cleanup that relies on the delete handler to have removed the rules.
CleanupStaleSkipped(a) ==
    /\ pc[a] = "rb_stale"
    /\ Goto(a, "rb_flush")
    /\ todo' = [todo EXCEPT ![a] = snap[a].groups]
    /\ UNCHANGED <<db, tunnels, policy, filter, cause, snap, route, poll, bounds, history>>

\* cleanup_stale_policy_state: every managed rule of an unknown group goes
\* with its table; when the rules cannot be listed it silently does nothing.
CleanupStale(a) ==
    /\ pc[a] = "rb_stale"
    /\ LET stale == {g \in Groups \ snap[a].groups : rules[g] > 0}
       IN  /\ rules' = [g \in Groups |-> IF g \in stale THEN 0 ELSE rules[g]]
           /\ table' = [g \in Groups |-> IF g \in stale THEN "none" ELSE table[g]]
    /\ Goto(a, "rb_flush")
    /\ todo' = [todo EXCEPT ![a] = snap[a].groups]
    /\ UNCHANGED <<db, tunnels, filter, cause, snap, route, poll, bounds, history>>

CleanupUnreadable(a) ==
    /\ pc[a] = "rb_stale"
    /\ cause[a] \in Faulty /\ faults < MaxFaults /\ faults' = faults + 1
    /\ Goto(a, "rb_flush")
    /\ todo' = [todo EXCEPT ![a] = snap[a].groups]
    /\ Disturb
    /\ UNCHANGED <<db, tunnels, policy, filter, cause, snap, route, poll,
                   edits, tunnelEvents, restarts>>

FlushTries == 4

\* A flush that deletes a single rule.
FlushGroupRuleOnce(g) ==
    /\ rules' = [rules EXCEPT ![g] = IF @ > 1 THEN @ - 1 ELSE 0]
    /\ table' = [table EXCEPT ![g] = "none"]

\* _flush_group_rule: up to four deletions by priority, then the table.
FlushGroupRule(g) ==
    /\ rules' = [rules EXCEPT ![g] = IF @ > FlushTries THEN @ - FlushTries ELSE 0]
    /\ table' = [table EXCEPT ![g] = "none"]

FlushNext(a) ==
    /\ pc[a] = "rb_flush"
    /\ \E g \in todo[a] :
        /\ IsNext(a, g)
        /\ FlushGroupRule(g)
        /\ todo' = [todo EXCEPT ![a] = @ \ {g}]
    /\ UNCHANGED <<db, tunnels, filter, pc, cause, snap, route, poll, bounds, history>>

FlushDone(a) ==
    /\ pc[a] = "rb_flush" /\ todo[a] = {}
    /\ todo' = [todo EXCEPT ![a] = snap[a].groups]
    /\ Goto(a, "rb_build")
    /\ UNCHANGED <<db, tunnels, policy, filter, cause, snap, route, poll, bounds, history>>

\* A status that calls a tunnel connected as soon as its interface exists.
ReadStatusByInterface(a) ==
    /\ pc[a] = "rb_build"
    /\ \E g \in todo[a] :
        /\ IsNext(a, g)
        /\ route' = [route EXCEPT ![a] = RouteFor(snap[a].vpn[g], snap[a].fb[g], dev)]
    /\ Goto(a, "rb_route")
    /\ UNCHANGED <<db, tunnels, policy, filter, cause, snap, todo, poll, bounds, history>>

\* The first half of _build_vpn_table: the tunnel's status decides the route.
ReadStatus(a) ==
    /\ pc[a] = "rb_build"
    /\ \E g \in todo[a] :
        /\ IsNext(a, g)
        /\ route' = [route EXCEPT ![a] = RouteFor(snap[a].vpn[g], snap[a].fb[g], conn)]
    /\ Goto(a, "rb_route")
    /\ UNCHANGED <<db, tunnels, policy, filter, cause, snap, todo, poll, bounds, history>>

\* `ip route replace default`: refused when the interface went meanwhile.
ReplaceRoute(a) ==
    /\ pc[a] = "rb_route" /\ route[a] \in dev \cup {"wan", "blackhole"}
    /\ \E g \in todo[a] : IsNext(a, g) /\ table' = [table EXCEPT ![g] = route[a]]
    /\ Goto(a, "rb_rule")
    /\ UNCHANGED <<db, tunnels, rules, filter, cause, snap, todo, route, poll, bounds, history>>

RouteRefused(a) ==
    /\ pc[a] = "rb_route" /\ route[a] \notin dev \cup {"wan", "blackhole"}
    /\ Abort(a)
    /\ UNCHANGED <<db, tunnels, policy, filter, poll, bounds>>

\* `ip rule add` for the group's mark. A second identical rule is stored or
\* refused, depending on the kernel.
AddRule(a) ==
    /\ pc[a] = "rb_rule"
    /\ \E g \in todo[a] :
        /\ IsNext(a, g)
        /\ rules' = [rules EXCEPT ![g] = @ + 1]
        /\ todo' = [todo EXCEPT ![a] = @ \ {g}]
    /\ route' = [route EXCEPT ![a] = "none"]
    /\ Goto(a, "rb_build")
    /\ UNCHANGED <<db, tunnels, table, filter, cause, snap, poll, bounds, history>>

RuleRefused(a) ==
    /\ pc[a] = "rb_rule"
    /\ \E g \in todo[a] : IsNext(a, g) /\ rules[g] > 0
    /\ Abort(a)
    /\ UNCHANGED <<db, tunnels, policy, filter, poll, bounds>>

DeleteNftTable(a) ==
    /\ pc[a] = "rb_build" /\ todo[a] = {}
    /\ loads' = 0
    /\ marks' = [g \in Groups |-> 0]
    /\ sets' = [g \in Groups |-> {}]
    /\ Goto(a, "rb_nft_load")
    /\ UNCHANGED <<db, tunnels, policy, cause, snap, todo, route, poll, bounds, history>>

Members(a, g) == {c \in Clients : snap[a].assigned[c] = g}

\* `nft -f` adds to the table when another call has loaded it meanwhile: sets
\* are merged and a second series of mark rules is appended to the chain.
LoadNftTable(a) ==
    /\ pc[a] = "rb_nft_load"
    /\ loads' = loads + 1
    /\ marks' = [g \in Groups |-> IF g \in snap[a].groups THEN loads + 1 ELSE marks[g]]
    /\ sets' = [g \in Groups |->
                   IF g \in snap[a].groups THEN sets[g] \cup Members(a, g) ELSE sets[g]]
    /\ Complete(a)
    /\ UNCHANGED <<db, tunnels, policy, poll, bounds>>

-----------------------------------------------------------------------------
(* RoutingEngine.apply_assignment_sets.                                    *)

ApplyReadGroups(a) ==
    /\ pc[a] = "ap_groups"
    /\ snap' = [snap EXCEPT ![a].groups = groups]
    /\ Goto(a, "ap_assignments")
    /\ BeginApply(a)
    /\ UNCHANGED <<db, tunnels, policy, filter, cause, todo, route, poll, bounds>>

ApplyReadAssignments(a) ==
    /\ pc[a] = "ap_assignments"
    /\ snap' = [snap EXCEPT ![a].assigned = Effective]
    /\ todo' = [todo EXCEPT ![a] = snap[a].groups]
    /\ Goto(a, "ap_flush")
    /\ UNCHANGED <<db, tunnels, policy, filter, cause, route, poll, bounds, history>>

\* A refresh that only adds the new members.
FlushSetNever(a) ==
    /\ pc[a] = "ap_flush"
    /\ \E g \in todo[a] :
        /\ IsNext(a, g) /\ marks[g] > 0
        /\ IF Members(a, g) = {}
           THEN todo' = [todo EXCEPT ![a] = @ \ {g}] /\ UNCHANGED pc
           ELSE Goto(a, "ap_add") /\ UNCHANGED todo
    /\ UNCHANGED <<db, tunnels, policy, filter, cause, snap, route, poll, bounds, history>>

\* The set is listed, then flushed. A set that is missing turns the call into
\* a complete rebuild.
FlushSet(a) ==
    /\ pc[a] = "ap_flush"
    /\ \E g \in todo[a] :
        /\ IsNext(a, g) /\ marks[g] > 0
        /\ sets' = [sets EXCEPT ![g] = {}]
        /\ IF Members(a, g) = {}
           THEN todo' = [todo EXCEPT ![a] = @ \ {g}] /\ UNCHANGED pc
           ELSE Goto(a, "ap_add") /\ UNCHANGED todo
    /\ UNCHANGED <<db, tunnels, policy, loads, marks, cause, snap, route, poll, bounds, history>>

SetMissing(a) ==
    /\ pc[a] = "ap_flush"
    /\ \E g \in todo[a] : IsNext(a, g) /\ marks[g] = 0
    /\ snap' = [snap EXCEPT ![a] = EmptySnap]
    /\ todo' = [todo EXCEPT ![a] = {}]
    /\ Goto(a, "rb_groups")
    /\ Disturb
    /\ UNCHANGED <<db, tunnels, policy, filter, cause, route, poll, bounds>>

\* `nft add element`: refused when the table has been deleted meanwhile.
AddElements(a) ==
    /\ pc[a] = "ap_add"
    /\ \E g \in todo[a] :
        /\ IsNext(a, g) /\ marks[g] > 0
        /\ sets' = [sets EXCEPT ![g] = @ \cup Members(a, g)]
        /\ todo' = [todo EXCEPT ![a] = @ \ {g}]
    /\ Goto(a, "ap_flush")
    /\ UNCHANGED <<db, tunnels, policy, loads, marks, cause, snap, route, poll, bounds, history>>

ElementsRefused(a) ==
    /\ pc[a] = "ap_add"
    /\ \E g \in todo[a] : IsNext(a, g) /\ marks[g] = 0
    /\ Abort(a)
    /\ UNCHANGED <<db, tunnels, policy, filter, poll, bounds>>

ApplyDone(a) ==
    /\ pc[a] = "ap_flush" /\ todo[a] = {}
    /\ Complete(a)
    /\ UNCHANGED <<db, tunnels, policy, filter, poll, bounds>>

\* A checked command may fail (no default route yet, nft busy) and any command
\* may time out; either way the exception leaves the call.
CommandFails(a) ==
    /\ pc[a] \in EngineSteps
    /\ cause[a] \in Faulty /\ faults < MaxFaults /\ faults' = faults + 1
    /\ Abort(a)
    /\ UNCHANGED <<db, tunnels, policy, filter, poll, edits, tunnelEvents, restarts>>

-----------------------------------------------------------------------------
(* The boot sequence of create_app and the reconciler thread.              *)

BootRebuild ==
    /\ pc[Reconciler] = "boot"
    /\ Goto(Reconciler, "rb_groups")
    /\ cause' = [cause EXCEPT ![Reconciler] = "boot"]
    /\ UNCHANGED <<db, tunnels, policy, filter, snap, todo, route, poll, bounds, history>>

\* start() records the state of the moment as already applied, even when the
\* boot rebuild failed or a tunnel has changed since it read the states.
StartReconciler ==
    /\ pc[Reconciler] = "booted"
    /\ booted' = TRUE /\ signature' = Snapshot /\ seen' = Snapshot
    /\ missed' = (settled # "all")
    /\ Goto(Reconciler, "idle")
    /\ UNCHANGED <<db, tunnels, policy, filter, cause, snap, todo, route, bounds, history>>

\* One pass of _loop up to the comparison with the last signature.
ReconcilerTick ==
    /\ booted /\ pc[Reconciler] = "idle"
    /\ Snapshot # signature
    /\ seen' = Snapshot /\ missed' = FALSE
    /\ Goto(Reconciler, "rb_groups")
    /\ cause' = [cause EXCEPT ![Reconciler] = "reconcile"]
    /\ UNCHANGED <<db, tunnels, policy, filter, snap, todo, route, booted, signature,
                   bounds, history>>

\* After a successful rebuild _last_signature becomes the snapshot taken
\* before it.
CommitSignature ==
    /\ pc[Reconciler] = "reconciled"
    /\ signature' = seen
    /\ Goto(Reconciler, "idle")
    /\ UNCHANGED <<db, tunnels, policy, filter, cause, snap, todo, route, booted, seen,
                   missed, bounds, history>>

\* Health and transitions are recorded between the rebuild and the signature;
\* when that fails the pass ends without the signature.
HealthFails ==
    /\ pc[Reconciler] = "reconciled"
    /\ "reconcile" \in Faulty /\ faults < MaxFaults /\ faults' = faults + 1
    /\ Goto(Reconciler, "idle")
    /\ UNCHANGED <<db, tunnels, policy, filter, cause, snap, todo, route, poll,
                   edits, tunnelEvents, restarts, history>>

-----------------------------------------------------------------------------
(* Request handlers and lifecycle threads. The commit of a change and the    *)
(* engine call that follows it are separate steps.                           *)

Edit(h) ==
    /\ booted /\ pc[h] = "idle"
    /\ edits < MaxEdits /\ edits' = edits + 1
    /\ UNCHANGED <<tunnels, filter, snap, route, poll, tunnelEvents, faults, restarts>>

Then(h, step, why) == Goto(h, step) /\ cause' = [cause EXCEPT ![h] = why]

EditGroup(h) ==
    /\ Edit(h)
    /\ \E g \in groups, p \in Profiles \cup {NoProfile}, f \in FallbackModes :
        /\ <<p, f>> # <<vpnProfile[g], fallback[g]>>
        /\ vpnProfile' = [vpnProfile EXCEPT ![g] = p]
        /\ fallback' = [fallback EXCEPT ![g] = f]
    /\ Then(h, "rb_groups", "edit")
    /\ Disturb
    /\ UNCHANGED <<groups, assigned, override, policy, todo>>

\* SQLite gives a new row the id after the largest one in use, so the id of a
\* deleted last group comes back.
NewId(g) ==
    /\ \A h \in groups : h < g
    /\ \A k \in Groups : (\A h \in groups : h < k) => g <= k

CreateGroup(h) ==
    /\ Edit(h)
    /\ \E g \in Groups \ groups, p \in Profiles \cup {NoProfile}, f \in FallbackModes :
        /\ NewId(g)
        /\ groups' = groups \cup {g}
        /\ vpnProfile' = [vpnProfile EXCEPT ![g] = p]
        /\ fallback' = [fallback EXCEPT ![g] = f]
    /\ Then(h, "rb_groups", "edit")
    /\ Disturb
    /\ UNCHANGED <<assigned, override, policy, todo>>

\* delete(): refused while a client is assigned (an override does not count).
\* The kernel state goes first, the row afterwards.
DeleteGroup(h) ==
    /\ Edit(h)
    /\ \E g \in groups :
        /\ \A c \in Clients : assigned[c] # g
        /\ FlushGroupRule(g)
        /\ todo' = [todo EXCEPT ![h] = {g}]
    /\ Then(h, "delete_commit", "delete")
    /\ Disturb
    /\ UNCHANGED db

DeleteCommit(h) ==
    /\ pc[h] = "delete_commit"
    /\ groups' = groups \ todo[h]
    /\ vpnProfile' = [g \in Groups |-> IF g \in todo[h] THEN NoProfile ELSE vpnProfile[g]]
    /\ fallback' = [g \in Groups |-> IF g \in todo[h] THEN "block" ELSE fallback[g]]
    /\ todo' = [todo EXCEPT ![h] = {}]
    /\ Goto(h, "rb_groups")
    /\ Disturb
    /\ UNCHANGED <<assigned, override, tunnels, policy, filter, cause, snap, route, poll,
                   bounds>>

\* A change of assignments leaves tables and marks right, set members not.
Reassigned ==
    /\ pure' = NoActor
    /\ settled' = IF settled = "all" THEN "routes" ELSE settled

\* set_routing_group and set_temporary_override look the group up and may then
\* wait up to 48 s for its tunnel; NoGroup removes the assignment or override.
ChooseGroup(h) ==
    /\ Edit(h)
    /\ \E g \in groups \cup {NoGroup} : todo' = [todo EXCEPT ![h] = {g} \ {NoGroup}]
    /\ Goto(h, "chosen")
    /\ UNCHANGED <<db, policy, cause, history>>

Commit(h) ==
    /\ pc[h] = "chosen"
    /\ todo' = [todo EXCEPT ![h] = {}]
    /\ UNCHANGED <<groups, vpnProfile, fallback, tunnels, policy, filter, snap, route, poll,
                   bounds>>

\* The group is not looked up again: it may be gone by now.
AssignClient(h) ==
    /\ Commit(h)
    /\ \E c \in Clients, g \in Groups \cup {NoGroup} :
        /\ todo[h] = {g} \ {NoGroup}
        /\ assigned' = [assigned EXCEPT ![c] = g]
    /\ Then(h, "ap_groups", "assign")
    /\ Reassigned
    /\ UNCHANGED override

OverrideClient(h) ==
    /\ Commit(h)
    /\ \E c \in Clients, g \in Groups \cup {NoGroup} :
        /\ todo[h] = {g} \ {NoGroup}
        /\ override' = [override EXCEPT ![c] = g]
    /\ Then(h, "ap_groups", "assign")
    /\ Reassigned
    /\ UNCHANGED assigned

\* The target tunnel did not come up: the assignment is not changed.
NotReady(h) ==
    /\ Commit(h)
    /\ Goto(h, "idle")
    /\ UNCHANGED <<assigned, override, cause, history>>

\* An override stops counting when its time has come; the override manager
\* deletes the row on its next tick and refreshes the sets.
OverrideExpires(h) ==
    /\ Edit(h)
    /\ \E c \in Clients : override[c] # NoGroup /\ override' = [override EXCEPT ![c] = NoGroup]
    /\ Goto(h, "expired")
    /\ Reassigned
    /\ UNCHANGED <<groups, vpnProfile, fallback, assigned, policy, cause, todo>>

ExpireOnce(h) ==
    /\ pc[h] = "expired"
    /\ Then(h, "ap_groups", "assign")
    /\ UNCHANGED <<db, tunnels, policy, filter, snap, todo, route, poll, bounds, history>>

\* The rebuild button, and the lifecycle threads after a start or a stop.
RebuildNow(h) ==
    /\ Edit(h)
    /\ Then(h, "rb_groups", "edit")
    /\ UNCHANGED <<db, policy, todo, history>>

-----------------------------------------------------------------------------
(* The environment: tunnels, and the process itself.                       *)

TunnelEvent ==
    /\ tunnelEvents < MaxTunnelEvents /\ tunnelEvents' = tunnelEvents + 1
    /\ missed' = TRUE
    /\ Disturb
    /\ UNCHANGED <<db, rules, filter, call, booted, signature, seen, edits, faults, restarts>>

TunnelUp(p) ==
    /\ p \notin conn
    /\ TunnelEvent
    /\ conn' = conn \cup {p} /\ dev' = dev \cup {p}
    /\ UNCHANGED table

\* The interface stays but the tunnel is no longer reported connected.
TunnelStall(p) ==
    /\ p \in conn
    /\ TunnelEvent
    /\ conn' = conn \ {p}
    /\ UNCHANGED <<dev, table>>

\* A tunnel still reported connected after its interface is gone.
DeviceGoneUnseen(p) ==
    /\ p \in dev
    /\ TunnelEvent
    /\ dev' = dev \ {p}
    /\ table' = [g \in Groups |-> IF table[g] = p THEN "none" ELSE table[g]]
    /\ UNCHANGED conn

\* With the interface go the routes through it, in every table.
WithoutRoutesVia(ps) == [g \in Groups |-> IF table[g] \in ps THEN "none" ELSE table[g]]

DeviceGone(p) ==
    /\ p \in dev
    /\ TunnelEvent
    /\ conn' = conn \ {p} /\ dev' = dev \ {p}
    /\ table' = WithoutRoutesVia({p})

\* The container restarts: threads and OpenVPN processes are gone, the kernel
\* state of the host's network namespace and the database stay.
Restart ==
    /\ restarts < MaxRestarts /\ restarts' = restarts + 1
    /\ dev' \in SUBSET dev /\ conn' = conn \cap dev'
    /\ table' = WithoutRoutesVia(dev \ dev')
    /\ pc' = [a \in Actors |-> IF a = Reconciler THEN "boot" ELSE "idle"]
    /\ cause' = [a \in Actors |-> "none"]
    /\ snap' = [a \in Actors |-> EmptySnap]
    /\ todo' = [a \in Actors |-> {}]
    /\ route' = [a \in Actors |-> "none"]
    /\ booted' = FALSE /\ signature' = {} /\ seen' = {} /\ missed' = FALSE
    /\ Disturb
    /\ UNCHANGED <<db, rules, filter, edits, tunnelEvents, faults>>

-----------------------------------------------------------------------------
EngineStep(a) ==
    \/ ReadGroups(a) \/ ReadAssignments(a) \/ CleanupStale(a) \/ CleanupUnreadable(a)
    \/ FlushNext(a) \/ FlushDone(a) \/ ReadStatus(a) \/ ReplaceRoute(a) \/ RouteRefused(a)
    \/ AddRule(a) \/ RuleRefused(a) \/ DeleteNftTable(a) \/ LoadNftTable(a)
    \/ ApplyReadGroups(a) \/ ApplyReadAssignments(a) \/ FlushSet(a) \/ SetMissing(a)
    \/ AddElements(a) \/ ElementsRefused(a) \/ ApplyDone(a) \/ CommandFails(a)

ReconcilerStep ==
    BootRebuild \/ StartReconciler \/ ReconcilerTick \/ CommitSignature \/ HealthFails

HandlerStep(h) ==
    \/ EditGroup(h) \/ CreateGroup(h) \/ DeleteGroup(h) \/ DeleteCommit(h)
    \/ ChooseGroup(h) \/ AssignClient(h) \/ OverrideClient(h) \/ NotReady(h)
    \/ OverrideExpires(h) \/ ExpireOnce(h) \/ RebuildNow(h)

Environment == Restart \/ \E p \in Profiles : TunnelUp(p) \/ TunnelStall(p) \/ DeviceGone(p)

\* The container starts over a consistent database. Kernel state of an
\* earlier run is gone (a reboot of the host) or left by Restart.
Init ==
    /\ groups \in SUBSET Groups
    /\ vpnProfile \in [Groups -> Profiles \cup {NoProfile}]
    /\ fallback \in [Groups -> FallbackModes]
    /\ \A g \in Groups \ groups : vpnProfile[g] = NoProfile /\ fallback[g] = "block"
    /\ assigned \in [Clients -> groups \cup {NoGroup}]
    /\ override = [c \in Clients |-> NoGroup]
    /\ dev \in SUBSET Profiles /\ conn \in SUBSET dev
    /\ rules = [g \in Groups |-> 0] /\ table = [g \in Groups |-> "none"]
    /\ loads = 0 /\ marks = [g \in Groups |-> 0] /\ sets = [g \in Groups |-> {}]
    /\ pc = [a \in Actors |-> IF a = Reconciler THEN "boot" ELSE "idle"]
    /\ cause = [a \in Actors |-> "none"]
    /\ snap = [a \in Actors |-> EmptySnap]
    /\ todo = [a \in Actors |-> {}]
    /\ route = [a \in Actors |-> "none"]
    /\ booted = FALSE /\ signature = {} /\ seen = {} /\ missed = FALSE
    /\ edits = 0 /\ tunnelEvents = 0 /\ faults = 0 /\ restarts = 0
    /\ pure = NoActor /\ settled = "no"

Next ==
    \/ \E a \in Actors : EngineStep(a)
    \/ ReconcilerStep
    \/ \E h \in Handlers : HandlerStep(h)
    \/ Environment

Spec == Init /\ [][Next]_vars

\* Threads keep running: a call that has begun goes on to its end, and the
\* reconciler keeps polling. Nobody owes the system an edit or an event.
Fairness ==
    /\ \A a \in Actors : WF_vars(EngineStep(a))
    /\ WF_vars(ReconcilerStep)
    /\ \A h \in Handlers : WF_vars(DeleteCommit(h) \/ ExpireOnce(h))

FairSpec == Spec /\ Fairness

-----------------------------------------------------------------------------
(* Properties.                                                             *)

SnapType ==
    [groups : SUBSET Groups, vpn : [Groups -> Profiles \cup {NoProfile}],
     fb : [Groups -> FallbackModes], assigned : [Clients -> Groups \cup {NoGroup}]]

Routes == {"none", "blackhole", "wan"} \cup Profiles

\* Every variable keeps its type; a connected tunnel has an interface, and a
\* table routes only through interfaces that exist (the kernel's own rule).
TypeOK ==
    /\ groups \subseteq Groups
    /\ vpnProfile \in [Groups -> Profiles \cup {NoProfile}]
    /\ fallback \in [Groups -> FallbackModes]
    /\ assigned \in [Clients -> Groups \cup {NoGroup}]
    /\ override \in [Clients -> Groups \cup {NoGroup}]
    /\ conn \subseteq dev /\ dev \subseteq Profiles
    /\ rules \in [Groups -> Nat]
    /\ table \in [Groups -> {"none", "blackhole", "wan"} \cup dev]
    /\ loads \in Nat /\ marks \in [Groups -> Nat] /\ sets \in [Groups -> SUBSET Clients]
    /\ pc \in [Actors -> OutsideSteps \cup EngineSteps]
    /\ cause \in [Actors -> Causes \cup {"none"}]
    /\ snap \in [Actors -> SnapType]
    /\ todo \in [Actors -> SUBSET Groups]
    /\ route \in [Actors -> Routes]
    /\ booted \in BOOLEAN /\ missed \in BOOLEAN
    /\ edits \in Nat /\ tunnelEvents \in Nat /\ faults \in Nat /\ restarts \in Nat
    /\ pure \in Actors \cup {NoActor} /\ settled \in {"no", "routes", "all"}

\* When an engine call has run to its end with no other call beside it and
\* nothing has changed since, the kernel sends every client where the
\* configuration and the tunnels say, whatever partial, duplicated or merged
\* state earlier calls, failures and restarts had left in the kernel.
SettledMeansDesired == settled = "all" => \A c \in Clients : Path(c) = Desired(c)

\* After such a call no managed rule, mark or set member of a deleted group
\* remains.
SettledMeansClean ==
    settled # "no" =>
        \A g \in Groups \ groups : rules[g] = 0 /\ marks[g] = 0 /\ sets[g] = {}

\* Concurrent rebuilds duplicate rules; the next undisturbed rebuild leaves one
\* per group, whatever up to four of them left (the comment in _flush_group_rule).
DuplicatesRemoved == settled # "no" => \A g \in groups : rules[g] = 1

\* Once edits and tunnel events stop, the kernel ends up routing every client
\* as desired for good: what failed rebuilds or a restart left is repaired. Two
\* cases are out, which the reconciler cannot see: a tunnel that has changed
\* since its last look and is again as it was applied, and a boot rebuild that
\* failed or that a tunnel overtook, until something differs from its snapshot.
Converges == <>[](~missed => \A c \in Clients : Path(c) = Desired(c))

\* README, "Kill-switch behavior": a client of a Block group, once off the
\* WAN, does not fall back to it while its assignment and group stand.
Covered(c) ==
    /\ Effective[c] \in groups /\ vpnProfile[Effective[c]] # NoProfile
    /\ fallback[Effective[c]] = "block"

KillSwitchHolds ==
    [][\A c \in Clients :
          Covered(c) /\ Covered(c)' /\ Path(c) # "wan" => Path(c)' # "wan"]_vars
=============================================================================

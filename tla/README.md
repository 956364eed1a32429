# A TLA+ model of VPN Router

VPN Router sends the traffic of WG-Easy clients out through VPN tunnels. An
administrator assigns clients to *routing groups*; a group exits through a VPN
profile or the host's WAN. The program turns that configuration into Linux
policy routing: an nftables table that marks packets by source address, one
`ip rule` and one routing table per group. This directory models the program
under `src/`, model-checks the modules with TLC and proves theorems about nine of
them with TLAPS.

Paths below are relative to `src/app` unless they start with `src/`.

## The system

One gunicorn worker runs a Flask application with two request threads
(`src/entrypoint.sh`) and a set of daemon threads. State lives in three places:
an SQLite database, files under `/data/runtime`, and the kernel of the host
(the container uses host networking, so rules, tables and sets survive it).

| component | state | operations | interacts with |
|---|---|---|---|
| routing engine (`services/routing.py`, `services/effective_assignments.py`) | kernel rules, tables, nft table; nothing of its own | `rebuild`, `apply_assignment_sets`, `remove_group_state` | called by every thread below, under no lock |
| routing reconciler (`services/routing_reconciler.py`) | signature of the last rebuild | polls tunnel states every 3 s, rebuilds on change | engine, VPN runtime |
| routing group handlers (`routing_groups.py`) | `routing_groups` rows | new, edit, delete, rebuild, sync names | engine |
| client handlers (`clients.py`) | assignments and overrides | assign, override, cancel, metadata sync | engine, on-demand manager |
| override manager (`services/routing_overrides.py`) | overrides with expiry times | delete expired rows, refresh sets | engine, on-demand manager |
| on-demand manager (`services/on_demand.py`) | idle timestamps, last errors | start required tunnels, stop idle ones after 60 s | VPN runtime, engine |
| resilience manager (`services/vpn_resilience.py`) | retry state, persisted to a file | retry with exponential backoff, recycle hung connects | VPN runtime |
| VPN runtime (`services/vpn_runtime.py`) | pid, meta, auth and log files; processes; interfaces | start, stop, status | operating system |
| profile handlers (`vpn_profiles.py`) | `vpn_profiles` rows, config files | connect, disconnect, autoconnect, edit, delete, import | runtime, resilience, engine |
| boot (`__init__.py`, `services/vpn_startup.py`, `services/lifecycle.py`) | - | migrate, restore profiles, expire, reconcile, rebuild, start threads | all |
| backup and restore (`services/backups.py`, `backups.py`) | config files and every table | export; validate, swap files, rewrite rows, roll back | runtime, engine, reconciler, observability |
| migrations (`services/migrations.py`) | `schema_migrations` rows, tables and columns | ordered, one transaction each | database |
| users and setup (`users.py`, `setup.py`, `services/setup.py`) | `users`, `user_client_access`, the setup mark and token | create, update, delete, give clients; the wizard | database, boot |
| observability (`services/observability.py`) | caches of exit addresses and DNS verdicts | probe and publish, invalidate | runtime, profile pages |
| preflight (`services/preflight_jobs.py`, `services/preflight.py`) | the one job | start, verify and park each enabled tunnel | runtime |
| traffic (`services/traffic_visibility.py`), settings, WG-Easy client, GeoIP, diagnostics | counters, rows, none | read and show | database |

What is hard here: no lock serialises engine calls or tunnel starts and stops,
so the reconciler, the lifecycle threads and two requests interleave command by
command; most callers only log a failed rebuild; the process can stop between
any two commands while the kernel keeps what it has; requests read rows, wait
up to 48 s for a tunnel and then write; timers race the events they wait for.
`PROJECT.json` lists these hazards line by line.

What makes each component correct:

- routing engine: whatever was in the kernel before, a completed call leaves
  every client on the path the configuration asks for and nothing of deleted
  groups; a Block group never leaks to the WAN;
- reconciler: the kernel converges to the present tunnel states;
- tunnel lifecycle (on-demand, resilience, handlers, runtime): at most one process
  per profile, disabled profiles stay down, required ones come up, backoff is kept;
- overrides: an expired one stops counting and is deleted once, a renewed one survives;
- backup: an export has the file of every profile and can be restored; a restore is
  all or nothing across files, rows and tunnels;
- migrations: each version once, in order, with what it brings, whoever boots;
- users: an administrator always remains, setup can always be completed, no client
  stays with a user who is gone;
- profile library: rows and configuration files fit together, groups name profiles
  that exist, names settle;
- observability: what pages show holds for the present tunnel and policy.

## Modules

| module | models |
|---|---|
| `PolicyRouting.tla` | the routing engine, the reconciler, boot and the handlers that feed them |
| `MCPolicyRouting.tla` | starting configurations for the TLC runs |
| `PolicyRoutingProofs.tla` | theorems about `PolicyRouting` with their TLAPS proofs |
| `Lifecycle.tla` | one profile's tunnel under the on-demand manager, the resilience manager, boot, the handlers and preflight |
| `LifecycleProofs.tla` | theorems about `Lifecycle` |
| `VPNRuntime.tla` | start, stop and status of OpenVPN and WireGuard: processes, interfaces, pid and meta files |
| `VPNRuntimeProofs.tla` | theorems about `VPNRuntime` |
| `Tables.tla` | SQLite tables as functions: id allocation, insert, update, delete |
| `TablesProofs.tla` | the lemmas about them that the proofs share |
| `ProfileLibrary.tla` | profile rows and files, group rows, names: `vpn_profiles.py`, `routing_groups.py` |
| `Backup.tla` | export, inspection and restore against edits, managers and stops |
| `BackupProofs.tla` | theorems about `Backup` |
| `Migrations.tla`, `Schema.tla`, `MCMigrations.tla` | `create_app` up to the end of the migrations; the tables of each version; both together |
| `SchemaVersion.tla` | what the migrations promise: a version that moves one by one |
| `MigrationsProofs.tla` | theorems about `Migrations` |
| `Accounts.tla` | users, their clients, the setup wizard and boot's part in it |
| `AccountsProofs.tla` | theorems about `Accounts` |
| `Refresh.tla` | who refreshes the sets after overrides, address changes and restores |
| `ServicesProofs.tla` | theorems about `ProfileLibrary`, `Refresh` and `Observability`, and about `MCServices`, which composes them with `Accounts` |
| `Observability.tla` | exit addresses and DNS verdicts: probe, publish, show |
| `MCServices.tla` | one run for `ProfileLibrary`, `Accounts`, `Refresh` and `Observability` |

`PolicyRouting` takes tunnels as the environment gives them, `Lifecycle` says how they
come and go with start and stop as single steps, `VPNRuntime` says what those steps are
made of. The rebuild that follows a start or stop is `RebuildNow` in `PolicyRouting`;
`Refresh` has an engine call as a read and a write, whose commands `PolicyRouting` has.

### PolicyRouting

State and its origin:

- `groups`, `vpnProfile`, `fallback`, `assigned`, `override`: the rows. `override`
  holds an override while it counts (`expires_at` in the future).
- `conn`, `dev`: profiles whose `status()` is connected with a tunnel address, and
  profiles whose interface exists.
- `rules`, `table`: `ip rule` entries and default route of each group.
- `loads`, `marks`, `sets`: the nft table. Every `nft -f` appends the mark rules of
  all its groups, so a rule is identified by the load that appended it; the last
  matching mark rule wins because `meta mark set` does not end the chain.
- `pc`, `cause`, `snap`, `todo`, `route`: one engine call per actor, with the
  values it has read so far.
- `booted`, `signature`, `seen`: the reconciler and its `_last_signature`.
- `missed`: history. A change that the reconciler may never notice: a tunnel has changed since
  its last look, or the boot rebuild failed or was overtaken before `start` recorded it.
- `pure`, `settled`: history. A call is pure while no other call overlaps it and
  none of its inputs changes; `settled` says whether a pure call has completed
  and nothing has changed since.

`ReadGroups` to `LoadNftTable` are `rebuild`, a step per command; `ApplyReadGroups`
to `ApplyDone` are `apply_assignment_sets`, including its fall back to a complete
rebuild (`SetMissing`). `CommandFails`, `RouteRefused`, `RuleRefused`,
`ElementsRefused` and `CleanupUnreadable` are the error paths. `Path(c)` is the
path the kernel gives a client's packets, `Desired(c)` the path the
configuration and the tunnels ask for.

Abstractions: addresses are the clients themselves; gateways and mirrored
connected routes follow the default route; hairpin NAT, masquerading and the
forced-DNS rules do not change the exit path and are left out. A rebuild reads groups and
assignments anew, where its session may hand it group objects it has loaded before
(`services/routing.py:525-554`). `ip rule del`,
`ip route flush` and `nft delete table` are taken to fail only when there is
nothing to delete. The boot sequence's override expiry and on-demand
reconciliation happen before the initial rebuild and are part of `Init`'s
freedom. A command that times out at boot ends the process (`Restart`).

### Lifecycle

Both managers loop over the profiles and treat each on its own, so the module has
one profile.

- `enabled`, `policy`, `assigned`, `override`: the profile's row, whether clients are
  assigned to its groups, and whether an override brings a client to it or takes the
  assigned ones away. `Required` is what `_required_ids` computes from them.
- `tun`, `hung`, `age`: `status()` and its uptime. "disconnected", "failed" and "stale"
  are one state, `down`: every caller here treats them alike except that a stale
  interface is not idle (it is stopped, then down). `hung` marks an attempt that will
  not connect in time.
- `idle`: age of the profile's `_idle_since` entry; `failures`, `retryIn`, `gaveUp`: its
  `RetryState`, `retryIn` counting down to `next_retry_at`.
- `pc`, `seen`, `after`: each thread's step, the rows it read and what it will commit.
- `hangs`, `sinceHang`, `unused`, `overtaken`, `backdated`: history for the properties. Timeouts
  in a row, time since the last, time since a pass or a request noticed demand, passes that
  were under way when another thread noticed it, and whether such a pass dated the idle time.

The `Od` actions are a pass of `reconcile_once`, which the loop, boot and every
request that changes demand run: the required ids and the clock (`OdRead`), the rows (`OdRows`),
the idle time of a required tunnel forgotten (`OdNeeded`) and its start (`OdStart`), the status of
an unused one (`OdUnused`), its idle time begun at the clock of the pass (`OdIdle`) or found
over (`OdDecide`), the stop (`OdStop`, `OdStopFails`) and the look after it (`OdForget`). No lock is
held, so that every other thread may come between any two. The `Rs`
actions are `_tick_profile`: rows, then status, then the start or stop it decided on.
`Connect`, `Disconnect` and `Demand` are the handlers up to the call of the runtime,
their `Commit` actions what they save afterwards. `Preflight` and the `Pf` actions are the
preflight job for this profile: status, stop of a half-made tunnel, start, and at the end
a stop whatever has happened meanwhile. `Restart` loses processes and idle
times and keeps rows and retry state.

Abstractions: `start` and `stop` are one step each (two starts at once belong to
`VPNRuntime`); the connect timeout is not 0, which would turn recycling off; a pass ends
within `MaxPass` units of time; the settings do not change.

### VPNRuntime

- `owner`: the process table, by id; `link`, `holder`: each profile's interface (bare, up or
  with a recent handshake) and the process that has it open; `pidFile`, `meta`: the files
  beside them. `old` are ids in files from before the container's last restart: only those
  can be taken by a foreign process, since a running container does not reuse ids.
- `pc`, `job`, `held`: one call of `start` or `stop` per thread. OpenVPN's start is
  `StartCheck`, `Spawn`, `Record` (pid file), `Stamp` (meta file), `Poll`; WireGuard's `StartCheck`,
  `Create`, `Configure`, with `ConfigureFails` when the clean-up works and `CleanupFails` when it
  does not; a stop is `Kill`, `Remove`. The manager thread calls them as `_tick_profile` does.
- `WorkerRestart` ends the threads, `ContainerRestart` the processes too.
- `marred`: history, profiles on which two calls, or a call and a crash, have met or a clean-up
  has failed. A stop alone with a WireGuard profile leaves nothing of it and clears the mark.

Time is left out: an attempt that is not `hung` connects before its timeout.

### ProfileLibrary, Backup

Tables are functions from ids to records (`Tables`): a new row gets the id after the
largest, so that the last deleted id comes back, as SQLite's rowids do without
AUTOINCREMENT. A profile's configuration file is a name (`ProfileLibrary`, where names and
their numbering matter) or a name with a content (`Backup`, where it matters whether the
file is the one its row belongs to). Validation of uploads, locations and credentials are data.
`ProfileLibrary` has the edit of a group in two steps: the form and the check of the profile
(`EditGroup`), and the commit of the columns that changed (`UpdateGroup`).

`Backup` has every step of `restore_backup`: snapshot, stops, deletes, unlink, one copy per file,
rows and commit, and on a failure the rollback of the transaction, the removal of the new files
and the rewriting of the old ones. `lock` is SQLite's write lock, taken by the first delete. A
manager of `Managers` reads the rows once (`seen`) and starts tunnels later, each with what the
file of the row it read holds by then. `torn`, `strays` and `fragile` are history: what a stop of
the process, a second failure, a manager or another request has been able to break.

### Migrations

`CreateTable` is `db.create_all`, one table at a time; `ReadVersion` the supported version
check; `Begin` and `Apply` one migration with its row and commit; `Serve` the end of
`create_app`. `Init` has every database that one can meet: none, tables of an interrupted
`create_all`, a release before versions, each later version, a newer one. The constants
`BaseTables` and `Home` say which tables there were and which version adds or alters
which: one table for each version, whose columns and indexes count as one item and whose
statements are one step of a transaction. `Schema` has those of this program.

### Accounts, Refresh, Observability

Each request is authorised and reads in one step and commits in another. `Accounts` keeps users
with their role, the owner of each client, the setup mark and the token file; `Refresh` one client
with its assignment, its override and what the sets have; `Observability` one profile with its
cached exit address and one group with its cached DNS verdict: state, resolvers, exit and
configured resolver, into which `_set_dns_group_state` merges what a result sets, so that the rest
stays from an earlier one. `raced`, `moved`, `stale`, `owed`, `late`, `sound` are history: they
say which overlaps happened, so that the properties can name exactly what the code does not
exclude.

## Runs

| run | expects | question |
|---|---|---|
| `routing_faults` | pass | one edit, tunnel event, failure and restart in any order: is the outcome of an undisturbed call right? |
| `routing_edits` | pass | two edits with concurrent callers: does anything stale or duplicate survive an undisturbed call? |
| `routing_recovery` | pass | after failures at boot or later, a restart and tunnel changes at any time: does the kernel converge unless the reconciler has missed something? |
| `routing_killswitch` | violation | does a Block group keep its clients off the WAN? |
| `lifecycle` | pass | does a wanted tunnel end up connected and an unneeded one down? |
| `lifecycle_safety` | pass | are backoff delays, the limit of failures and the grace period kept across restarts and interleaved passes? |
| `lifecycle_unused` | violation | does a profile go down when an override takes its clients away? |
| `runtime` | pass | does the program lose a process, leave an interface unserved, or get stuck on a pid file? |
| `backup` | pass | do rows, files and tunnels fit together after an export or restore met edits, failures and a stop? |
| `backup_overrides` | violation | can every backup with overrides be restored? |
| `migrations` | pass | does every database reach the supported schema, in order and without loss, with workers racing? |
| `services` | pass | the properties of the library, the accounts, the refreshes and the verdicts |

Bounds of the routing runs. Two group ids are enough for a deleted group beside a live one and for a
reused id; with one client and one tunnel the groups compete for the same packets
and the same interface. Two actors (reconciler and one handler) give every overlap
of two calls; the proofs cover more. `MaxEdits`, `MaxTunnelEvents`, `MaxFaults` and
`MaxRestarts` bound the environment only. Deadlock is not checked: the system
rests when its bounds are used up.

Bounds of the lifecycle runs. A grace period and a connect timeout of one or two units tell
"running" from "just begun" and "over"; delays of 1 and 2 units, with the cap and the limit
of failures reached by the second failure, show growth, cap and giving up; a pass of one unit
tells its clock from the time of its stop. `MaxBad` bounds attempts and stops that go
wrong, `MaxDrops` lost connections, `MaxRequests` and `MaxRestarts` what else the
environment does.

Bounds of the other runs. `runtime`: one profile of each type shares nothing with another; three
process ids allow a lost process, its successor and a foreign one; the manager and one more thread
give every overlap of two calls. `backup`: one manager, whose pass may begin and end at any time;
two file names and contents tell a profile's own file from another's; two handlers overlap a
restore with an edit; a restore, an export and an edit are three requests; two faults allow a
failure and a failure of its rollback. `migrations`: the real list of nine, two workers, two
stops. `services`: two handlers; two requests to the library, which starts as any that earlier
ones may have left, four to the accounts, so that two overlap and others prepare or follow
(refreshes and verdicts have one request thread, `Callers`, beside their loops); two addresses,
exits and resolvers, since a stale one must differ from the present one; a policy without a target
(`Inherit`) is always there beside them.

`MCServices` steps one of its four components in each behaviour: they share no state, so
that interleaving them would add states and no behaviour of any. It extends `Accounts` and
instantiates the other three.

Fairness of `PolicyRouting`: a thread inside a call goes on (commands have timeouts), the
reconciler's loop catches every exception and polls forever, and a handler that
has begun a two-step operation ends it. Nobody owes the system an edit, a tunnel
event or a failure.

Fairness of `Lifecycle`: both loops catch every exception and poll forever, requests
in progress go on (commands and waits have timeouts), time passes, and an attempt that
is not bad connects before its timeout (`Tick` waits for it). Requests, failures,
drops and restarts are never owed.

Fairness of `VPNRuntime`: calls in progress go on, the manager's loop comes back to every
profile however often it finds it busy (strong fairness of its tick: it polls forever and
other calls end), and an attempt that is not hung completes. Of `Migrations`: booting
workers go on, and docker's restart policy starts those that failed. Of `Refresh` and
`Observability`: their loops run forever; a request owes nothing.

`UnusedGoesDown` and `WantedComesUp` hold in `lifecycle`, which has no overrides. With an
override that takes clients away the first fails (`lifecycle_unused`). The second fails,
by the same difference between the managers, with an override that brings the only
client: the resilience manager does not supervise the profile then, so an attempt that
hangs is never recycled (`Requests = {"override_to"}` in `lifecycle.cfg` shows it).
`GraceKept` speaks of demand that some pass or request noticed: a client that is assigned and
removed again between two passes does not restart the grace period. It excepts the stop of a pass
that another thread's notice overtook (`overtaken`) or that goes by an idle time such a pass dated
(`backdated`); "late demand" below is what happens then.

`Converges` says nothing while `missed` holds, and it is checked without a concurrent handler; "boot
rebuild", "startup" and "flap" below are what happens otherwise. `missed` ends with the reconciler's
next look that finds a difference, so the property covers every run in which the last
tunnel event or boot was followed by one, however many rebuilds failed before.

Properties with exceptions (`ProcessesNamed`, `FilesMatchRows`, `AdminRemains`,
`QuietMeansApplied` and their like) say in their formula which overlap or failure breaks them.
Each exception is reachable: without it TLC finds the counterexample. The overlap itself is
thereby not ruled out, since the code does not prevent it; the property says that nothing else has
the same effect. The hazards of `PROJECT.json` that an exception leaves open say so in a note.

### Findings

- **Kill switch** (`routing_killswitch`). `src/README.md:254` promises that a VPN-backed
  Block group is blackholed when its VPN is unavailable. The blackhole route is
  installed only by a rebuild. When the interface goes, its routes go with it, the
  group's table is empty and lookups fall through to the main table, so the
  clients use the WAN until the reconciler has rebuilt.
- **Unused profile** (`lifecycle_unused`). The on-demand manager counts effective
  assignments, the resilience manager persistent ones; a profile whose clients are all
  overridden elsewhere is stopped by the one and started by the other, forever, against
  `src/CHANGELOG.md:942-943`.
- **Overrides in a backup** (`backup_overrides`). Deleting a group leaves overrides that name
  it. The export includes them and the inspection refuses the whole ZIP
  (`services/backups.py:459`), against `src/CHANGELOG.md:441-443`.

Other divergences seen while modelling, without a run of their own:

- boot rebuild: a failed initial rebuild is only logged (`__init__.py:200`), and `start` then records
  the present states as applied (`services/routing_reconciler.py:148`): until a tunnel differs from
  them or somebody rebuilds, the kernel stays without the rules and sets of the configuration;
- startup: `RoutingReconciler.start` records the tunnels' present state as already applied
  although the boot rebuild read it earlier (`services/routing_reconciler.py:148`,
  `src/CHANGELOG.md:1173`);
- flap: states are compared at polls; an interface that is recreated between two polls has
  lost its routes while the signature is unchanged (`:114`). When a rebuild fails and the
  tunnel returns to its previous state, the signature matches again and the half-built
  state stays;
- late demand: a pass of the on-demand manager decides by the ids and the clock of its beginning
  (`services/on_demand.py:173-175`). Another thread that notices demand and forgets the idle time
  between the check (208) and the stop (210) does not keep the tunnel up, and an idle time begun
  by such a pass is dated back before that demand, so that a later stop comes early;
- a WireGuard start that fails deletes its interface without looking at the result, and a
  timeout of either command of the clean-up skips the rest (`services/vpn_runtime.py:470-475`). The
  bare interface then makes every start refuse, until a stop removes it;
- the pid file and the meta file are written one after the other (`services/vpn_runtime.py:655-659`).
  When the container stops in between, a process that later has that id counts as a connecting
  tunnel without a start time, which no timeout ever recycles;
- no backoff: an OpenVPN process that exits after `start` has returned and before the
  connect timeout is no failure to the resilience manager: it is started again at every
  check (`services/vpn_resilience.py:184`, `src/README.md:45`);
- disconnect: the handler stops the process, which may take seconds, before it disables the
  profile; a manager in between starts it again and nobody stops a disabled profile
  (`vpn_profiles.py:818`, `src/CHANGELOG.md:748`); preflight likewise starts a profile that
  was disabled after its list was read (`services/preflight.py:114`);
- an import that fails removes the file at its path, also one that was there before it
  (`vpn_profiles.py:606-694`);
- a hung attempt of a profile that only an override requires is never recycled;
- names that differ in case only are accepted by the database and refused by the
  inspection of a backup;
- deleting a group with two or more assigned clients raises in `scalar_one_or_none`
  (`routing_groups.py:318`);
- the address saved with an override is not updated when WG-Easy changes it
  (`clients.py:81-122`);
- a profile restored under the same id, or a tunnel that reconnects between two looks, is
  shown as connected with the old exit address until the next look
  (`vpn_profiles.py:117-151`, `src/CHANGELOG.md:414`);
- a DNS result is merged into the cached state (`services/observability.py:171-175`): the exit ASN
  of the last answer survives a failed probe, and the configured resolver a change of the policy
  to none, and both are shown beside the time of the last check
  (`templates/routing_groups/index.html:197-200`);
- the loop drops cached DNS states by the list of groups of its beginning (302-314), so that the
  fresh verdict of a group created meanwhile goes, and that of one deleted meanwhile stays until the
  next pass;
- the managers start tunnels from rows read at the beginning of a pass, after a restore or a
  deletion has stopped them (`services/on_demand.py:177`, `services/vpn_resilience.py:273`); the edit
  of a group may give it a profile that is deleted before it commits (`routing_groups.py:270-291`);
- the traffic sampler reads its interval outside an application context, so that the
  setting never applies (`services/traffic_visibility.py`).

## Proofs

`PolicyRoutingProofs` proves, for any sets of groups, clients, profiles and callers and
any bounds, from the named assumptions of `PolicyRouting` on its constants:

- `TypeCorrect`: `Spec => []TypeOK`;
- `SettledIsDesired`: `Spec => []SettledMeansDesired`;
- `SettledIsClean`: `Spec => []SettledMeansClean`;
- `DuplicatesGo`: `Spec /\ []FewRebuilds => []DuplicatesRemoved`, where `FewRebuilds` says that
  no more than four rebuilds are under way at once.

`SettledMeansDesired` speaks of completed calls and is not inductive: it says nothing
of a call under way. `IInv` adds what an undisturbed call has already put right at
each step: `RebuildOK` (the snapshot is the present configuration, stale rules are
gone, groups no longer in `todo` are built, the nft table is empty when it is
about to be loaded), `ApplyOK` (routes are applied, sets no longer in `todo` hold
their members) and `SettledOK` (after a completed call every rule, route, mark and
set is right, and no call that could spoil them is under way). The key
argument is that a second call cannot begin a rebuild without `BeginRebuild`
ending the purity of the first, while a concurrent refresh of unchanged inputs
is harmless. There is one lemma per action; `InvNext` joins them, and PTL turns them
into the theorems. The invariant was checked with TLC first.

`DuplicatesGo` needs its hypothesis because `_flush_group_rule` deletes at most four rules: with
five overlapping rebuilds the next one may leave a second rule behind. `OnceInv` adds to
`IInv` that a group's rules and the rebuilds that have flushed it and still have
theirs to add (`Owing`) are together no more than four (`FewRules`), so that every flush leaves
no rule, and that an undisturbed rebuild has no rule where it has flushed and one where it has
built (`OneRule`). A flush restores the first part whatever it finds; an addition moves one
from the owing rebuilds to the rules. Five threads of the program rebuild: two
serve requests, the others are the reconciler, the on-demand manager and, when it finds a set
missing, the override manager. The hypothesis excludes only that all five do so at once.

`MigrationsProofs` proves, for any list of migrations, any tables, users, workers and bounds,
from the assumptions of `Migrations` on its constants:

- `TypeCorrect`, `SchemaIsComplete`, `RolesAreUpgraded`: `Spec => []TypeOK`,
  `[]SchemaComplete`, `[]RolesUpgraded`;
- `MigrationsRefine`: `Spec => Refines`, that is, `Migrations` implements `SchemaVersion`.

The inductive invariant `Inv` is `TypeOK`, `SchemaComplete`, `Views` and `Roles`. `SchemaComplete`
alone is not inductive. `Views` adds what each worker believes: no later version than the
recorded one, work only on a database it can read, a transaction only for a pending version.
A worker whose version is out of date is refused by the key of `schema_migrations`, which is
what keeps the versions an unbroken series. `Roles` carries the administrators through the states
before the promotion. The refinement then is a case split over the actions: `Apply` of a
version not yet recorded is `Migrate`, all else leaves `Version` alone.

`LifecycleProofs` proves, for any handlers and any grace period, timeout, delays and limits, from
the assumptions of `Lifecycle` on its constants: `TypeCorrect`, `BackoffIsKept` (`Spec =>
BackoffKept`) and `GraceIsKept` (`Spec => GraceKept`). Both properties are about steps, and say
that history variables are large enough when the step is taken; the inductive invariant `IInv`
relates these to what the program keeps. `Waited`: an idle entry that is not `backdated` is no
older than the last notice of demand. `PassWaited`: neither is the clock of a pass that is not
`overtaken`, and one that has decided to stop has a whole grace period behind it. `Counted`,
`Delayed`, `Due`: the saved failures are the timeouts in a row, the delay that is left and the
time since the last timeout make up at least the delay that is owed, and a thread that has decided
to start has waited it. `DelayAssumption` says that capped delays are natural numbers that grow
with the failures: that powers of two do takes an induction, so TLC evaluates it instead.

`VPNRuntimeProofs` proves `TypeCorrect`, `ProcessesAreNamed` and `InterfacesAreServed` (`Spec =>
[]ProcessesNamed`, `[]InterfacesServed`) for any profiles, threads and ids. The invariant adds
what a call knows while it runs: `Busy` and `Found` (what `start` found before it launched still
holds at its next step), and `Alone` (of two threads at one profile the overlap has been noted in
`marred`). Together they give that a new pid file hides no process and a new interface no older
one.

`BackupProofs` proves `TypeCorrect`, `RestoreIsWhole` (`Spec => []FilesMatchRows`),
`TunnelsAreCurrent` and `ExportsAreComplete` for any files, contents, managers,
request threads and bounds.
Its `IInv` has two parts. `Typed` always holds: what requests carry is typed too, and a
restore carries a backup that was inspected. `Library` holds until a swap is torn: by `Solo` a
restore is alone with the library, so that what it `Saved` still suits the rows when it puts
files back, and what it copied is `Within` the backup whose rows it commits; by `Owned` each file is
one profile's or one request's, which is why an edit takes nobody else's; by `Stopped` no
tunnel is left when rows are replaced, but strays. `FilesMatchRows` alone says nothing inside
a swap, where all the work is.

`AccountsProofs` proves `TypeCorrect`, `AdminStays`, `SetupStaysReachable` and `AccessStaysOwned`
for any users, clients and bounds. `Safe` is the heart of it: a request that has been authorised
leaves another administrator until it commits, because by `Solo` any other request that changes
users meanwhile counts as an overlap. The first id and the next id are a least and a largest
element, whose existence `TablesProofs` gets from the well-foundedness of the natural numbers.

`ServicesProofs` proves of the specification that the run `services` checks, `MCSpec`, for any
bounds, threads, names, files and addresses, from the assumptions `TablesAssumption` and
`NamesAssumption` of `MCServices` (the bounds on rows are natural numbers; the names of threads
and the marks of "nothing" and "failed" are no values):

- `ServicesTypeCorrect`: `MCSpec => []MCTypeOK`;
- `FilesAreKept`, `GroupsStayBacked` (`[]ConfigKept`, `[]GroupsBacked`) and `NamesSettle`
  (`MCSpec => SyncSettles`) of the library;
- `QuietIsApplied` (`[]QuietMeansApplied`) and `OverridesStay` (`MCSpec => LiveOverridesStay`) of
  the refreshes;
- `VerdictsAreSound` (`[]VerdictsSound`) of observability.

Each step of `MCSpec` is a step of one component, so that one inductive invariant per
component, joined in `MCInv` with that of `Accounts`, is kept by one component's actions and
untouched by the others'.

`LibInv` has `LibRows`, `LibThreads`, `LibFiles` and `LibGroups`. `ConfigKept` and `GroupsBacked` say
that a row is intact unless two requests overlapped on it; the invariant says why: a file
that a request holds is no row's but the one it deletes (`LibClaims`), two requests that hold
the same file, or delete a profile and create or change a group on it, have already been noted
(`LibApart`, `LibPairs`), and what a request has looked up is still so or noted
(`LibDeletes`, `LibCreates`). A new id is no row's, as the largest id of a finite set of rows exists.
`NamesSettle` is about the fold of `sync-names` over all profiles: each proposal
exists, is unique and is free when its turn comes (`ProposalsExist`, `ProposalsUnique`,
`LibTargets`; that one of the suffixes is free is the pigeonhole principle, `FirstFreeIsFree`),
so that renamed profiles get the same names again. The library's induction theorems being
out of reach, these proofs take the least profile for which the claim fails and refute it.

`QuietMeansApplied` speaks of the states in which nobody works; `RefInv` says of all others who
still owes the sets a refresh (`RefSettled`), and what a thread that has read the rows may rely
on until it writes (`RefFresh`, `RefSelected`). `VerdictsSound` speaks of what is shown; `ObsInv`
says what a look that nothing disturbs holds while it probes without a lock (`ObsHeld`), and what
a cache entry that nothing has overtaken says of the tunnel and the group's policy (`ObsSound`).

Each inductive invariant was checked with TLC as an invariant before it was proved.

Only model-checked: liveness (`Converges`, `WantedComesUp`, `UnusedGoesDown`, `Recovers`, `Boots`,
`InvalidateHeeded`, `VerdictsSettle`), which is out of the prover's reach, as ENABLED and
induction over data are. `KillSwitchHolds` and the properties of the other two runs that expect a
violation are false of the code, so there is nothing to prove. Every invariant and every action
property of the passing runs has its theorem.

## Not modelled

- Traffic visibility: one sampling loop computes rates from counters, without other writers.
- Settings and secrets: typed key-value rows and encryption. A changed setting meets a
  running manager only at its next pass.
- The WG-Easy client, GeoIP, profile intelligence and providers, configuration
  validation: HTTP and text parsing.
- Diagnostics, dashboards, templates and the read-only checks of preflight.
- Release scripts: they check the repository.
- Within the modelled parts: password hashing, sessions and login throttling; the ZIP
  format and its limits; the update check and version comparison of observability; hairpin
  NAT and forced-DNS rules of the nft table; a half-written retry state file
  (`services/vpn_resilience.py:84`); shutdown joining the threads; the setup wizard's check of the
  token and its look for the first user are one step; a DNS interval or connect timeout of 0,
  which switches the probes or the recycling off; the columns and statements inside one migration.
- Overlaps that the history variables except (`missed`, `overtaken`, `backdated`, `marred`,
  `torn`, `strays`, `fragile`, `contested`, `crossed`, `raced`, `moved`, `stale`, `late`, and what
  `sound` leaves out): they are modelled and happen in the runs, but the properties do not say
  what comes of them.

------------------------------- MODULE Backup -------------------------------
(***************************************************************************)
(* Backup and restore (app/services/backups.py, app/backups.py): an export *)
(* reads the rows and then the configuration files; a restore replaces     *)
(* both, the rows in one transaction, the files one by one inside it, and  *)
(* on a failure puts the files back.                                       *)
(*                                                                         *)
(* Requests that edit the library, the managers that start tunnels and the *)
(* stop of the process interleave with it. Only the write lock of SQLite   *)
(* orders them. Every profile is enabled here.                             *)
(***************************************************************************)
EXTENDS Integers, FiniteSets, Tables

CONSTANTS
    Handlers, Managers, \* request threads; the on-demand and resilience threads
    Files, Configs,     \* configuration file names; their contents
    Clients,
    MaxProfiles, MaxGroups, MaxRequests, MaxFaults

WAN == 0                \* vpn_profile_id of a group without a profile
Free == "free"          \* nobody has the write lock
NoTunnel == "none"
Ids == 1 .. MaxProfiles

ASSUME ContentsAssumption == NoTunnel \notin Configs /\ Free \notin Handlers
ASSUME BoundsAssumption ==
    /\ MaxProfiles \in Nat \ {0} /\ MaxGroups \in Nat \ {0}
    /\ MaxRequests \in Nat /\ MaxFaults \in Nat

VARIABLES
    profiles,           \* rows: id -> [file, config]; config: what the file should hold
    groups,             \* rows: id -> [profile, marked]; marked: has its allocation
    assigned, overrides, \* rows: client -> group id
    files,              \* configuration files: name -> contents
    tunnel,             \* id -> the configuration a tunnel runs with
    seen,               \* manager -> the rows its pass has read: id -> file
    backup,             \* the operator's ZIP
    lock,               \* the handler in a write transaction
    pc, job,            \* each handler's step and what it holds
    requests, faults,   \* bounds
    torn,               \* history: a restore met a crash, another request or a second failure
    strays,             \* history: tunnels a stop missed, or managers started from rows
                        \* that were being changed or had changed since they read them
    fragile             \* history: the backup was taken while a request changed the library

rows == <<profiles, groups, assigned, overrides>>
threads == <<pc, job>>
bounds == <<requests, faults>>
history == <<torn, strays, fragile>>
vars == <<rows, files, tunnel, seen, backup, lock, threads, bounds, history>>

-----------------------------------------------------------------------------
Idle(h) == pc[h] = "idle"
Goto(h, step) == pc' = [pc EXCEPT ![h] = step]
Hold(h, step, held) == Goto(h, step) /\ job' = [job EXCEPT ![h] = held]
Finish(h) == Hold(h, "idle", EmptyTable)

Arrive(h) == Idle(h) /\ requests < MaxRequests /\ requests' = requests + 1
Fault == faults < MaxFaults /\ faults' = faults + 1
Unlocked == lock = Free

Editing == {"write", "commit", "stop_one", "delete", "unlink_one"}
Swapping == {"stop", "begin", "unlink", "copy", "save", "wipe", "rewrite"}

\* A request that changes files meets a restore, or two restores meet.
Meets(h, steps) == torn' = (torn \/ \E k \in Handlers \ {h} : pc[k] \in steps)

\* Nobody is between two steps of a change to the library.
Quiet(h) == \A k \in Handlers \ {h} : pc[k] \notin Editing \cup Swapping

-----------------------------------------------------------------------------
(* export_backup.                                                          *)

ExportRows(h) ==
    /\ Arrive(h)
    /\ Hold(h, "export", [profiles |-> [p \in DOMAIN profiles |-> profiles[p].file],
                          groups |-> groups, assigned |-> assigned, overrides |-> overrides,
                          quiet |-> Quiet(h), at |-> profiles])
    /\ UNCHANGED <<rows, files, tunnel, seen, backup, lock, faults, history>>

\* An export of whatever lies in the directories.
ExportDirectory(h) ==
    /\ pc[h] = "export"
    /\ backup' = [profiles |-> job[h].profiles, groups |-> job[h].groups,
                  assigned |-> job[h].assigned, overrides |-> job[h].overrides,
                  configs |-> files]
    /\ fragile' = ~(job[h].quiet /\ Quiet(h) /\ job[h].at = profiles)
    /\ Finish(h)
    /\ UNCHANGED <<rows, files, tunnel, seen, lock, bounds, torn, strays>>

\* A configuration that is not there is left out without a word.
ExportFiles(h) ==
    /\ pc[h] = "export"
    /\ LET named == {job[h].profiles[p] : p \in DOMAIN job[h].profiles} IN
        backup' = [profiles |-> job[h].profiles, groups |-> job[h].groups,
                   assigned |-> job[h].assigned, overrides |-> job[h].overrides,
                   configs |-> [f \in named \cap DOMAIN files |-> files[f]]]
    /\ fragile' = ~(job[h].quiet /\ Quiet(h) /\ job[h].at = profiles)
    /\ Finish(h)
    /\ UNCHANGED <<rows, files, tunnel, seen, lock, bounds, torn, strays>>

-----------------------------------------------------------------------------
(* inspect_backup, _validate_backup_data.                                  *)

Named(b) == {b.profiles[p] : p \in DOMAIN b.profiles}

ConfigsComplete(b) ==
    /\ \A p, q \in DOMAIN b.profiles : p # q => b.profiles[p] # b.profiles[q]
    /\ DOMAIN b.configs = Named(b)

ReferencesExist(b) ==
    /\ \A g \in DOMAIN b.groups : b.groups[g].profile \in DOMAIN b.profiles \cup {WAN}
    /\ \A c \in DOMAIN b.assigned : b.assigned[c] \in DOMAIN b.groups
    /\ \A c \in DOMAIN b.overrides : b.overrides[c] \in DOMAIN b.groups

Allocated(b) == \A g \in DOMAIN b.groups : b.groups[g].marked

Valid(b) == ConfigsComplete(b) /\ ReferencesExist(b) /\ Allocated(b)

-----------------------------------------------------------------------------
(* restore_backup.                                                         *)

\* Inspection, staging, the snapshot of the live files and the read of the
\* current profiles touch nothing.
Snapshot(h) ==
    /\ Arrive(h)
    /\ Valid(backup)
    /\ Hold(h, "stop", [backup |-> backup, old |-> files, current |-> DOMAIN profiles])
    /\ Meets(h, Editing \cup Swapping)
    /\ UNCHANGED <<rows, files, tunnel, seen, backup, lock, faults, strays, fragile>>

\* Stops for the profiles of the backup instead of those of the library.
StopRestored(h) ==
    /\ pc[h] = "stop"
    /\ tunnel' = [p \in Ids |-> IF p \in DOMAIN job[h].backup.profiles THEN NoTunnel ELSE tunnel[p]]
    /\ Goto(h, "begin")
    /\ UNCHANGED <<rows, files, seen, backup, lock, job, bounds, history>>

\* Stops are best effort.
StopTunnels(h) ==
    /\ pc[h] = "stop"
    /\ \/ /\ tunnel' = [p \in Ids |-> IF p \in job[h].current THEN NoTunnel ELSE tunnel[p]]
          /\ UNCHANGED <<faults, strays>>
       \/ \E p \in job[h].current :
            /\ Fault /\ tunnel[p] # NoTunnel
            /\ tunnel' = [q \in Ids |-> IF q \in job[h].current \ {p} THEN NoTunnel ELSE tunnel[q]]
            /\ strays' = strays \cup {p}
    /\ Goto(h, "begin")
    /\ UNCHANGED <<rows, files, seen, backup, lock, job, requests, torn, fragile>>

\* The first delete takes the write lock; what follows is invisible until the
\* commit.
Begin(h) ==
    /\ pc[h] = "begin" /\ Unlocked
    /\ lock' = h
    /\ Goto(h, "unlink")
    /\ UNCHANGED <<rows, files, tunnel, seen, backup, job, bounds, history>>

Unlink(h) ==
    /\ pc[h] = "unlink"
    /\ files' = EmptyTable
    /\ Goto(h, "copy")
    /\ UNCHANGED <<rows, tunnel, seen, backup, lock, job, bounds, history>>

Copied(h, from) == files' \in {With(files, f, from[f]) : f \in DOMAIN from \ DOMAIN files}

Copy(h) ==
    /\ pc[h] = "copy"
    /\ LET staged == job[h].backup.configs IN
        IF DOMAIN staged \subseteq DOMAIN files
        THEN Goto(h, "save") /\ UNCHANGED files
        ELSE Copied(h, staged) /\ UNCHANGED pc
    /\ UNCHANGED <<rows, tunnel, seen, backup, lock, job, bounds, history>>

Save(h) ==
    /\ pc[h] = "save"
    /\ LET b == job[h].backup IN
        /\ profiles' = [p \in DOMAIN b.profiles |->
                          [file |-> b.profiles[p], config |-> b.configs[b.profiles[p]]]]
        /\ groups' = b.groups /\ assigned' = b.assigned /\ overrides' = b.overrides
    /\ lock' = Free
    /\ Finish(h)
    /\ UNCHANGED <<files, tunnel, seen, backup, bounds, history>>

\* A failure that puts the files back before it ends the transaction.
RestoreFailsLocked(h) ==
    /\ pc[h] \in {"begin", "unlink", "copy", "save"}
    /\ Fault
    /\ Goto(h, "wipe")
    /\ UNCHANGED <<rows, files, tunnel, seen, backup, lock, job, requests, history>>

\* A row that is refused, a lock not granted in time, a full disk: rollback.
RestoreFails(h) ==
    /\ pc[h] \in {"begin", "unlink", "copy", "save"}
    /\ Fault
    /\ lock' = IF lock = h THEN Free ELSE lock
    /\ Goto(h, "wipe")
    /\ UNCHANGED <<rows, files, tunnel, seen, backup, job, requests, history>>

\* A rollback of the rows that leaves the files as they are.
WipeNever(h) ==
    /\ pc[h] = "wipe"
    /\ Finish(h)
    /\ UNCHANGED <<rows, files, tunnel, seen, backup, lock, bounds, history>>

Wipe(h) ==
    /\ pc[h] = "wipe"
    /\ files' = EmptyTable
    /\ Goto(h, "rewrite")
    /\ UNCHANGED <<rows, tunnel, seen, backup, lock, job, bounds, history>>

\* The former files are written back and the former tunnels started.
Rewrite(h) ==
    /\ pc[h] = "rewrite"
    /\ LET old == job[h].old
           revived == job[h].current \cap DOMAIN profiles IN
        IF DOMAIN old \subseteq DOMAIN files
        THEN /\ tunnel' = [p \in Ids |->
                    IF p \in revived /\ tunnel[p] = NoTunnel /\ profiles[p].file \in DOMAIN files
                    THEN files[profiles[p].file] ELSE tunnel[p]]
             /\ Finish(h)
             /\ UNCHANGED files
        ELSE Copied(h, old) /\ UNCHANGED <<tunnel, threads>>
    /\ UNCHANGED <<rows, seen, backup, lock, bounds, history>>

RewriteFails(h) ==
    /\ pc[h] = "rewrite" /\ ~ DOMAIN job[h].old \subseteq DOMAIN files
    /\ Fault
    /\ torn' = TRUE
    /\ Finish(h)
    /\ UNCHANGED <<rows, files, tunnel, seen, backup, lock, requests, strays, fragile>>

Restore(h) ==
    \/ Snapshot(h) \/ StopTunnels(h) \/ Begin(h) \/ Unlink(h) \/ Copy(h) \/ Save(h)
    \/ RestoreFails(h) \/ Wipe(h) \/ Rewrite(h) \/ RewriteFails(h)

-----------------------------------------------------------------------------
(* Requests that edit the library; a commit waits for the lock.            *)

NewProfile(h) ==
    /\ Arrive(h)
    /\ \E f \in Files \ DOMAIN files, c \in Configs :
        Hold(h, "write", [file |-> f, config |-> c])
    /\ Meets(h, Swapping)
    /\ UNCHANGED <<rows, files, tunnel, seen, backup, lock, faults, strays, fragile>>

\* Two requests for one file are the profile library's matter.
WriteConfig(h) ==
    /\ pc[h] = "write" /\ job[h].file \notin DOMAIN files
    /\ files' = With(files, job[h].file, job[h].config)
    /\ Goto(h, "commit")
    /\ UNCHANGED <<rows, tunnel, seen, backup, lock, job, bounds, history>>

AddProfile(h) ==
    /\ pc[h] = "commit" /\ Unlocked
    /\ NextId(profiles) \in Ids
    /\ profiles' = With(profiles, NextId(profiles), job[h])
    /\ Finish(h)
    /\ UNCHANGED <<groups, assigned, overrides, files, tunnel, seen, backup, lock, bounds, history>>

DeleteProfile(h) ==
    /\ Arrive(h)
    /\ \E p \in DOMAIN profiles :
        /\ \A g \in DOMAIN groups : groups[g].profile # p
        /\ Hold(h, "stop_one", [id |-> p, file |-> profiles[p].file])
    /\ Meets(h, Swapping \cup Editing)
    /\ UNCHANGED <<rows, files, tunnel, seen, backup, lock, faults, strays, fragile>>

StopOne(h) ==
    /\ pc[h] = "stop_one"
    /\ tunnel' = [tunnel EXCEPT ![job[h].id] = NoTunnel]
    /\ Goto(h, "delete")
    /\ UNCHANGED <<rows, files, seen, backup, lock, job, bounds, history>>

DeleteRow(h) ==
    /\ pc[h] = "delete" /\ Unlocked
    /\ IF job[h].id \in DOMAIN profiles
       THEN profiles' = Without(profiles, job[h].id) /\ Goto(h, "unlink_one") /\ UNCHANGED job
       ELSE Finish(h) /\ UNCHANGED profiles
    /\ UNCHANGED <<groups, assigned, overrides, files, tunnel, seen, backup, lock, bounds, history>>

UnlinkOne(h) ==
    /\ pc[h] = "unlink_one"
    /\ files' = Without(files, job[h].file)
    /\ Finish(h)
    /\ UNCHANGED <<rows, tunnel, seen, backup, lock, bounds, history>>

ProfileEdit(h) ==
    \/ NewProfile(h) \/ WriteConfig(h) \/ AddProfile(h)
    \/ DeleteProfile(h) \/ StopOne(h) \/ DeleteRow(h) \/ UnlinkOne(h)

\* A group of the form has its allocation, the one that a new profile brings
\* waits for the rebuild.
NewGroup ==
    /\ NextId(groups) <= MaxGroups
    /\ \E p \in DOMAIN profiles \cup {WAN}, marked \in BOOLEAN :
        groups' = With(groups, NextId(groups), [profile |-> p, marked |-> marked])
    /\ UNCHANGED <<profiles, assigned, overrides>>

\* Assignments keep a group; overrides do not.
DeleteGroup ==
    /\ \E g \in DOMAIN groups :
        /\ \A c \in DOMAIN assigned : assigned[c] # g
        /\ groups' = Without(groups, g)
    /\ UNCHANGED <<profiles, assigned, overrides>>

Assign ==
    /\ \E c \in Clients, g \in DOMAIN groups : assigned' = With(assigned, c, g)
    /\ UNCHANGED <<profiles, groups, overrides>>

Unassign ==
    /\ \E c \in DOMAIN assigned : assigned' = Without(assigned, c)
    /\ UNCHANGED <<profiles, groups, overrides>>

Override ==
    /\ \E c \in Clients, g \in DOMAIN groups : overrides' = With(overrides, c, g)
    /\ UNCHANGED <<profiles, groups, assigned>>

EndOverride ==
    /\ \E c \in DOMAIN overrides : overrides' = Without(overrides, c)
    /\ UNCHANGED <<profiles, groups, assigned>>

GroupEdit ==
    /\ requests < MaxRequests /\ requests' = requests + 1
    /\ Unlocked
    /\ NewGroup \/ DeleteGroup \/ Assign \/ Unassign \/ Override \/ EndOverride
    /\ UNCHANGED <<files, tunnel, seen, backup, lock, threads, faults, history>>

\* ensure_allocations, at the start of every rebuild.
Allocate ==
    /\ Unlocked /\ \E g \in DOMAIN groups : ~groups[g].marked
    /\ groups' = [g \in DOMAIN groups |-> [groups[g] EXCEPT !.marked = TRUE]]
    /\ UNCHANGED <<profiles, assigned, overrides, files, tunnel, seen, backup, lock, threads,
                   bounds, history>>

-----------------------------------------------------------------------------
(* The managers and the process.                                           *)

\* A pass reads the committed rows once.
ManagerReads(m) ==
    /\ seen' = [seen EXCEPT ![m] = [p \in DOMAIN profiles |-> profiles[p].file]]
    /\ UNCHANGED <<rows, files, tunnel, backup, lock, threads, bounds, history>>

RowKept(m, p) == p \in DOMAIN profiles /\ profiles[p].file = seen[m][p]

\* Later in the pass it starts a profile with what the file of the row it has
\* read holds by now.
ManagerStart(m, p) ==
    /\ p \in DOMAIN seen[m] /\ tunnel[p] = NoTunnel
    /\ seen[m][p] \in DOMAIN files
    /\ tunnel' = [tunnel EXCEPT ![p] = files[seen[m][p]]]
    /\ strays' = IF RowKept(m, p) /\ \A h \in Handlers : pc[h] \notin Swapping \cup {"delete"}
                 THEN strays ELSE strays \cup {p}
    /\ UNCHANGED <<rows, files, seen, backup, lock, threads, bounds, torn, fragile>>

TunnelEnds(p) ==
    /\ tunnel[p] # NoTunnel
    /\ tunnel' = [tunnel EXCEPT ![p] = NoTunnel]
    /\ strays' = strays \ {p}
    /\ UNCHANGED <<rows, files, seen, backup, lock, threads, bounds, torn, fragile>>

\* The process stops: the transaction is undone, the files are not.
Crash ==
    /\ Fault
    /\ \E h \in Handlers : ~Idle(h)
    /\ lock' = Free
    /\ pc' = [h \in Handlers |-> "idle"] /\ job' = [h \in Handlers |-> EmptyTable]
    /\ seen' = [m \in Managers |-> EmptyTable]
    /\ torn' = (torn \/ \E h \in Handlers : pc[h] \in {"unlink", "copy", "save", "wipe", "rewrite"})
    /\ UNCHANGED <<rows, files, tunnel, backup, requests, strays, fragile>>

-----------------------------------------------------------------------------
\* A library of one profile, with a group or none, and a backup of an earlier
\* one, in which the profile had the same or another configuration in a file of
\* the same name or of another.
Init ==
    /\ \E f \in {CHOOSE f \in Files : TRUE}, c \in {CHOOSE c \in Configs : TRUE},
          g \in Files, d \in Configs :
        /\ profiles = [p \in {1} |-> [file |-> f, config |-> c]]
        /\ files = [k \in {f} |-> c]
        /\ backup = [profiles |-> [p \in {1} |-> g],
                     groups |-> [k \in {1} |-> [profile |-> 1, marked |-> TRUE]],
                     assigned |-> [k \in Clients |-> 1], overrides |-> EmptyTable,
                     configs |-> [k \in {g} |-> d]]
    /\ groups \in {EmptyTable, [k \in {1} |-> [profile |-> 1, marked |-> TRUE]]}
    /\ assigned = EmptyTable /\ overrides = EmptyTable
    /\ tunnel = [p \in Ids |-> NoTunnel] /\ seen = [m \in Managers |-> EmptyTable]
    /\ lock = Free
    /\ pc = [h \in Handlers |-> "idle"] /\ job = [h \in Handlers |-> EmptyTable]
    /\ requests = 0 /\ faults = 0
    /\ torn = FALSE /\ strays = {} /\ fragile = FALSE

Next ==
    \/ \E h \in Handlers : ExportRows(h) \/ ExportFiles(h) \/ Restore(h) \/ ProfileEdit(h)
    \/ GroupEdit \/ Allocate
    \/ \E m \in Managers : ManagerReads(m) \/ \E p \in Ids : ManagerStart(m, p)
    \/ \E p \in Ids : TunnelEnds(p)
    \/ Crash

Spec == Init /\ [][Next]_vars

-----------------------------------------------------------------------------
(* Properties.                                                             *)

\* Tables refer to known ids and files; the lock is held inside a swap only.
TypeOK ==
    /\ DOMAIN profiles \subseteq Ids /\ DOMAIN groups \subseteq 1 .. MaxGroups
    /\ \A p \in DOMAIN profiles : profiles[p].file \in Files /\ profiles[p].config \in Configs
    /\ DOMAIN files \subseteq Files /\ \A f \in DOMAIN files : files[f] \in Configs
    /\ DOMAIN assigned \cup DOMAIN overrides \subseteq Clients
    /\ tunnel \in [Ids -> Configs \cup {NoTunnel}]
    /\ \A h \in Handlers : lock = h <=> pc[h] \in {"unlink", "copy", "save"}

\* Whenever no restore is swapping files, every profile has the configuration
\* that belongs to it, under a name that an earlier one may have had: after a
\* restore that succeeds, one that fails at any of its steps, and every edit.
\* Only a stop inside the swap, a failure of the rollback itself or a profile
\* edit that overlaps the restore can leave a mixture ("Hardened restore
\* validation, staging and rollback", CHANGELOG).
FilesMatchRows ==
    torn \/ (\E h \in Handlers : pc[h] \in Swapping) \/
    \A p \in DOMAIN profiles :
        profiles[p].file \in DOMAIN files /\ files[profiles[p].file] = profiles[p].config

\* No tunnel runs with a configuration that is no longer its profile's, or for
\* a profile that is gone: restore stops them before it replaces the rows, and
\* delete before it removes one; a restore that fails starts them again with
\* the files it has put back. The strays are excepted, until they end: tunnels
\* that a failed stop leaves, and those that a manager starts while the rows
\* are about to change, or from a row it has read before they did.
TunnelsCurrent ==
    torn \/ (\E h \in Handlers : pc[h] \in Swapping \cup Editing) \/
    \A p \in Ids \ strays : tunnel[p] # NoTunnel =>
        p \in DOMAIN profiles /\ tunnel[p] = profiles[p].config

\* A backup taken of a whole library while no profile request was under way
\* has the configuration of every profile and no other, whatever files earlier
\* stops and failures have left beside them.
ExportsComplete == torn \/ fragile \/ ConfigsComplete(backup)

\* The overrides of a backup pass the check of their routing groups, so that
\* what export_backup hands out can be restored (CHANGELOG, "Backup exports now
\* include persisted temporary client route overrides").
OverridesRestorable ==
    \A c \in DOMAIN backup.overrides : backup.overrides[c] \in DOMAIN backup.groups
=============================================================================

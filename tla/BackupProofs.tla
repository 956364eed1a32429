----------------------------- MODULE BackupProofs -----------------------------
(***************************************************************************)
(* Theorems about Backup for any files, request threads and bounds: types, *)
(* and that rows, configuration files, tunnels and backups fit together.   *)
(*                                                                         *)
(* Once a swap is torn only types are left, so that the invariant has two  *)
(* parts: Typed, which always holds, and Library, which does until then.   *)
(***************************************************************************)
EXTENDS Backup, TablesProofs

Deleting == {"stop_one", "delete", "unlink_one"}
Steps == {"idle", "export"} \cup Editing \cup Swapping

ThreadsType == pc \in [Handlers -> Steps] /\ job = [h \in Handlers |-> job[h]]

FilesType(t) == DOMAIN t \subseteq Files /\ \A f \in DOMAIN t : t[f] \in Configs

\* The rows of a backup.
RowsType(b) ==
    /\ DOMAIN b.profiles \subseteq Ids /\ \A p \in DOMAIN b.profiles : b.profiles[p] \in Files
    /\ DOMAIN b.groups \subseteq 1 .. MaxGroups
    /\ DOMAIN b.assigned \cup DOMAIN b.overrides \subseteq Clients

\* What a request holds.
Carried(h) ==
    /\ pc[h] = "export" =>
        /\ RowsType(job[h])
        /\ job[h].profiles = [p \in DOMAIN job[h].at |-> job[h].at[p].file]
    /\ pc[h] \in Swapping =>
        /\ RowsType(job[h].backup) /\ FilesType(job[h].backup.configs)
        /\ ConfigsComplete(job[h].backup) /\ FilesType(job[h].old)
    /\ pc[h] \in {"write", "commit"} => job[h].file \in Files /\ job[h].config \in Configs
    /\ pc[h] \in Deleting => job[h].id \in Ids

Typed ==
    /\ TypeOK /\ ThreadsType
    /\ RowsType(backup) /\ FilesType(backup.configs)
    /\ \A h \in Handlers : Carried(h)

\* Without an overlap that tears it: a restore is alone with the library, and
\* so is a delete with others of its kind.
Solo ==
    \A h, k \in Handlers : h # k =>
        /\ pc[h] \in Swapping => pc[k] \notin Swapping \cup Editing
        /\ pc[h] \in Deleting => pc[k] \notin Deleting

\* Every profile has its configuration among the files t.
Whole(t) ==
    \A p \in DOMAIN profiles :
        profiles[p].file \in DOMAIN t /\ t[profiles[p].file] = profiles[p].config

Apart == \A p, q \in DOMAIN profiles : p # q => profiles[p].file # profiles[q].file

\* A file is one profile's, or that of a request that adds one, or has
\* deleted one.
Owned(h) ==
    /\ pc[h] = "commit" =>
        /\ job[h].file \in DOMAIN files /\ files[job[h].file] = job[h].config
        /\ \A p \in DOMAIN profiles : profiles[p].file # job[h].file
        /\ \A k \in Handlers \ {h} : pc[k] \in {"commit", "unlink_one"} => job[k].file # job[h].file
    /\ pc[h] \in {"stop_one", "delete"} =>
        job[h].id \in DOMAIN profiles /\ profiles[job[h].id].file = job[h].file
    /\ pc[h] = "unlink_one" =>
        /\ job[h].file \in DOMAIN files
        /\ \A p \in DOMAIN profiles : profiles[p].file # job[h].file

\* The files t are some of those of u.
Within(t, u) == \A f \in DOMAIN t : f \in DOMAIN u /\ t[f] = u[f]

\* What a restore has saved suits the rows until they are replaced, and what
\* it has copied is a part of what it copies.
Saved(h) ==
    /\ pc[h] \in Swapping => Whole(job[h].old) /\ job[h].current = DOMAIN profiles
    /\ pc[h] = "copy" => Within(files, job[h].backup.configs)
    /\ pc[h] = "save" =>
        /\ Within(files, job[h].backup.configs)
        /\ DOMAIN job[h].backup.configs \subseteq DOMAIN files
    /\ pc[h] = "rewrite" => Within(files, job[h].old)

\* Unless files are being swapped they suit the rows.
Suited == (\A h \in Handlers : pc[h] \notin Swapping \ {"stop", "begin"}) => Whole(files)

\* Tunnels suit the rows, and there are none where rows are to go.
Current ==
    \A p \in Ids \ strays : tunnel[p] # NoTunnel =>
        p \in DOMAIN profiles /\ tunnel[p] = profiles[p].config

Stopped(h) ==
    /\ pc[h] \in Swapping \ {"stop"} => \A p \in Ids \ strays : tunnel[p] = NoTunnel
    /\ pc[h] = "delete" => job[h].id \in strays \/ tunnel[job[h].id] = NoTunnel

Library ==
    /\ Solo /\ Apart /\ Suited /\ Current
    /\ \A h \in Handlers : Owned(h) /\ Saved(h) /\ Stopped(h)

IInv == Typed /\ ExportsComplete /\ (~torn => Library)

-----------------------------------------------------------------------------
LEMMA Constants ==
    /\ NoTunnel \notin Configs /\ Free \notin Handlers
    /\ MaxProfiles \in Nat \ {0} /\ MaxGroups \in Nat \ {0} /\ 1 \in Ids
BY ContentsAssumption, BoundsAssumption DEF Ids

\* The parts of TypeOK.
ProfilesType ==
    /\ DOMAIN profiles \subseteq Ids
    /\ \A p \in DOMAIN profiles : profiles[p].file \in Files /\ profiles[p].config \in Configs

DataType == DOMAIN groups \subseteq 1 .. MaxGroups /\ DOMAIN assigned \cup DOMAIN overrides \subseteq Clients

TunnelType == tunnel \in [Ids -> Configs \cup {NoTunnel}]

Locked == {"unlink", "copy", "save"}
LockType == \A h \in Handlers : lock = h <=> pc[h] \in Locked

LEMMA Parts == TypeOK <=> ProfilesType /\ DataType /\ FilesType(files) /\ TunnelType /\ LockType
BY DEF TypeOK, ProfilesType, DataType, FilesType, TunnelType, LockType, Locked

\* A backup is typed.
ZipType(b) == RowsType(b) /\ FilesType(b.configs)

LEMMA Typing ==
    Typed <=> /\ ProfilesType /\ DataType /\ FilesType(files) /\ TunnelType /\ LockType
              /\ ThreadsType /\ ZipType(backup) /\ \A h \in Handlers : Carried(h)
BY Parts DEF Typed, ZipType

LEMMA InitInv == Init => IInv
<1> SUFFICES ASSUME Init PROVE IInv
  OBVIOUS
<1>0. PICK f \in {CHOOSE f \in Files : TRUE}, c \in {CHOOSE c \in Configs : TRUE},
           g \in Files, d \in Configs :
        /\ profiles = [p \in {1} |-> [file |-> f, config |-> c]]
        /\ files = [k \in {f} |-> c]
        /\ backup = [profiles |-> [p \in {1} |-> g],
                     groups |-> [k \in {1} |-> [profile |-> 1, marked |-> TRUE]],
                     assigned |-> [k \in Clients |-> 1], overrides |-> EmptyTable,
                     configs |-> [k \in {g} |-> d]]
  BY Zenon DEF Init
<1>F. f \in Files /\ c \in Configs
  <2>1. (CHOOSE k \in Files : TRUE) \in Files /\ (CHOOSE k \in Configs : TRUE) \in Configs
    OBVIOUS
  <2> QED
    BY <2>1
<1>1. ProfilesType /\ FilesType(files)
  BY <1>0, <1>F, Constants DEF ProfilesType, FilesType
<1>2. DataType /\ TunnelType /\ LockType
  BY Constants DEF Init, DataType, TunnelType, LockType, Locked, EmptyTable
<1>3. ThreadsType /\ \A h \in Handlers : Carried(h)
  BY DEF Init, ThreadsType, Steps, Carried, Swapping, Deleting
<1>4. ZipType(backup)
  BY <1>0, Constants DEF ZipType, RowsType, FilesType, EmptyTable
<1>5. ExportsComplete
  BY <1>0 DEF ExportsComplete, ConfigsComplete, Named
<1>6. Library
  <2>1. Solo /\ \A h \in Handlers : Owned(h) /\ Saved(h) /\ Stopped(h)
    BY DEF Init, Solo, Owned, Saved, Stopped, Swapping, Editing, Deleting
  <2>2. Apart /\ Suited
    BY <1>0 DEF Apart, Suited, Whole
  <2>3. Current
    BY DEF Init, Current
  <2> QED
    BY <2>1, <2>2, <2>3 DEF Library
<1> QED
  BY <1>1, <1>2, <1>3, <1>4, <1>5, <1>6, Typing DEF IInv

-----------------------------------------------------------------------------
(* What the steps have in common.                                          *)

\* A thread takes up what it holds from now on.
LEMMA HoldMoves ==
    ASSUME ThreadsType, NEW h \in Handlers, NEW step \in Steps, NEW held, Hold(h, step, held)
    PROVE  /\ ThreadsType' /\ pc'[h] = step /\ job'[h] = held
           /\ \A k \in Handlers \ {h} : pc'[k] = pc[k] /\ job'[k] = job[k]
BY DEF ThreadsType, Hold, Goto

LEMMA GotoMoves ==
    ASSUME ThreadsType, NEW h \in Handlers, NEW step \in Steps, Goto(h, step), job' = job
    PROVE  /\ ThreadsType' /\ pc'[h] = step /\ job'[h] = job[h]
           /\ \A k \in Handlers \ {h} : pc'[k] = pc[k] /\ job'[k] = job[k]
BY DEF ThreadsType, Goto

LEMMA FinishMoves ==
    ASSUME ThreadsType, NEW h \in Handlers, Finish(h)
    PROVE  /\ ThreadsType' /\ pc'[h] = "idle"
           /\ \A k \in Handlers \ {h} : pc'[k] = pc[k] /\ job'[k] = job[k]
BY DEF ThreadsType, Finish, Hold, Goto, Steps

\* Types after a step of one thread.
LEMMA TypedStep ==
    ASSUME Typed, NEW h \in Handlers,
           \A k \in Handlers \ {h} : pc'[k] = pc[k] /\ job'[k] = job[k],
           ThreadsType', Carried(h)', ProfilesType', DataType', FilesType(files)', TunnelType',
           LockType', UNCHANGED backup
    PROVE  Typed'
<1>1. ASSUME NEW k \in Handlers \ {h} PROVE Carried(k)'
  <2>1. Carried(k) /\ pc'[k] = pc[k] /\ job'[k] = job[k]
    BY Typing
  <2> QED
    BY <2>1 DEF Carried, Swapping, Deleting, RowsType, FilesType, ConfigsComplete, Named
<1>2. ZipType(backup)'
  BY Typing DEF ZipType, RowsType, FilesType
<1>3. TypeOK'
  BY DEF TypeOK, ProfilesType, DataType, FilesType, TunnelType, LockType, Locked
<1> QED
  BY <1>1, <1>2, <1>3 DEF Typed, ZipType

\* A thread outside a transaction stays outside.
LEMMA LockStays ==
    ASSUME LockType, NEW h \in Handlers, UNCHANGED lock,
           \A k \in Handlers \ {h} : pc'[k] = pc[k],
           pc[h] \in Locked <=> pc'[h] \in Locked
    PROVE  LockType'
BY DEF LockType

\* A step that leaves rows, files and tunnels alone has only its own thread
\* to answer for.
LEMMA LibraryStep ==
    ASSUME Library, NEW h \in Handlers, UNCHANGED <<profiles, files, tunnel, strays>>,
           \A k \in Handlers \ {h} : pc'[k] = pc[k] /\ job'[k] = job[k],
           Solo', Owned(h)', Saved(h)', Stopped(h)', pc'[h] \notin {"commit", "unlink_one"},
           pc[h] \in Swapping \ {"stop", "begin"} => pc'[h] \in Swapping \ {"stop", "begin"}
    PROVE  Library'
<1>1. ASSUME NEW k \in Handlers \ {h} PROVE Owned(k)' /\ Saved(k)' /\ Stopped(k)'
  BY <1>1 DEF Library, Owned, Saved, Stopped, Swapping, Whole, Within
<1>2. Apart' /\ Current'
  BY DEF Library, Apart, Current
<1>3. Suited'
  BY DEF Library, Suited, Whole
<1> QED
  BY <1>1, <1>2, <1>3 DEF Library

\* Backups stay complete when nothing is torn that was not.
LEMMA ExportsStay ==
    ASSUME ExportsComplete, UNCHANGED <<backup, fragile>>, torn => torn'
    PROVE  ExportsComplete'
BY DEF ExportsComplete, ConfigsComplete, Named


-----------------------------------------------------------------------------
(* The export.                                                             *)

LEMMA ExportRowsInv == ASSUME IInv, NEW h \in Handlers, ExportRows(h) PROVE IInv'
<1> DEFINE held == [profiles |-> [p \in DOMAIN profiles |-> profiles[p].file],
                    groups |-> groups, assigned |-> assigned, overrides |-> overrides,
                    quiet |-> Quiet(h), at |-> profiles]
<1>T. Typed /\ ExportsComplete /\ (~torn => Library)
  BY DEF IInv
<1>U. /\ pc[h] = "idle" /\ Hold(h, "export", held)
      /\ UNCHANGED <<profiles, groups, assigned, overrides, files, tunnel, backup, lock,
                     torn, strays, fragile>>
  BY DEF ExportRows, Arrive, Idle, rows, history
<1>1. held.profiles = [p \in DOMAIN held.at |-> held.at[p].file] /\ RowsType(held)
  BY <1>T, Typing DEF RowsType, ProfilesType, DataType
<1> HIDE DEF held
<1>2. /\ ThreadsType' /\ pc'[h] = "export" /\ job'[h] = held
      /\ \A k \in Handlers \ {h} : pc'[k] = pc[k] /\ job'[k] = job[k]
  BY <1>U, <1>T, Typing, HoldMoves DEF Steps
<1>3. Carried(h)'
  BY <1>1, <1>2 DEF Carried, Swapping, Deleting, RowsType
<1>4. LockType'
  BY <1>U, <1>2, <1>T, Typing, LockStays DEF Locked
<1>5. Typed'
  BY <1>U, <1>2, <1>3, <1>4, <1>T, Typing, TypedStep DEF ProfilesType, DataType, FilesType, TunnelType
<1>6. ASSUME ~torn' PROVE Library'
  <2>1. Solo'
    BY <1>6, <1>U, <1>2, <1>T DEF Library, Solo, Swapping, Editing, Deleting
  <2>2. Owned(h)' /\ Saved(h)' /\ Stopped(h)'
    BY <1>2 DEF Owned, Saved, Stopped, Swapping
  <2> QED
    BY <1>6, <1>U, <1>2, <2>1, <2>2, <1>T, LibraryStep DEF Swapping
<1> QED
  BY <1>U, <1>5, <1>6, <1>T, ExportsStay DEF IInv

\* Nobody swaps files while an export that counts reads them.
LEMMA ExportFilesInv == ASSUME IInv, NEW h \in Handlers, ExportFiles(h) PROVE IInv'
<1> DEFINE named == {job[h].profiles[p] : p \in DOMAIN job[h].profiles}
           zip == [profiles |-> job[h].profiles, groups |-> job[h].groups,
                   assigned |-> job[h].assigned, overrides |-> job[h].overrides,
                   configs |-> [f \in named \cap DOMAIN files |-> files[f]]]
<1>T. Typed /\ ExportsComplete /\ (~torn => Library)
  BY DEF IInv
<1>U. /\ pc[h] = "export" /\ Finish(h) /\ backup' = zip
      /\ fragile' = ~(job[h].quiet /\ Quiet(h) /\ job[h].at = profiles)
      /\ UNCHANGED <<profiles, groups, assigned, overrides, files, tunnel, lock, torn, strays>>
  BY DEF ExportFiles, rows
<1>1. /\ RowsType(job[h]) /\ job[h].profiles = [p \in DOMAIN job[h].at |-> job[h].at[p].file]
  BY <1>U, <1>T, Typing DEF Carried
<1>2. ZipType(zip)
  BY <1>1, <1>T, Typing DEF ZipType, RowsType, FilesType
<1>3. zip.profiles = job[h].profiles /\ DOMAIN zip.configs = named \cap DOMAIN files
  OBVIOUS
<1>4. ASSUME ~torn, ~fragile' PROVE ConfigsComplete(zip)
  <2>1. Quiet(h) /\ job[h].at = profiles
    BY <1>4, <1>U
  <2>2. \A p \in DOMAIN profiles : job[h].profiles[p] = profiles[p].file
    BY <2>1, <1>1
  <2>3. DOMAIN job[h].profiles = DOMAIN profiles
    BY <2>1, <1>1
  <2>4. Whole(files) /\ Apart
    BY <1>4, <1>U, <2>1, <1>T DEF Library, Suited, Quiet, Swapping
  <2>5. named \subseteq DOMAIN files
    BY <2>2, <2>3, <2>4 DEF Whole
  <2> QED
    BY <1>3, <2>2, <2>3, <2>4, <2>5 DEF ConfigsComplete, Named, Apart
<1>5. ExportsComplete'
  BY <1>U, <1>4 DEF ExportsComplete, ConfigsComplete, Named
<1> HIDE DEF zip
<1>6. /\ ThreadsType' /\ pc'[h] = "idle"
      /\ \A k \in Handlers \ {h} : pc'[k] = pc[k] /\ job'[k] = job[k]
  BY <1>U, <1>T, Typing, FinishMoves
<1>7. \A k \in Handlers : Carried(k)'
  <2>1. Carried(h)'
    BY <1>6 DEF Carried, Swapping, Deleting
  <2>2. ASSUME NEW k \in Handlers \ {h} PROVE Carried(k)'
    BY <2>2, <1>6, <1>T, Typing
    DEF Carried, Swapping, Deleting, RowsType, FilesType, ConfigsComplete, Named
  <2> QED
    BY <2>1, <2>2
<1>8. LockType'
  BY <1>U, <1>6, <1>T, Typing, LockStays DEF Locked
<1>9. Typed'
  <2>1. TypeOK'
    BY <1>U, <1>8, <1>T, Typing
    DEF TypeOK, ProfilesType, DataType, FilesType, TunnelType, LockType, Locked
  <2>2. RowsType(backup)' /\ FilesType(backup.configs)'
    BY <1>U, <1>2 DEF ZipType, RowsType, FilesType
  <2> QED
    BY <1>6, <1>7, <2>1, <2>2 DEF Typed
<1>10. ASSUME ~torn' PROVE Library'
  <2>1. Solo'
    BY <1>10, <1>U, <1>6, <1>T DEF Library, Solo, Swapping, Editing, Deleting
  <2>2. Owned(h)' /\ Saved(h)' /\ Stopped(h)'
    BY <1>6 DEF Owned, Saved, Stopped, Swapping
  <2> QED
    BY <1>10, <1>U, <1>6, <2>1, <2>2, <1>T, LibraryStep DEF Swapping
<1> QED
  BY <1>5, <1>9, <1>10 DEF IInv

-----------------------------------------------------------------------------
(* The restore.                                                            *)

LEMMA SnapshotInv == ASSUME IInv, NEW h \in Handlers, Snapshot(h) PROVE IInv'
<1> DEFINE held == [backup |-> backup, old |-> files, current |-> DOMAIN profiles]
<1>T. Typed /\ ExportsComplete /\ (~torn => Library)
  BY DEF IInv
<1>U. /\ pc[h] = "idle" /\ Valid(backup) /\ Hold(h, "stop", held)
      /\ torn' = (torn \/ \E k \in Handlers \ {h} : pc[k] \in Editing \cup Swapping)
      /\ UNCHANGED <<profiles, groups, assigned, overrides, files, tunnel, backup, lock,
                     strays, fragile>>
  BY DEF Snapshot, Arrive, Idle, Meets, rows
<1>1. held.backup = backup /\ held.old = files /\ held.current = DOMAIN profiles
  OBVIOUS
<1> HIDE DEF held
<1>2. /\ ThreadsType' /\ pc'[h] = "stop" /\ job'[h] = held
      /\ \A k \in Handlers \ {h} : pc'[k] = pc[k] /\ job'[k] = job[k]
  BY <1>U, <1>T, Typing, HoldMoves DEF Steps, Swapping
<1>3. Carried(h)'
  <2>1. ZipType(backup) /\ FilesType(files) /\ ConfigsComplete(backup)
    BY <1>T, <1>U, Typing DEF Valid
  <2> QED
    BY <2>1, <1>1, <1>2
    DEF Carried, Swapping, Deleting, ZipType, RowsType, FilesType, ConfigsComplete, Named
<1>4. LockType'
  BY <1>U, <1>2, <1>T, Typing, LockStays DEF Locked
<1>5. Typed'
  BY <1>U, <1>2, <1>3, <1>4, <1>T, Typing, TypedStep DEF ProfilesType, DataType, FilesType, TunnelType
<1>6. ASSUME ~torn' PROVE Library'
  <2>0. ~torn /\ Library /\ \A k \in Handlers \ {h} : pc[k] \notin Editing \cup Swapping
    BY <1>6, <1>U, <1>T
  <2>1. Solo'
    BY <2>0, <1>2 DEF Solo, Swapping, Editing, Deleting
  <2>2. Whole(files)
    BY <2>0, <1>U DEF Library, Suited, Swapping
  <2>3. Owned(h)' /\ Saved(h)' /\ Stopped(h)'
    BY <2>2, <1>1, <1>2, <1>U DEF Owned, Saved, Stopped, Swapping, Whole
  <2> QED
    BY <2>0, <1>U, <1>2, <2>1, <2>3, LibraryStep DEF Swapping
<1> QED
  BY <1>U, <1>5, <1>6, <1>T, ExportsStay DEF IInv

\* What a thread holds while it swaps stays typed.
LEMMA SwapCarried ==
    ASSUME NEW h \in Handlers, Carried(h), pc[h] \in Swapping, pc'[h] \in Swapping, job'[h] = job[h]
    PROVE  Carried(h)'
BY DEF Carried, Swapping, Deleting, RowsType, FilesType, ConfigsComplete, Named

\* What a stop spares is a stray.
LEMMA StopTunnelsInv == ASSUME IInv, NEW h \in Handlers, StopTunnels(h) PROVE IInv'
<1>T. Typed /\ ExportsComplete /\ (~torn => Library)
  BY DEF IInv
<1>U. /\ pc[h] = "stop" /\ Goto(h, "begin")
      /\ UNCHANGED <<profiles, groups, assigned, overrides, files, backup, lock, job, torn, fragile>>
  BY DEF StopTunnels, rows
<1>S. /\ TunnelType' /\ strays \subseteq strays'
      /\ \A p \in Ids : tunnel'[p] # NoTunnel =>
            tunnel'[p] = tunnel[p] /\ (p \in job[h].current => p \in strays')
  <2>T. tunnel \in [Ids -> Configs \cup {NoTunnel}]
    BY <1>T, Typing DEF TunnelType
  <2>1. CASE /\ tunnel' = [p \in Ids |-> IF p \in job[h].current THEN NoTunnel ELSE tunnel[p]]
             /\ UNCHANGED <<faults, strays>>
    BY <2>1, <2>T DEF TunnelType
  <2>2. CASE \E p \in job[h].current :
               /\ Fault /\ tunnel[p] # NoTunnel
               /\ tunnel' = [q \in Ids |-> IF q \in job[h].current \ {p} THEN NoTunnel ELSE tunnel[q]]
               /\ strays' = strays \cup {p}
    BY <2>2, <2>T DEF TunnelType
  <2> QED
    BY <2>1, <2>2 DEF StopTunnels
<1>2. /\ ThreadsType' /\ pc'[h] = "begin" /\ job'[h] = job[h]
      /\ \A k \in Handlers \ {h} : pc'[k] = pc[k] /\ job'[k] = job[k]
  BY <1>U, <1>T, Typing, GotoMoves DEF Steps, Swapping
<1>3. Carried(h)'
  BY <1>U, <1>2, <1>T, Typing, SwapCarried DEF Swapping
<1>4. LockType'
  BY <1>U, <1>2, <1>T, Typing, LockStays DEF Locked
<1>5. Typed'
  BY <1>U, <1>S, <1>2, <1>3, <1>4, <1>T, Typing, TypedStep DEF ProfilesType, DataType, FilesType
<1>6. ASSUME ~torn' PROVE Library'
  <2>0. Library /\ \A k \in Handlers \ {h} : pc[k] \notin Editing \cup Swapping
    BY <1>6, <1>U, <1>T DEF Library, Solo, Swapping
  <2>1. Solo' /\ Apart' /\ Suited'
    BY <2>0, <1>U, <1>2 DEF Library, Solo, Apart, Suited, Whole, Swapping, Editing, Deleting
  <2>2. \A k \in Handlers : Owned(k)' /\ Saved(k)'
    BY <2>0, <1>U, <1>2 DEF Library, Owned, Saved, Whole, Within, Swapping, Editing
  <2>3. Current' /\ \A p \in Ids \ strays' : tunnel'[p] = NoTunnel
    BY <2>0, <1>U, <1>S DEF Library, Current, Saved, Swapping
  <2>4. \A k \in Handlers : Stopped(k)'
    BY <2>0, <2>3, <1>2 DEF Stopped, Swapping, Editing
  <2> QED
    BY <2>1, <2>2, <2>3, <2>4 DEF Library
<1> QED
  BY <1>U, <1>5, <1>6, <1>T, ExportsStay DEF IInv

\* A restore goes on: nobody else swaps files or edits the library.
LEMMA SwapStep ==
    ASSUME Typed, Library, NEW h \in Handlers, pc[h] \in Swapping, pc'[h] \in Swapping \ {"stop"},
           \A k \in Handlers \ {h} : pc'[k] = pc[k] /\ job'[k] = job[k],
           job'[h] = job[h], UNCHANGED <<profiles, tunnel, strays>>,
           pc[h] # "stop", pc'[h] \in {"stop", "begin"} => UNCHANGED files,
           pc'[h] = "begin" => pc[h] = "begin",
           Saved(h)'
    PROVE  Library'
<1>0. \A k \in Handlers \ {h} : pc[k] \notin Editing \cup Swapping
  BY DEF Library, Solo
<1>1. Solo' /\ Apart' /\ Suited' /\ Current'
  BY <1>0 DEF Library, Solo, Apart, Suited, Current, Whole, Swapping, Editing, Deleting
<1>2. \A k \in Handlers : Owned(k)' /\ Saved(k)' /\ Stopped(k)'
  BY <1>0 DEF Library, Owned, Saved, Stopped, Swapping, Editing
<1> QED
  BY <1>1, <1>2 DEF Library

LEMMA BeginInv == ASSUME IInv, NEW h \in Handlers, Begin(h) PROVE IInv'
<1>T. Typed /\ ExportsComplete /\ (~torn => Library)
  BY DEF IInv
<1>U. /\ pc[h] = "begin" /\ lock = Free /\ lock' = h /\ Goto(h, "unlink")
      /\ UNCHANGED <<profiles, groups, assigned, overrides, files, tunnel, backup, job,
                     torn, strays, fragile>>
  BY DEF Begin, Unlocked, rows, history
<1>2. /\ ThreadsType' /\ pc'[h] = "unlink" /\ job'[h] = job[h]
      /\ \A k \in Handlers \ {h} : pc'[k] = pc[k] /\ job'[k] = job[k]
  BY <1>U, <1>T, Typing, GotoMoves DEF Steps, Swapping
<1>3. Carried(h)'
  BY <1>U, <1>2, <1>T, Typing, SwapCarried DEF Swapping
<1>4. LockType'
  BY <1>U, <1>2, <1>T, Typing, Constants DEF LockType, Locked
<1>5. Typed'
  BY <1>U, <1>2, <1>3, <1>4, <1>T, Typing, TypedStep DEF ProfilesType, DataType, FilesType, TunnelType
<1>6. ASSUME ~torn' PROVE Library'
  <2>1. Saved(h)'
    BY <1>6, <1>T, <1>U, <1>2 DEF Library, Saved, Whole, Swapping
  <2> QED
    BY <1>6, <1>T, <1>U, <1>2, <2>1, SwapStep DEF Swapping
<1> QED
  BY <1>U, <1>5, <1>6, <1>T, ExportsStay DEF IInv

LEMMA UnlinkInv == ASSUME IInv, NEW h \in Handlers, Unlink(h) PROVE IInv'
<1>T. Typed /\ ExportsComplete /\ (~torn => Library)
  BY DEF IInv
<1>U. /\ pc[h] = "unlink" /\ files' = EmptyTable /\ Goto(h, "copy")
      /\ UNCHANGED <<profiles, groups, assigned, overrides, tunnel, backup, lock, job,
                     torn, strays, fragile>>
  BY DEF Unlink, rows, history
<1>1. DOMAIN files' = {}
  BY <1>U DEF EmptyTable
<1>2. /\ ThreadsType' /\ pc'[h] = "copy" /\ job'[h] = job[h]
      /\ \A k \in Handlers \ {h} : pc'[k] = pc[k] /\ job'[k] = job[k]
  BY <1>U, <1>T, Typing, GotoMoves DEF Steps, Swapping
<1>3. Carried(h)'
  BY <1>U, <1>2, <1>T, Typing, SwapCarried DEF Swapping
<1>4. LockType'
  BY <1>U, <1>2, <1>T, Typing, LockStays DEF Locked
<1>5. Typed'
  BY <1>U, <1>1, <1>2, <1>3, <1>4, <1>T, Typing, TypedStep
  DEF ProfilesType, DataType, FilesType, TunnelType
<1>6. ASSUME ~torn' PROVE Library'
  <2>1. Saved(h)'
    BY <1>6, <1>T, <1>U, <1>1, <1>2 DEF Library, Saved, Whole, Within, Swapping
  <2> QED
    BY <1>6, <1>T, <1>U, <1>2, <2>1, SwapStep DEF Swapping
<1> QED
  BY <1>U, <1>5, <1>6, <1>T, ExportsStay DEF IInv

\* A file that is copied comes from where it is copied from.
LEMMA CopiedFiles ==
    ASSUME NEW h, NEW from, FilesType(from), FilesType(files), Copied(h, from)
    PROVE  FilesType(files') /\ (Within(files, from) => Within(files', from))
<1>1. PICK f \in DOMAIN from \ DOMAIN files : files' = With(files, f, from[f])
  BY DEF Copied
<1>2. /\ DOMAIN files' = DOMAIN files \cup {f} /\ files'[f] = from[f]
      /\ \A k \in DOMAIN files \ {f} : files'[k] = files[k]
  BY <1>1 DEF With
<1> QED
  BY <1>2 DEF FilesType, Within

LEMMA CopyInv == ASSUME IInv, NEW h \in Handlers, Copy(h) PROVE IInv'
<1> DEFINE staged == job[h].backup.configs
<1>T. Typed /\ ExportsComplete /\ (~torn => Library)
  BY DEF IInv
<1>U. /\ pc[h] = "copy"
      /\ UNCHANGED <<profiles, groups, assigned, overrides, tunnel, backup, lock, job,
                     torn, strays, fragile>>
  BY DEF Copy, rows, history
<1>S. FilesType(staged) /\ FilesType(files)
  BY <1>T, <1>U, Typing DEF Carried, Swapping
<1>1. CASE DOMAIN staged \subseteq DOMAIN files
  <2>1. Goto(h, "save") /\ UNCHANGED files
    BY <1>1 DEF Copy
  <2>2. /\ ThreadsType' /\ pc'[h] = "save" /\ job'[h] = job[h]
        /\ \A k \in Handlers \ {h} : pc'[k] = pc[k] /\ job'[k] = job[k]
    BY <1>U, <2>1, <1>T, Typing, GotoMoves DEF Steps, Swapping
  <2>3. Carried(h)'
    BY <1>U, <2>2, <1>T, Typing, SwapCarried DEF Swapping
  <2>4. LockType'
    BY <1>U, <2>2, <1>T, Typing, LockStays DEF Locked
  <2>5. Typed'
    BY <1>U, <2>1, <2>2, <2>3, <2>4, <1>T, Typing, TypedStep
    DEF ProfilesType, DataType, FilesType, TunnelType
  <2>6. ASSUME ~torn' PROVE Library'
    <3>1. Saved(h)'
      BY <2>6, <1>T, <1>U, <1>1, <2>1, <2>2 DEF Library, Saved, Whole, Within, Swapping
    <3> QED
      BY <2>6, <1>T, <1>U, <2>1, <2>2, <3>1, SwapStep DEF Swapping
  <2> QED
    BY <1>U, <2>5, <2>6, <1>T, ExportsStay DEF IInv
<1>2. CASE ~ DOMAIN staged \subseteq DOMAIN files
  <2>1. Copied(h, staged) /\ UNCHANGED pc
    BY <1>2 DEF Copy
  <2>2. FilesType(files') /\ (Within(files, staged) => Within(files', staged))
    BY <1>S, <2>1, CopiedFiles
  <2>3. ThreadsType' /\ LockType' /\ Carried(h)'
    BY <1>U, <2>1, <1>T, Typing, SwapCarried DEF ThreadsType, LockType, Swapping
  <2>4. Typed'
    BY <1>U, <2>1, <2>2, <2>3, <1>T, Typing, TypedStep
    DEF ProfilesType, DataType, FilesType, TunnelType
  <2>5. ASSUME ~torn' PROVE Library'
    <3>1. Saved(h)'
      BY <2>5, <1>T, <1>U, <2>1, <2>2 DEF Library, Saved, Whole, Within, Swapping
    <3> QED
      BY <2>5, <1>T, <1>U, <2>1, <3>1, SwapStep DEF Swapping
  <2> QED
    BY <1>U, <2>4, <2>5, <1>T, ExportsStay DEF IInv
<1> QED
  BY <1>1, <1>2

\* The rows of the backup come with its files, in which each has its own.
LEMMA SaveInv == ASSUME IInv, NEW h \in Handlers, Save(h) PROVE IInv'
<1> DEFINE b == job[h].backup
<1>T. Typed /\ ExportsComplete /\ (~torn => Library)
  BY DEF IInv
<1>U. /\ pc[h] = "save" /\ lock' = Free /\ Finish(h)
      /\ profiles' = [p \in DOMAIN b.profiles |->
                         [file |-> b.profiles[p], config |-> b.configs[b.profiles[p]]]]
      /\ groups' = b.groups /\ assigned' = b.assigned /\ overrides' = b.overrides
      /\ UNCHANGED <<files, tunnel, backup, torn, strays, fragile>>
  BY DEF Save, history
<1>B. RowsType(b) /\ FilesType(b.configs) /\ ConfigsComplete(b)
  BY <1>T, <1>U, Typing DEF Carried, Swapping
<1> HIDE DEF b
<1>1. /\ DOMAIN profiles' = DOMAIN b.profiles
      /\ \A p \in DOMAIN profiles' : /\ profiles'[p].file = b.profiles[p]
                                     /\ profiles'[p].file \in DOMAIN b.configs
                                     /\ profiles'[p].config = b.configs[profiles'[p].file]
  BY <1>U, <1>B DEF ConfigsComplete, Named
<1>2. /\ ThreadsType' /\ pc'[h] = "idle"
      /\ \A k \in Handlers \ {h} : pc'[k] = pc[k] /\ job'[k] = job[k]
  BY <1>U, <1>T, Typing, FinishMoves
<1>3. Carried(h)'
  BY <1>2 DEF Carried, Swapping, Deleting
<1>4. LockType'
  BY <1>U, <1>2, <1>T, Typing, Constants DEF LockType, Locked
<1>5. ProfilesType' /\ DataType'
  BY <1>U, <1>1, <1>B DEF ProfilesType, DataType, RowsType, FilesType
<1>6. Typed'
  BY <1>U, <1>2, <1>3, <1>4, <1>5, <1>T, Typing, TypedStep DEF FilesType, TunnelType
<1>7. ASSUME ~torn' PROVE Library'
  <2>0. Library /\ \A k \in Handlers \ {h} : pc[k] \notin Editing \cup Swapping
    BY <1>7, <1>U, <1>T DEF Library, Solo, Swapping
  <2>1. Within(files, b.configs) /\ DOMAIN b.configs \subseteq DOMAIN files
    BY <2>0, <1>U DEF Library, Saved, b
  <2>2. Suited' /\ Apart'
    <3>1. ASSUME NEW p \in DOMAIN profiles'
          PROVE  profiles'[p].file \in DOMAIN files' /\ files'[profiles'[p].file] = profiles'[p].config
      BY <3>1, <2>1, <1>1, <1>U DEF Within
    <3>2. ASSUME NEW p \in DOMAIN profiles', NEW q \in DOMAIN profiles', p # q
          PROVE  profiles'[p].file # profiles'[q].file
      BY <3>2, <1>1, <1>B DEF ConfigsComplete
    <3> QED
      BY <3>1, <3>2 DEF Suited, Whole, Apart
  <2>3. Solo' /\ Current'
    BY <2>0, <1>U, <1>2 DEF Library, Solo, Current, Stopped, Swapping, Editing, Deleting
  <2>4. \A k \in Handlers : Owned(k)' /\ Saved(k)' /\ Stopped(k)'
    BY <2>0, <1>U, <1>2 DEF Owned, Saved, Stopped, Swapping, Editing
  <2> QED
    BY <2>2, <2>3, <2>4 DEF Library
<1> QED
  BY <1>U, <1>6, <1>7, <1>T, ExportsStay DEF IInv

LEMMA RestoreFailsInv == ASSUME IInv, NEW h \in Handlers, RestoreFails(h) PROVE IInv'
<1>T. Typed /\ ExportsComplete /\ (~torn => Library)
  BY DEF IInv
<1>U. /\ pc[h] \in {"begin", "unlink", "copy", "save"} /\ Goto(h, "wipe")
      /\ lock' = IF lock = h THEN Free ELSE lock
      /\ UNCHANGED <<profiles, groups, assigned, overrides, files, tunnel, backup, job,
                     torn, strays, fragile>>
  BY DEF RestoreFails, rows, history
<1>2. /\ ThreadsType' /\ pc'[h] = "wipe" /\ job'[h] = job[h]
      /\ \A k \in Handlers \ {h} : pc'[k] = pc[k] /\ job'[k] = job[k]
  BY <1>U, <1>T, Typing, GotoMoves DEF Steps, Swapping
<1>3. Carried(h)'
  BY <1>U, <1>2, <1>T, Typing, SwapCarried DEF Swapping
<1>4. LockType'
  BY <1>U, <1>2, <1>T, Typing, Constants DEF LockType, Locked
<1>5. Typed'
  BY <1>U, <1>2, <1>3, <1>4, <1>T, Typing, TypedStep DEF ProfilesType, DataType, FilesType, TunnelType
<1>6. ASSUME ~torn' PROVE Library'
  <2>1. Saved(h)'
    BY <1>6, <1>T, <1>U, <1>2 DEF Library, Saved, Whole, Swapping
  <2> QED
    BY <1>6, <1>T, <1>U, <1>2, <2>1, SwapStep DEF Swapping
<1> QED
  BY <1>U, <1>5, <1>6, <1>T, ExportsStay DEF IInv

LEMMA WipeInv == ASSUME IInv, NEW h \in Handlers, Wipe(h) PROVE IInv'
<1>T. Typed /\ ExportsComplete /\ (~torn => Library)
  BY DEF IInv
<1>U. /\ pc[h] = "wipe" /\ files' = EmptyTable /\ Goto(h, "rewrite")
      /\ UNCHANGED <<profiles, groups, assigned, overrides, tunnel, backup, lock, job,
                     torn, strays, fragile>>
  BY DEF Wipe, rows, history
<1>1. DOMAIN files' = {}
  BY <1>U DEF EmptyTable
<1>2. /\ ThreadsType' /\ pc'[h] = "rewrite" /\ job'[h] = job[h]
      /\ \A k \in Handlers \ {h} : pc'[k] = pc[k] /\ job'[k] = job[k]
  BY <1>U, <1>T, Typing, GotoMoves DEF Steps, Swapping
<1>3. Carried(h)'
  BY <1>U, <1>2, <1>T, Typing, SwapCarried DEF Swapping
<1>4. LockType'
  BY <1>U, <1>2, <1>T, Typing, LockStays DEF Locked
<1>5. Typed'
  BY <1>U, <1>1, <1>2, <1>3, <1>4, <1>T, Typing, TypedStep
  DEF ProfilesType, DataType, FilesType, TunnelType
<1>6. ASSUME ~torn' PROVE Library'
  <2>1. Saved(h)'
    BY <1>6, <1>T, <1>U, <1>1, <1>2 DEF Library, Saved, Whole, Within, Swapping
  <2> QED
    BY <1>6, <1>T, <1>U, <1>2, <2>1, SwapStep DEF Swapping
<1> QED
  BY <1>U, <1>5, <1>6, <1>T, ExportsStay DEF IInv

\* When the former files are all back they suit the rows, which a failed
\* restore has not changed, and so do the tunnels it starts.
LEMMA RewriteInv == ASSUME IInv, NEW h \in Handlers, Rewrite(h) PROVE IInv'
<1> DEFINE old == job[h].old
           revived == job[h].current \cap DOMAIN profiles
<1>T. Typed /\ ExportsComplete /\ (~torn => Library)
  BY DEF IInv
<1>U. /\ pc[h] = "rewrite"
      /\ UNCHANGED <<profiles, groups, assigned, overrides, backup, lock, torn, strays, fragile>>
  BY DEF Rewrite, rows, history
<1>S. FilesType(old) /\ FilesType(files)
  BY <1>T, <1>U, Typing DEF Carried, Swapping
<1>1. CASE DOMAIN old \subseteq DOMAIN files
  <2>1. /\ tunnel' = [p \in Ids |->
              IF p \in revived /\ tunnel[p] = NoTunnel /\ profiles[p].file \in DOMAIN files
              THEN files[profiles[p].file] ELSE tunnel[p]]
        /\ Finish(h) /\ UNCHANGED files
    BY <1>1 DEF Rewrite
  <2>2. /\ ThreadsType' /\ pc'[h] = "idle"
        /\ \A k \in Handlers \ {h} : pc'[k] = pc[k] /\ job'[k] = job[k]
    BY <2>1, <1>T, Typing, FinishMoves
  <2>3. Carried(h)'
    BY <2>2 DEF Carried, Swapping, Deleting
  <2>4. LockType'
    BY <1>U, <2>2, <1>T, Typing, LockStays DEF Locked
  <2>5. TunnelType'
    BY <2>1, <1>S, <1>T, Typing DEF TunnelType, FilesType
  <2>6. Typed'
    BY <1>U, <2>1, <2>2, <2>3, <2>4, <2>5, <1>T, Typing, TypedStep
    DEF ProfilesType, DataType, FilesType
  <2>7. ASSUME ~torn' PROVE Library'
    <3>0. Library /\ \A k \in Handlers \ {h} : pc[k] \notin Editing \cup Swapping
      BY <2>7, <1>U, <1>T DEF Library, Solo, Swapping
    <3>1. Whole(files)
      BY <3>0, <1>U, <1>1 DEF Library, Saved, Whole, Within, Swapping
    <3>2. Suited' /\ Apart' /\ Solo'
      BY <3>0, <3>1, <1>U, <2>1, <2>2 DEF Library, Suited, Whole, Apart, Solo, Swapping, Editing, Deleting
    <3>3. Current'
      BY <3>0, <3>1, <1>U, <2>1 DEF Library, Current, Whole
    <3>4. \A k \in Handlers : Owned(k)' /\ Saved(k)' /\ Stopped(k)'
      BY <3>0, <2>2 DEF Owned, Saved, Stopped, Swapping, Editing
    <3> QED
      BY <3>2, <3>3, <3>4 DEF Library
  <2> QED
    BY <1>U, <2>6, <2>7, <1>T, ExportsStay DEF IInv
<1>2. CASE ~ DOMAIN old \subseteq DOMAIN files
  <2>1. Copied(h, old) /\ UNCHANGED <<tunnel, pc, job>>
    BY <1>2 DEF Rewrite, threads
  <2>2. FilesType(files') /\ (Within(files, old) => Within(files', old))
    BY <1>S, <2>1, CopiedFiles
  <2>3. ThreadsType' /\ LockType' /\ Carried(h)'
    BY <1>U, <2>1, <1>T, Typing, SwapCarried DEF ThreadsType, LockType, Swapping
  <2>4. Typed'
    BY <1>U, <2>1, <2>2, <2>3, <1>T, Typing, TypedStep
    DEF ProfilesType, DataType, FilesType, TunnelType
  <2>5. ASSUME ~torn' PROVE Library'
    <3>1. Saved(h)'
      BY <2>5, <1>T, <1>U, <2>1, <2>2 DEF Library, Saved, Whole, Within, Swapping
    <3> QED
      BY <2>5, <1>T, <1>U, <2>1, <3>1, SwapStep DEF Swapping
  <2> QED
    BY <1>U, <2>4, <2>5, <1>T, ExportsStay DEF IInv
<1> QED
  BY <1>1, <1>2

LEMMA RewriteFailsInv == ASSUME IInv, NEW h \in Handlers, RewriteFails(h) PROVE IInv'
<1>T. Typed /\ ExportsComplete /\ pc[h] = "rewrite"
  BY DEF IInv, RewriteFails
<1>U. /\ Finish(h) /\ torn' = TRUE
      /\ UNCHANGED <<profiles, groups, assigned, overrides, files, tunnel, backup, lock,
                     strays, fragile>>
  BY DEF RewriteFails, rows
<1>1. /\ ThreadsType' /\ pc'[h] = "idle"
      /\ \A k \in Handlers \ {h} : pc'[k] = pc[k] /\ job'[k] = job[k]
  BY <1>U, <1>T, Typing, FinishMoves
<1>2. Carried(h)' /\ LockType'
  BY <1>U, <1>1, <1>T, Typing, LockStays DEF Carried, Swapping, Deleting, Locked
<1>3. Typed'
  BY <1>U, <1>1, <1>2, <1>T, Typing, TypedStep DEF ProfilesType, DataType, FilesType, TunnelType
<1> QED
  BY <1>U, <1>3, <1>T, ExportsStay DEF IInv

-----------------------------------------------------------------------------
(* Edits of the library.                                                   *)

LEMMA NewProfileInv == ASSUME IInv, NEW h \in Handlers, NewProfile(h) PROVE IInv'
<1>T. Typed /\ ExportsComplete /\ (~torn => Library)
  BY DEF IInv
<1>U. /\ pc[h] = "idle"
      /\ torn' = (torn \/ \E k \in Handlers \ {h} : pc[k] \in Swapping)
      /\ UNCHANGED <<profiles, groups, assigned, overrides, files, tunnel, backup, lock,
                     strays, fragile>>
  BY DEF NewProfile, Arrive, Idle, Meets, rows
<1>1. PICK f \in Files \ DOMAIN files, c \in Configs : Hold(h, "write", [file |-> f, config |-> c])
  BY DEF NewProfile
<1>2. /\ ThreadsType' /\ pc'[h] = "write" /\ job'[h] = [file |-> f, config |-> c]
      /\ \A k \in Handlers \ {h} : pc'[k] = pc[k] /\ job'[k] = job[k]
  BY <1>1, <1>T, Typing, HoldMoves DEF Steps, Editing
<1>3. Carried(h)' /\ LockType'
  BY <1>U, <1>2, <1>T, Typing, LockStays DEF Carried, Swapping, Deleting, Locked
<1>4. Typed'
  BY <1>U, <1>2, <1>3, <1>T, Typing, TypedStep DEF ProfilesType, DataType, FilesType, TunnelType
<1>5. ASSUME ~torn' PROVE Library'
  <2>1. Solo'
    BY <1>5, <1>U, <1>2, <1>T DEF Library, Solo, Swapping, Editing, Deleting
  <2>2. Owned(h)' /\ Saved(h)' /\ Stopped(h)'
    BY <1>2 DEF Owned, Saved, Stopped, Swapping
  <2> QED
    BY <1>5, <1>U, <1>2, <2>1, <2>2, <1>T, LibraryStep DEF Swapping
<1> QED
  BY <1>U, <1>4, <1>5, <1>T, ExportsStay DEF IInv

\* A file that was not there is nobody else's.
LEMMA WriteConfigInv == ASSUME IInv, NEW h \in Handlers, WriteConfig(h) PROVE IInv'
<1>T. Typed /\ ExportsComplete /\ (~torn => Library)
  BY DEF IInv
<1>U. /\ pc[h] = "write" /\ job[h].file \notin DOMAIN files
      /\ files' = With(files, job[h].file, job[h].config) /\ Goto(h, "commit")
      /\ UNCHANGED <<profiles, groups, assigned, overrides, tunnel, backup, lock, job,
                     torn, strays, fragile>>
  BY DEF WriteConfig, rows, history
<1>1. /\ DOMAIN files' = DOMAIN files \cup {job[h].file} /\ files'[job[h].file] = job[h].config
      /\ \A f \in DOMAIN files : files'[f] = files[f]
  BY <1>U DEF With
<1>2. /\ ThreadsType' /\ pc'[h] = "commit" /\ job'[h] = job[h]
      /\ \A k \in Handlers \ {h} : pc'[k] = pc[k] /\ job'[k] = job[k]
  BY <1>U, <1>T, Typing, GotoMoves DEF Steps, Editing
<1>C. job[h].file \in Files /\ job[h].config \in Configs
  BY <1>U, <1>T, Typing DEF Carried
<1>3. Carried(h)' /\ LockType' /\ FilesType(files)'
  BY <1>U, <1>C, <1>1, <1>2, <1>T, Typing, LockStays
  DEF Carried, Swapping, Deleting, Locked, FilesType
<1>4. Typed'
  BY <1>U, <1>2, <1>3, <1>T, Typing, TypedStep DEF ProfilesType, DataType, TunnelType
<1>5. ASSUME ~torn' PROVE Library'
  <2>0. Library /\ \A k \in Handlers : pc[k] \notin Swapping
    BY <1>5, <1>U, <1>T DEF Library, Solo, Swapping, Editing
  <2>1. Solo' /\ Apart' /\ Current'
    BY <2>0, <1>U, <1>2 DEF Library, Solo, Apart, Current, Swapping, Editing, Deleting
  <2>2. Whole(files)
    BY <2>0 DEF Library, Suited
  <2>3. Suited'
    BY <2>2, <1>U, <1>1 DEF Suited, Whole
  <2>4. Owned(h)'
    <3>1. \A p \in DOMAIN profiles : profiles[p].file # job[h].file
      BY <2>2, <1>U DEF Whole
    <3>2. ASSUME NEW k \in Handlers \ {h}, pc[k] \in {"commit", "unlink_one"}
          PROVE  job[k].file # job[h].file
      BY <3>2, <2>0, <1>U DEF Library, Owned
    <3> QED
      BY <3>1, <3>2, <1>1, <1>2, <1>U DEF Owned
  <2>5. ASSUME NEW k \in Handlers \ {h} PROVE Owned(k)'
    <3>1. Owned(k) /\ pc'[k] = pc[k] /\ job'[k] = job[k]
      BY <2>0, <1>2 DEF Library
    <3>2. pc[k] \in {"commit", "unlink_one"} => job[k].file \in DOMAIN files
      BY <3>1 DEF Owned
    <3> QED
      BY <3>1, <3>2, <1>1, <1>2, <1>U DEF Owned
  <2>6. \A k \in Handlers : Saved(k)' /\ Stopped(k)'
    BY <2>0, <1>U, <1>2 DEF Library, Saved, Stopped, Swapping
  <2> QED
    BY <2>1, <2>3, <2>4, <2>5, <2>6 DEF Library
<1> QED
  BY <1>U, <1>4, <1>5, <1>T, ExportsStay DEF IInv

\* The next id is nobody's, and so has no tunnel but a stray one.
LEMMA AddProfileInv == ASSUME IInv, NEW h \in Handlers, AddProfile(h) PROVE IInv'
<1> DEFINE id == NextId(profiles)
<1>T. Typed /\ ExportsComplete /\ (~torn => Library)
  BY DEF IInv
<1>U. /\ pc[h] = "commit" /\ id \in Ids /\ profiles' = With(profiles, id, job[h]) /\ Finish(h)
      /\ UNCHANGED <<groups, assigned, overrides, files, tunnel, backup, lock,
                     torn, strays, fragile>>
  BY DEF AddProfile, history
<1>F. id \notin DOMAIN profiles
  BY <1>T, Typing, NextIdFresh, Constants DEF ProfilesType, Ids
<1> HIDE DEF id
<1>1. /\ DOMAIN profiles' = DOMAIN profiles \cup {id} /\ profiles'[id] = job[h]
      /\ \A p \in DOMAIN profiles : profiles'[p] = profiles[p]
  BY <1>U, <1>F DEF With
<1>2. /\ ThreadsType' /\ pc'[h] = "idle"
      /\ \A k \in Handlers \ {h} : pc'[k] = pc[k] /\ job'[k] = job[k]
  BY <1>U, <1>T, Typing, FinishMoves
<1>C. job[h].file \in Files /\ job[h].config \in Configs
  BY <1>U, <1>T, Typing DEF Carried
<1>3. Carried(h)' /\ LockType'
  BY <1>U, <1>2, <1>T, Typing, LockStays DEF Carried, Swapping, Deleting, Locked
<1>4. ProfilesType'
  BY <1>U, <1>1, <1>C, <1>T, Typing DEF ProfilesType
<1>5. Typed'
  BY <1>U, <1>2, <1>3, <1>4, <1>T, Typing, TypedStep DEF DataType, FilesType, TunnelType
<1>6. ASSUME ~torn' PROVE Library'
  <2>0. Library /\ \A k \in Handlers : pc[k] \notin Swapping
    BY <1>6, <1>U, <1>T DEF Library, Solo, Swapping, Editing
  <2>1. Solo'
    BY <2>0, <1>2 DEF Library, Solo, Swapping, Editing, Deleting
  <2>2. /\ job[h].file \in DOMAIN files /\ files[job[h].file] = job[h].config
        /\ \A p \in DOMAIN profiles : profiles[p].file # job[h].file
        /\ \A k \in Handlers \ {h} : pc[k] \in {"commit", "unlink_one"} => job[k].file # job[h].file
    BY <2>0, <1>U DEF Library, Owned
  <2>3. Whole(files)
    BY <2>0 DEF Library, Suited
  <2>4. Suited' /\ Apart' /\ Current'
    BY <2>0, <2>2, <2>3, <1>1, <1>U, <1>F DEF Library, Suited, Whole, Apart, Current
  <2>5. ASSUME NEW k \in Handlers PROVE Owned(k)'
    <3>1. CASE k = h
      BY <3>1, <1>2 DEF Owned
    <3>2. CASE k # h
      <4>1. Owned(k) /\ pc'[k] = pc[k] /\ job'[k] = job[k]
        BY <3>2, <2>0, <1>2 DEF Library
      <4> QED
        BY <4>1, <3>2, <2>2, <1>1, <1>2, <1>U DEF Owned
    <3> QED
      BY <3>1, <3>2
  <2>6. \A k \in Handlers : Saved(k)' /\ Stopped(k)'
    BY <2>0, <1>U, <1>2 DEF Library, Saved, Stopped, Swapping
  <2> QED
    BY <2>1, <2>4, <2>5, <2>6 DEF Library
<1> QED
  BY <1>U, <1>5, <1>6, <1>T, ExportsStay DEF IInv

LEMMA DeleteProfileInv == ASSUME IInv, NEW h \in Handlers, DeleteProfile(h) PROVE IInv'
<1>T. Typed /\ ExportsComplete /\ (~torn => Library)
  BY DEF IInv
<1>U. /\ pc[h] = "idle"
      /\ torn' = (torn \/ \E k \in Handlers \ {h} : pc[k] \in Swapping \cup Editing)
      /\ UNCHANGED <<profiles, groups, assigned, overrides, files, tunnel, backup, lock,
                     strays, fragile>>
  BY DEF DeleteProfile, Arrive, Idle, Meets, rows
<1>1. PICK p \in DOMAIN profiles : Hold(h, "stop_one", [id |-> p, file |-> profiles[p].file])
  BY DEF DeleteProfile
<1>2. /\ ThreadsType' /\ pc'[h] = "stop_one" /\ job'[h] = [id |-> p, file |-> profiles[p].file]
      /\ \A k \in Handlers \ {h} : pc'[k] = pc[k] /\ job'[k] = job[k]
  BY <1>1, <1>T, Typing, HoldMoves DEF Steps, Editing
<1>3. Carried(h)' /\ LockType'
  BY <1>U, <1>1, <1>2, <1>T, Typing, LockStays
  DEF Carried, Swapping, Deleting, Locked, ProfilesType
<1>4. Typed'
  BY <1>U, <1>2, <1>3, <1>T, Typing, TypedStep DEF ProfilesType, DataType, FilesType, TunnelType
<1>5. ASSUME ~torn' PROVE Library'
  <2>0. \A k \in Handlers \ {h} : pc[k] \notin Swapping \cup Editing
    BY <1>5, <1>U
  <2>1. Solo'
    BY <2>0, <1>2 DEF Solo, Swapping, Editing, Deleting
  <2>2. Owned(h)' /\ Saved(h)' /\ Stopped(h)'
    BY <1>U, <1>1, <1>2 DEF Owned, Saved, Stopped, Swapping
  <2> QED
    BY <1>5, <1>U, <1>2, <2>1, <2>2, <1>T, LibraryStep DEF Swapping
<1> QED
  BY <1>U, <1>4, <1>5, <1>T, ExportsStay DEF IInv

LEMMA StopOneInv == ASSUME IInv, NEW h \in Handlers, StopOne(h) PROVE IInv'
<1>T. Typed /\ ExportsComplete /\ (~torn => Library)
  BY DEF IInv
<1>U. /\ pc[h] = "stop_one" /\ Goto(h, "delete")
      /\ tunnel' = [tunnel EXCEPT ![job[h].id] = NoTunnel]
      /\ UNCHANGED <<profiles, groups, assigned, overrides, files, backup, lock, job,
                     torn, strays, fragile>>
  BY DEF StopOne, rows, history
<1>C. job[h].id \in Ids
  BY <1>U, <1>T, Typing DEF Carried, Deleting
<1>1. /\ TunnelType' /\ tunnel'[job[h].id] = NoTunnel
      /\ \A p \in Ids : tunnel'[p] # NoTunnel => tunnel'[p] = tunnel[p]
  BY <1>U, <1>C, <1>T, Typing DEF TunnelType
<1>2. /\ ThreadsType' /\ pc'[h] = "delete" /\ job'[h] = job[h]
      /\ \A k \in Handlers \ {h} : pc'[k] = pc[k] /\ job'[k] = job[k]
  BY <1>U, <1>T, Typing, GotoMoves DEF Steps, Editing
<1>3. Carried(h)' /\ LockType'
  BY <1>U, <1>C, <1>2, <1>T, Typing, LockStays DEF Carried, Swapping, Deleting, Locked
<1>4. Typed'
  BY <1>U, <1>1, <1>2, <1>3, <1>T, Typing, TypedStep DEF ProfilesType, DataType, FilesType
<1>5. ASSUME ~torn' PROVE Library'
  <2>0. /\ Library
        /\ \A k \in Handlers \ {h} : pc[k] \notin Swapping \cup Deleting
    BY <1>5, <1>U, <1>T DEF Library, Solo, Swapping, Editing, Deleting
  <2>1. Solo' /\ Apart' /\ Suited' /\ Current'
    BY <2>0, <1>U, <1>1, <1>2
    DEF Library, Solo, Apart, Suited, Current, Whole, Swapping, Editing, Deleting
  <2>2. Owned(h)' /\ Saved(h)' /\ Stopped(h)'
    BY <2>0, <1>U, <1>1, <1>2 DEF Library, Owned, Saved, Stopped, Swapping
  <2>3. ASSUME NEW k \in Handlers \ {h} PROVE Owned(k)' /\ Saved(k)' /\ Stopped(k)'
    BY <2>3, <2>0, <1>U, <1>2 DEF Library, Owned, Saved, Stopped, Swapping, Deleting
  <2> QED
    BY <2>1, <2>2, <2>3 DEF Library
<1> QED
  BY <1>U, <1>4, <1>5, <1>T, ExportsStay DEF IInv

\* A deleted row leaves a file that is nobody's, and no tunnel but a stray one.
LEMMA DeleteRowInv == ASSUME IInv, NEW h \in Handlers, DeleteRow(h) PROVE IInv'
<1>T. Typed /\ ExportsComplete /\ (~torn => Library)
  BY DEF IInv
<1>U. /\ pc[h] = "delete"
      /\ UNCHANGED <<groups, assigned, overrides, files, tunnel, backup, lock,
                     torn, strays, fragile>>
  BY DEF DeleteRow, history
<1>1. CASE job[h].id \in DOMAIN profiles
  <2>1. profiles' = Without(profiles, job[h].id) /\ Goto(h, "unlink_one") /\ job' = job
    BY <1>1 DEF DeleteRow
  <2>2. /\ DOMAIN profiles' = DOMAIN profiles \ {job[h].id}
        /\ \A p \in DOMAIN profiles' : profiles'[p] = profiles[p]
    BY <2>1 DEF Without
  <2>3. /\ ThreadsType' /\ pc'[h] = "unlink_one" /\ job'[h] = job[h]
        /\ \A k \in Handlers \ {h} : pc'[k] = pc[k] /\ job'[k] = job[k]
    BY <2>1, <1>T, Typing, GotoMoves DEF Steps, Editing
  <2>4. Carried(h)' /\ LockType' /\ ProfilesType'
    BY <1>U, <2>2, <2>3, <1>T, Typing, LockStays
    DEF Carried, Swapping, Deleting, Locked, ProfilesType
  <2>5. Typed'
    BY <1>U, <2>3, <2>4, <1>T, Typing, TypedStep DEF DataType, FilesType, TunnelType
  <2>6. ASSUME ~torn' PROVE Library'
    <3>0. Library /\ \A k \in Handlers \ {h} : pc[k] \notin Swapping \cup Deleting
      BY <2>6, <1>U, <1>T DEF Library, Solo, Swapping, Editing, Deleting
    <3>1. Solo'
      BY <3>0, <1>U, <2>3 DEF Library, Solo, Swapping, Editing, Deleting
    <3>2. Whole(files) /\ profiles[job[h].id].file = job[h].file
      BY <3>0, <1>U DEF Library, Suited, Owned, Swapping
    <3>3. Suited' /\ Apart'
      BY <3>0, <3>2, <1>U, <2>2 DEF Library, Suited, Whole, Apart
    <3>4. Current'
      BY <3>0, <1>U, <2>2 DEF Library, Current, Stopped
    <3>5. Owned(h)'
      <4>1. job[h].file \in DOMAIN files /\ \A p \in DOMAIN profiles' : profiles'[p].file # job[h].file
        BY <3>0, <3>2, <1>1, <2>2 DEF Library, Whole, Apart
      <4> QED
        BY <4>1, <1>U, <2>3 DEF Owned
    <3>6. ASSUME NEW k \in Handlers \ {h} PROVE Owned(k)'
      <4>1. /\ Owned(k) /\ pc'[k] = pc[k] /\ job'[k] = job[k]
            /\ pc[k] \notin {"stop_one", "delete", "unlink_one"}
        BY <3>0, <2>3 DEF Library, Deleting
      <4>2. ASSUME pc[k] = "commit" PROVE job[k].file # job[h].file
        BY <4>1, <4>2, <3>2, <1>1 DEF Owned
      <4> QED
        BY <4>1, <4>2, <2>2, <2>3, <1>U DEF Owned
    <3>7. \A k \in Handlers : Saved(k)' /\ Stopped(k)'
      BY <3>0, <1>U, <2>3 DEF Library, Saved, Stopped, Swapping, Deleting
    <3> QED
      BY <3>1, <3>3, <3>4, <3>5, <3>6, <3>7 DEF Library
  <2> QED
    BY <1>U, <2>5, <2>6, <1>T, ExportsStay DEF IInv
<1>2. CASE job[h].id \notin DOMAIN profiles
  <2>1. Finish(h) /\ UNCHANGED profiles
    BY <1>2 DEF DeleteRow
  <2>2. /\ ThreadsType' /\ pc'[h] = "idle"
        /\ \A k \in Handlers \ {h} : pc'[k] = pc[k] /\ job'[k] = job[k]
    BY <2>1, <1>T, Typing, FinishMoves
  <2>3. Carried(h)' /\ LockType'
    BY <1>U, <2>2, <1>T, Typing, LockStays DEF Carried, Swapping, Deleting, Locked
  <2>4. Typed'
    BY <1>U, <2>1, <2>2, <2>3, <1>T, Typing, TypedStep
    DEF ProfilesType, DataType, FilesType, TunnelType
  <2>5. ASSUME ~torn' PROVE Library'
    BY <2>5, <1>2, <1>U, <1>T DEF Library, Owned
  <2> QED
    BY <1>U, <2>4, <2>5, <1>T, ExportsStay DEF IInv
<1> QED
  BY <1>1, <1>2

LEMMA UnlinkOneInv == ASSUME IInv, NEW h \in Handlers, UnlinkOne(h) PROVE IInv'
<1>T. Typed /\ ExportsComplete /\ (~torn => Library)
  BY DEF IInv
<1>U. /\ pc[h] = "unlink_one" /\ files' = Without(files, job[h].file) /\ Finish(h)
      /\ UNCHANGED <<profiles, groups, assigned, overrides, tunnel, backup, lock,
                     torn, strays, fragile>>
  BY DEF UnlinkOne, rows, history
<1>1. /\ DOMAIN files' = DOMAIN files \ {job[h].file}
      /\ \A f \in DOMAIN files' : files'[f] = files[f]
  BY <1>U DEF Without
<1>2. /\ ThreadsType' /\ pc'[h] = "idle"
      /\ \A k \in Handlers \ {h} : pc'[k] = pc[k] /\ job'[k] = job[k]
  BY <1>U, <1>T, Typing, FinishMoves
<1>3. Carried(h)' /\ LockType' /\ FilesType(files)'
  BY <1>U, <1>1, <1>2, <1>T, Typing, LockStays DEF Carried, Swapping, Deleting, Locked, FilesType
<1>4. Typed'
  BY <1>U, <1>2, <1>3, <1>T, Typing, TypedStep DEF ProfilesType, DataType, TunnelType
<1>5. ASSUME ~torn' PROVE Library'
  <2>0. Library /\ \A k \in Handlers \ {h} : pc[k] \notin Swapping \cup Deleting
    BY <1>5, <1>U, <1>T DEF Library, Solo, Swapping, Editing, Deleting
  <2>1. Solo' /\ Apart' /\ Current'
    BY <2>0, <1>U, <1>2 DEF Library, Solo, Apart, Current, Swapping, Editing, Deleting
  <2>2. Whole(files) /\ \A p \in DOMAIN profiles : profiles[p].file # job[h].file
    BY <2>0, <1>U DEF Library, Suited, Owned, Swapping
  <2>3. Suited'
    BY <2>2, <1>1, <1>U DEF Suited, Whole
  <2>4. ASSUME NEW k \in Handlers PROVE Owned(k)'
    <3>1. CASE k = h
      BY <3>1, <1>2 DEF Owned
    <3>2. CASE k # h
      <4>1. /\ Owned(k) /\ pc'[k] = pc[k] /\ job'[k] = job[k] /\ pc[k] # "unlink_one"
        BY <3>2, <2>0, <1>2 DEF Library, Deleting
      <4>2. ASSUME pc[k] = "commit" PROVE job[k].file # job[h].file
        BY <4>1, <4>2, <3>2, <1>U DEF Owned
      <4> QED
        BY <4>1, <4>2, <3>2, <1>1, <1>2, <1>U DEF Owned
    <3> QED
      BY <3>1, <3>2
  <2>5. \A k \in Handlers : Saved(k)' /\ Stopped(k)'
    BY <2>0, <1>U, <1>2 DEF Library, Saved, Stopped, Swapping, Deleting
  <2> QED
    BY <2>1, <2>3, <2>4, <2>5 DEF Library
<1> QED
  BY <1>U, <1>4, <1>5, <1>T, ExportsStay DEF IInv

-----------------------------------------------------------------------------
(* Groups, the managers and the process.                                   *)

\* Types after a step that moves no request.
LEMMA TypedUnmoved ==
    ASSUME Typed, UNCHANGED <<pc, job, lock, backup>>,
           ProfilesType', DataType', FilesType(files)', TunnelType'
    PROVE  Typed'
<1>1. ASSUME NEW k \in Handlers PROVE Carried(k)'
  BY <1>1, Typing DEF Carried, Swapping, Deleting, RowsType, FilesType, ConfigsComplete, Named
<1>2. ThreadsType' /\ ZipType(backup)'
  BY Typing DEF ThreadsType, ZipType, RowsType, FilesType
<1>3. TypeOK'
  BY Typing DEF TypeOK, ProfilesType, DataType, FilesType, TunnelType, LockType, Locked
<1> QED
  BY <1>1, <1>2, <1>3 DEF Typed, ZipType

\* Groups, assignments and overrides are no part of the library.
LEMMA DataStep ==
    ASSUME IInv, DataType',
           UNCHANGED <<profiles, files, tunnel, backup, lock, pc, job, torn, strays, fragile>>
    PROVE  IInv'
<1>T. Typed /\ ExportsComplete /\ (~torn => Library)
  BY DEF IInv
<1>1. Typed'
  BY <1>T, Typing, TypedUnmoved DEF ProfilesType, FilesType, TunnelType
<1>2. ASSUME Library PROVE Library'
  BY <1>2 DEF Library, Solo, Apart, Suited, Current, Owned, Saved, Stopped, Whole, Within
<1> QED
  BY <1>1, <1>2, <1>T, ExportsStay DEF IInv

LEMMA GroupEditInv == ASSUME IInv, GroupEdit PROVE IInv'
<1>T. DataType
  BY Typing DEF IInv
<1>U. UNCHANGED <<files, tunnel, backup, lock, pc, job, torn, strays, fragile>>
  BY DEF GroupEdit, threads, history
<1>1. CASE NewGroup
  <2>1. NextId(groups) \in Nat \ {0} /\ NextId(groups) <= MaxGroups
    BY <1>1, <1>T, NextIdFresh, Constants DEF NewGroup, DataType
  <2>2. PICK row : groups' = With(groups, NextId(groups), row)
    BY <1>1 DEF NewGroup
  <2>3. DataType' /\ UNCHANGED profiles
    BY <1>1, <2>1, <2>2, <1>T, Constants DEF NewGroup, DataType, With
  <2> QED
    BY <1>U, <2>3, DataStep
<1>2. CASE DeleteGroup \/ Assign \/ Unassign \/ Override \/ EndOverride
  <2>1. DataType' /\ UNCHANGED profiles
    BY <1>2, <1>T
    DEF DataType, DeleteGroup, Assign, Unassign, Override, EndOverride, With, Without
  <2> QED
    BY <1>U, <2>1, DataStep
<1> QED
  BY <1>1, <1>2 DEF GroupEdit

LEMMA AllocateInv == ASSUME IInv, Allocate PROVE IInv'
<1>1. DataType'
  BY Typing DEF IInv, Allocate, DataType
<1> QED
  BY <1>1, DataStep DEF Allocate, threads, history

\* What a manager has read matters when it starts something, not before.
LEMMA ManagerReadsInv == ASSUME IInv, NEW m \in Managers, ManagerReads(m) PROVE IInv'
<1>1. DataType'
  BY Typing DEF IInv, ManagerReads, DataType, rows
<1> QED
  BY <1>1, DataStep DEF ManagerReads, rows, threads, history

\* A start while rows or files are about to go, or from a row that has gone,
\* makes a stray; any other one finds what suits its row.
LEMMA ManagerStartInv ==
    ASSUME IInv, NEW m \in Managers, NEW p \in Ids, ManagerStart(m, p) PROVE IInv'
<1> DEFINE file == seen[m][p]
<1>T. Typed /\ ExportsComplete /\ (~torn => Library)
  BY DEF IInv
<1>U. /\ file \in DOMAIN files
      /\ tunnel' = [tunnel EXCEPT ![p] = files[file]]
      /\ strays' = IF RowKept(m, p) /\ \A h \in Handlers : pc[h] \notin Swapping \cup {"delete"}
                   THEN strays ELSE strays \cup {p}
      /\ UNCHANGED <<profiles, groups, assigned, overrides, files, backup, lock, pc, job,
                     torn, fragile>>
  BY DEF ManagerStart, rows, threads
<1>1. TunnelType' /\ tunnel'[p] = files[file] /\ \A q \in Ids \ {p} : tunnel'[q] = tunnel[q]
  BY <1>U, <1>T, Typing DEF TunnelType, FilesType
<1>2. Typed'
  BY <1>U, <1>1, <1>T, Typing, TypedUnmoved DEF ProfilesType, DataType, FilesType
<1>3. ASSUME Library PROVE Library'
  <2>1. Solo' /\ Apart' /\ Suited'
    BY <1>3, <1>U DEF Library, Solo, Apart, Suited, Whole
  <2>2. \A k \in Handlers : Owned(k)' /\ Saved(k)'
    BY <1>3, <1>U DEF Library, Owned, Saved, Whole, Within
  <2>3. p \in strays' \/ (p \in DOMAIN profiles /\ files[file] = profiles[p].config)
    BY <1>3, <1>U DEF Library, Suited, Whole, Swapping, RowKept
  <2>4. Current'
    BY <1>3, <2>3, <1>U, <1>1 DEF Library, Current
  <2>5. ASSUME NEW k \in Handlers PROVE Stopped(k)'
    <3>1. Stopped(k) /\ (pc[k] \in Swapping \cup {"delete"} => p \in strays')
      BY <1>3, <1>U DEF Library
    <3>2. pc[k] = "delete" => job[k].id \in Ids
      BY <1>T, Typing DEF Carried, Deleting
    <3> QED
      BY <3>1, <3>2, <1>U, <1>1 DEF Stopped, Swapping
  <2> QED
    BY <2>1, <2>2, <2>4, <2>5 DEF Library
<1> QED
  BY <1>U, <1>2, <1>3, <1>T, ExportsStay DEF IInv

LEMMA TunnelEndsInv == ASSUME IInv, NEW p \in Ids, TunnelEnds(p) PROVE IInv'
<1>T. Typed /\ ExportsComplete /\ (~torn => Library)
  BY DEF IInv
<1>U. /\ tunnel' = [tunnel EXCEPT ![p] = NoTunnel] /\ strays' = strays \ {p}
      /\ UNCHANGED <<profiles, groups, assigned, overrides, files, backup, lock, pc, job,
                     torn, fragile>>
  BY DEF TunnelEnds, rows, threads
<1>1. TunnelType' /\ tunnel'[p] = NoTunnel /\ \A q \in Ids \ {p} : tunnel'[q] = tunnel[q]
  BY <1>U, <1>T, Typing DEF TunnelType
<1>2. Typed'
  BY <1>U, <1>1, <1>T, Typing, TypedUnmoved DEF ProfilesType, DataType, FilesType
<1>3. ASSUME Library PROVE Library'
  <2>1. Solo' /\ Apart' /\ Suited' /\ Current'
    BY <1>3, <1>U, <1>1 DEF Library, Solo, Apart, Suited, Whole, Current
  <2>2. \A k \in Handlers : Owned(k)' /\ Saved(k)'
    BY <1>3, <1>U DEF Library, Owned, Saved, Whole, Within
  <2>3. ASSUME NEW k \in Handlers PROVE Stopped(k)'
    <3>1. Stopped(k)
      BY <1>3 DEF Library
    <3>2. pc[k] = "delete" => job[k].id \in Ids
      BY <1>T, Typing DEF Carried, Deleting
    <3> QED
      BY <3>1, <3>2, <1>U, <1>1 DEF Stopped
  <2> QED
    BY <2>1, <2>2, <2>3 DEF Library
<1> QED
  BY <1>U, <1>2, <1>3, <1>T, ExportsStay DEF IInv

\* A stop outside of a swap leaves files that suit the rows.
LEMMA CrashInv == ASSUME IInv, Crash PROVE IInv'
<1>T. Typed /\ ExportsComplete /\ (~torn => Library)
  BY DEF IInv
<1>U. /\ lock' = Free
      /\ pc' = [h \in Handlers |-> "idle"] /\ job' = [h \in Handlers |-> EmptyTable]
      /\ torn' = (torn \/ \E h \in Handlers : pc[h] \in {"unlink", "copy", "save", "wipe", "rewrite"})
      /\ UNCHANGED <<profiles, groups, assigned, overrides, files, tunnel, backup, strays, fragile>>
  BY DEF Crash, rows
<1>1. ThreadsType' /\ \A h \in Handlers : Carried(h)'
  BY <1>U DEF ThreadsType, Steps, Carried, Swapping, Deleting
<1>2. TypeOK'
  BY <1>U, <1>T, Typing, Constants
  DEF TypeOK, ProfilesType, DataType, FilesType, TunnelType, LockType, Locked
<1>3. RowsType(backup)' /\ FilesType(backup.configs)'
  BY <1>U, <1>T, Typing DEF ZipType, RowsType, FilesType
<1>4. ASSUME ~torn' PROVE Library'
  <2>1. Library /\ Whole(files)
    BY <1>4, <1>U, <1>T DEF Library, Suited, Swapping
  <2>2. Suited' /\ Apart' /\ Current'
    BY <2>1, <1>U DEF Library, Suited, Whole, Apart, Current
  <2>3. Solo' /\ \A h \in Handlers : Owned(h)' /\ Saved(h)' /\ Stopped(h)'
    BY <1>U DEF Solo, Owned, Saved, Stopped, Swapping, Deleting
  <2> QED
    BY <2>2, <2>3 DEF Library
<1> QED
  BY <1>U, <1>1, <1>2, <1>3, <1>4, <1>T, ExportsStay DEF IInv, Typed

-----------------------------------------------------------------------------
LEMMA InvNext == ASSUME IInv, [Next]_vars PROVE IInv'
<1>1. ASSUME NEW h \in Handlers, ExportRows(h) \/ ExportFiles(h) PROVE IInv'
  BY <1>1, ExportRowsInv, ExportFilesInv
<1>2. ASSUME NEW h \in Handlers, Restore(h) PROVE IInv'
  BY <1>2, SnapshotInv, StopTunnelsInv, BeginInv, UnlinkInv, CopyInv, SaveInv,
     RestoreFailsInv, WipeInv, RewriteInv, RewriteFailsInv DEF Restore
<1>3. ASSUME NEW h \in Handlers, ProfileEdit(h) PROVE IInv'
  BY <1>3, NewProfileInv, WriteConfigInv, AddProfileInv, DeleteProfileInv, StopOneInv,
     DeleteRowInv, UnlinkOneInv DEF ProfileEdit
<1>4. CASE GroupEdit \/ Allocate \/ Crash
  BY <1>4, GroupEditInv, AllocateInv, CrashInv
<1>5. ASSUME NEW m \in Managers, ManagerReads(m) \/ \E p \in Ids : ManagerStart(m, p) PROVE IInv'
  BY <1>5, ManagerReadsInv, ManagerStartInv
<1>7. ASSUME NEW p \in Ids, TunnelEnds(p) PROVE IInv'
  BY <1>7, TunnelEndsInv
<1>6. CASE UNCHANGED vars
  <2>1. DataType'
    BY <1>6, Typing DEF IInv, DataType, vars, rows
  <2> QED
    BY <1>6, <2>1, DataStep DEF vars, rows, threads, history
<1> QED
  BY <1>1, <1>2, <1>3, <1>4, <1>5, <1>6, <1>7 DEF Next

LEMMA Invariant == Spec => []IInv
BY InitInv, InvNext, PTL DEF Spec

\* Rows, files, tunnels and backups keep their types, and whoever swaps files
\* in a transaction holds the write lock.
THEOREM TypeCorrect == Spec => []TypeOK
<1>1. IInv => TypeOK
  BY DEF IInv, Typed
<1> QED
  BY <1>1, Invariant, PTL

\* Outside of a swap every profile has its configuration: a restore that
\* succeeds, one that fails at any step, and every edit leave rows and files
\* that fit, unless a stop, a second failure or an overlap tore a swap.
THEOREM RestoreIsWhole == Spec => []FilesMatchRows
<1>1. IInv => FilesMatchRows
  BY DEF IInv, FilesMatchRows, Library, Suited, Whole
<1> QED
  BY <1>1, Invariant, PTL

\* Restores and deletes leave no tunnel of a former configuration, but those
\* that a stop missed or a manager started from rows that were about to change
\* or had changed since its pass read them.
THEOREM TunnelsAreCurrent == Spec => []TunnelsCurrent
<1>1. IInv => TunnelsCurrent
  BY DEF IInv, TunnelsCurrent, Library, Current
<1> QED
  BY <1>1, Invariant, PTL

\* A backup that no change to the library overlapped has the configuration of
\* every profile and no other.
THEOREM ExportsAreComplete == Spec => []ExportsComplete
<1>1. IInv => ExportsComplete
  BY DEF IInv
<1> QED
  BY <1>1, Invariant, PTL
=============================================================================

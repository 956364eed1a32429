--------------------------- MODULE ProfileLibrary ---------------------------
(***************************************************************************)
(* The profile library: VPN profiles as rows and configuration files, and  *)
(* the routing groups that name them, under the request handlers of        *)
(* app/vpn_profiles.py (new, import, edit, delete) and                     *)
(* app/routing_groups.py (new, edit, delete, sync-names).                  *)
(*                                                                         *)
(* A row and its file are written in separate steps and no lock joins      *)
(* them; requests of several threads interleave and the process may stop   *)
(* between two steps.                                                      *)
(***************************************************************************)
EXTENDS Integers, FiniteSets, Sequences, Tables

CONSTANTS
    Handlers,       \* request threads
    Uploads,        \* names of uploaded files
    FormNames,      \* friendly names a form may carry
    MaxProfiles, MaxGroups, MaxRequests

WAN == 0            \* vpn_profile_id of a group without a profile

\* A friendly name is a stem and the numbers appended to it, "a (2)": <<a, 2>>.
Numbered(base, n) == IF n = 1 THEN base ELSE Append(base, n)

\* The first of a name and its numbered forms that is not taken, by room rows.
FirstFree(base, taken, room) ==
    Numbered(base, Least({n \in 1 .. room + 1 : Numbered(base, n) \notin taken}))

VARIABLES
    profiles,       \* rows: id -> [name, file]
    files,          \* configuration files in /data/openvpn and /data/wireguard
    groups,         \* rows: id -> [name, profile]
    pc, job,        \* each handler's step and what it holds
    arrived,        \* requests so far
    contested,      \* history: files that two requests wanted at once
    crossed         \* history: profiles that two requests, of which one may delete
                    \* it or give it a group, wanted at once

tables == <<profiles, files, groups>>
threads == <<pc, job>>
history == <<contested, crossed>>
vars == <<tables, threads, arrived, history>>

NamesOf(table) == {table[k].name : k \in DOMAIN table}

NoJob == [id |-> 0, name |-> <<>>, file |-> <<>>, group |-> FALSE, import |-> FALSE,
          edited |-> 0, columns |-> {}, plan |-> <<>>]

Idle(h) == pc[h] = "idle"
Arrive(h) == Idle(h) /\ arrived < MaxRequests /\ arrived' = arrived + 1
Goto(h, step) == pc' = [pc EXCEPT ![h] = step]
Finish(h) == Goto(h, "idle") /\ job' = [job EXCEPT ![h] = NoJob]

\* What a handler holds: what it has been given, and nothing else.
Load(held) == [k \in DOMAIN NoJob |-> IF k \in DOMAIN held THEN held[k] ELSE NoJob[k]]

Hold(h, step, held) == Goto(h, step) /\ job' = [job EXCEPT ![h] = Load(held)]

\* Two requests in progress that want the same file, or the same profile.
Contest(h, file) ==
    contested' = contested \cup {f \in {file} : \E k \in Handlers \ {h} : job[k].file = f}

Cross(h, id) ==
    crossed' = crossed \cup {i \in {id} \ {WAN} : \E k \in Handlers \ {h} : job[k].id = i}

-----------------------------------------------------------------------------
(* Creating a profile: new and bulk_import.                                *)

\* new refuses a stored name that exists; _profile_dir / stored_name.
New(h) ==
    /\ Arrive(h)
    /\ \E stem \in FormNames, upload \in Uploads, group \in BOOLEAN :
        LET file == <<<<stem>>, upload>> IN
        /\ file \notin files
        /\ Hold(h, "write", [name |-> <<stem>>, file |-> file, group |-> group])
        /\ Contest(h, file)
    /\ UNCHANGED <<tables, crossed>>

\* _unique_profile_name
UniqueName(base) == FirstFree(base, NamesOf(profiles), MaxProfiles)

Import(h) ==
    /\ Arrive(h)
    /\ \E upload \in Uploads, group \in BOOLEAN :
        LET name == UniqueName(<<upload>>)
            file == <<name, upload>> IN
        IF file \in files
        THEN \* the refused upload is cleaned up: path is the file that exists
             /\ files' = files \ {file}
             /\ contested' = contested \cup {file}
             /\ UNCHANGED <<pc, job>>
        ELSE /\ Hold(h, "write", [name |-> name, file |-> file, group |-> group, import |-> TRUE])
             /\ Contest(h, file)
             /\ UNCHANGED files
    /\ UNCHANGED <<profiles, groups, crossed>>

Write(h) ==
    /\ pc[h] = "write"
    /\ files' = files \cup {job[h].file}
    /\ Goto(h, "commit")
    /\ UNCHANGED <<profiles, groups, job, arrived, history>>

\* An OSError: an import removes what it wrote, new leaves it.
WriteFails(h) ==
    /\ pc[h] = "write"
    /\ \/ files' = files \ {job[h].file}
       \/ files' = files \cup {job[h].file} /\ ~job[h].import
    /\ Finish(h)
    /\ UNCHANGED <<profiles, groups, arrived, history>>

\* A table without the unique name.
CommitUnchecked(h) ==
    /\ pc[h] = "commit"
    /\ LET id == NextId(profiles) IN
        /\ id <= MaxProfiles
        /\ profiles' = With(profiles, id, [name |-> job[h].name, file |-> job[h].file])
    /\ Finish(h)
    /\ UNCHANGED <<files, groups, arrived, history>>

\* The unique name decides; the loser's file is removed.
Commit(h) ==
    /\ pc[h] = "commit"
    /\ LET name == job[h].name
           id == NextId(profiles) IN
        IF name \in NamesOf(profiles)
        THEN files' = files \ {job[h].file} /\ Finish(h) /\ UNCHANGED profiles
        ELSE /\ NextId(profiles) <= MaxProfiles
             /\ profiles' = With(profiles, id, [name |-> name, file |-> job[h].file])
             /\ IF job[h].group THEN Hold(h, "group", [id |-> id, name |-> name])
                                ELSE Finish(h)
             /\ UNCHANGED files
    /\ UNCHANGED <<groups, arrived, history>>

-----------------------------------------------------------------------------
(* edit and delete of a profile.                                           *)

\* An edit that renames the stored file in the row only.
RenameStored(h) ==
    /\ Arrive(h)
    /\ \E id \in DOMAIN profiles, stem \in FormNames :
        /\ <<stem>> \notin NamesOf(profiles)
        /\ profiles' = [profiles EXCEPT ![id] = [name |-> <<stem>>, file |-> <<<<stem>>, @.file[2]>>]]
    /\ UNCHANGED <<files, groups, threads, history>>

\* edit renames the row and never the file.
Rename(h) ==
    /\ Arrive(h)
    /\ \E id \in DOMAIN profiles, stem \in FormNames :
        /\ <<stem>> \notin NamesOf(profiles)
        /\ profiles' = [profiles EXCEPT ![id].name = <<stem>>]
    /\ UNCHANGED <<files, groups, threads, history>>

\* A check that is not made.
NeverInUse(id) == FALSE

InUse(id) == \E g \in DOMAIN groups : groups[g].profile = id

Delete(h) ==
    /\ Arrive(h)
    /\ \E id \in DOMAIN profiles :
        /\ ~InUse(id)
        /\ Hold(h, "delete", [id |-> id, file |-> profiles[id].file])
        /\ Contest(h, profiles[id].file) /\ Cross(h, id)
    /\ UNCHANGED tables

\* The tunnel is stopped first: a stop that raises ends the request.
DeleteFails(h) ==
    /\ pc[h] = "delete"
    /\ Finish(h)
    /\ UNCHANGED <<tables, arrived, history>>

\* Whatever row has the id by now is deleted; that there is none is no error.
DeleteRow(h) ==
    /\ pc[h] = "delete"
    /\ profiles' = Without(profiles, job[h].id)
    /\ Goto(h, "unlink")
    /\ UNCHANGED <<files, groups, job, arrived, history>>

\* A file that cannot be removed stays behind.
Unlink(h) ==
    /\ pc[h] = "unlink"
    /\ files' \in {files, files \ {job[h].file}}
    /\ Finish(h)
    /\ UNCHANGED <<profiles, groups, arrived, history>>

-----------------------------------------------------------------------------
(* Routing groups.                                                         *)

NewGroup(h) ==
    /\ Arrive(h)
    /\ \E stem \in FormNames, id \in DOMAIN profiles \cup {WAN} :
        /\ Hold(h, "group", [id |-> id, name |-> <<stem>>])
        /\ Cross(h, id)
    /\ UNCHANGED <<tables, contested>>

\* The insert of the form's group, or of the one a new profile brings.
CreateGroup(h) ==
    /\ pc[h] = "group"
    /\ IF job[h].name \in NamesOf(groups)
       THEN UNCHANGED groups
       ELSE /\ NextId(groups) <= MaxGroups
            /\ groups' = With(groups, NextId(groups), [name |-> job[h].name, profile |-> job[h].id])
    /\ Finish(h)
    /\ UNCHANGED <<profiles, files, arrived, history>>

\* edit reads a group and checks the profile it is to have; only columns that
\* differ from what it has read will be written.
EditGroup(h) ==
    /\ Arrive(h)
    /\ \E g \in DOMAIN groups, id \in DOMAIN profiles \cup {WAN} :
        \E name \in {<<stem>> : stem \in FormNames} \cup {groups[g].name} :
            LET row == [name |-> name, profile |-> id]
                columns == {c \in DOMAIN row : row[c] # groups[g][c]}
                target == IF "profile" \in columns THEN id ELSE WAN IN
            /\ Hold(h, "edit", [edited |-> g, id |-> target, name |-> name, columns |-> columns])
            /\ Cross(h, target)
    /\ UNCHANGED <<tables, contested>>

\* The commit fails when the group is gone or another has the name.
UpdateGroup(h) ==
    /\ pc[h] = "edit"
    /\ LET g == job[h].edited
           columns == job[h].columns
           name == IF "name" \in columns THEN job[h].name ELSE groups[g].name
           target == IF "profile" \in columns THEN job[h].id ELSE groups[g].profile IN
        IF g \in DOMAIN groups /\ \A k \in DOMAIN groups \ {g} : groups[k].name # name
        THEN groups' = With(groups, g, [name |-> name, profile |-> target])
        ELSE UNCHANGED groups
    /\ Finish(h)
    /\ UNCHANGED <<profiles, files, arrived, history>>

DeleteGroup(h) ==
    /\ Arrive(h)
    /\ \E g \in DOMAIN groups : groups' = Without(groups, g)
    /\ UNCHANGED <<profiles, files, threads, history>>

\* sync_names: the groups whose profile exists, and the names of the others.
Backed == {g \in DOMAIN groups : groups[g].profile \in DOMAIN profiles}
WanNames == {groups[g].name : g \in DOMAIN groups \ Backed}

\* In the order of ids each group takes its profile's name, or the first
\* numbered one that no WAN group and no group before it has.
Targets ==
    LET target[g \in Backed] ==
            FirstFree(profiles[groups[g].profile].name,
                      WanNames \cup {target[k] : k \in {b \in Backed : b < g}},
                      Cardinality(DOMAIN groups))
    IN target

Changes == {g \in Backed : groups[g].name # Targets[g]}
Renames == [g \in Changes |-> Targets[g]]

SyncPlan(h) ==
    /\ Arrive(h) /\ Changes # {}
    /\ Hold(h, "sync", [plan |-> Renames])
    /\ UNCHANGED <<tables, history>>

\* A rename in one phase: a name that a later row still has is in the way.
CollidesInOrder(plan) ==
    \/ ~ DOMAIN plan \subseteq DOMAIN groups
    \/ \E g \in DOMAIN groups, k \in DOMAIN plan : k < g /\ groups[g].name = plan[k]

\* Names are unique row by row: the changed groups pass through placeholder
\* names, so that only a name kept by another group can be in the way.
Collides(plan) ==
    \/ \E g \in DOMAIN groups \ DOMAIN plan, k \in DOMAIN plan : groups[g].name = plan[k]
    \/ ~ DOMAIN plan \subseteq DOMAIN groups

Sync(h) ==
    /\ pc[h] = "sync"
    /\ LET plan == job[h].plan IN
        IF Collides(plan)
        THEN UNCHANGED groups
        ELSE groups' = [g \in DOMAIN groups |->
                           IF g \in DOMAIN plan THEN [groups[g] EXCEPT !.name = plan[g]] ELSE groups[g]]
    /\ Finish(h)
    /\ UNCHANGED <<profiles, files, arrived, history>>

-----------------------------------------------------------------------------
\* The process stops: requests are gone, rows and files stay.
Restart ==
    /\ \E h \in Handlers : ~Idle(h)
    /\ pc' = [h \in Handlers |-> "idle"] /\ job' = [h \in Handlers |-> NoJob]
    /\ UNCHANGED <<tables, arrived, history>>

\* Any library that earlier requests, renames among them, have left.
Libraries(n) ==
    {p \in [1 .. n -> [name : {<<s>> : s \in FormNames},
                       file : {<<<<s>>, u>> : s \in FormNames, u \in Uploads}]] :
        \A i, k \in 1 .. n : i # k => p[i].name # p[k].name /\ p[i].file # p[k].file}

GroupTables(m, n) ==
    {g \in [1 .. m -> [name : {<<s>> : s \in FormNames}, profile : 0 .. n]] :
        \A i, k \in 1 .. m : i # k => g[i].name # g[k].name}

Init ==
    /\ \E n \in 0 .. MaxProfiles, m \in 0 .. MaxGroups :
        profiles \in Libraries(n) /\ groups \in GroupTables(m, n)
    /\ files = {profiles[id].file : id \in DOMAIN profiles}
    /\ arrived = 0
    /\ pc = [h \in Handlers |-> "idle"] /\ job = [h \in Handlers |-> NoJob]
    /\ contested = {} /\ crossed = {}

Next ==
    \/ \E h \in Handlers :
        \/ New(h) \/ Import(h) \/ Write(h) \/ WriteFails(h) \/ Commit(h)
        \/ Rename(h) \/ Delete(h) \/ DeleteFails(h) \/ DeleteRow(h) \/ Unlink(h)
        \/ NewGroup(h) \/ CreateGroup(h) \/ EditGroup(h) \/ UpdateGroup(h) \/ DeleteGroup(h)
        \/ SyncPlan(h) \/ Sync(h)
    \/ Restart

Spec == Init /\ [][Next]_vars

-----------------------------------------------------------------------------
(* Properties.                                                             *)

\* Rows and files are what the handlers write, and no two rows share a name.
TypeOK ==
    /\ \A table \in {profiles, groups} : Cardinality(NamesOf(table)) = Cardinality(DOMAIN table)
    /\ DOMAIN profiles \subseteq 1 .. MaxProfiles
    /\ \A id \in DOMAIN profiles : profiles[id].file[2] \in Uploads
    /\ DOMAIN groups \subseteq 1 .. MaxGroups
    /\ \A f \in files : f[2] \in Uploads
    /\ pc \in [Handlers -> {"idle", "write", "commit", "group", "edit", "delete", "unlink", "sync"}]

\* A profile loses its configuration file only to a request that wanted the
\* same file: two at once, or an import of a name already stored. Failed
\* writes, taken names, stops in between and every other request keep it.
ConfigKept ==
    \A id \in DOMAIN profiles : profiles[id].file \in files \cup contested

\* A group names a profile that exists: deleted ids come back, so a group left
\* behind would pass its clients to another profile. The check of delete, which
\* reads the groups, keeps this through every order of requests and stops in
\* between; excepted are profiles whose deletion overlapped another deletion,
\* or the creation or the edit of a group that is to have them.
GroupsBacked ==
    \A g \in DOMAIN groups : groups[g].profile \in DOMAIN profiles \cup crossed \cup {WAN}

\* sync-names never fails for a name of its own making and needs no second
\* run: swapped names, duplicates and names of WAN groups all settle at once.
SyncSettles ==
    [][\A h \in Handlers : Sync(h) /\ job[h].plan = Renames => Changes' = {}]_vars
=============================================================================

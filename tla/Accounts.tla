------------------------------ MODULE Accounts ------------------------------
(***************************************************************************)
(* Users, their clients and the first setup: app/users.py, app/setup.py,   *)
(* app/services/setup.py and _bootstrap_or_prepare_setup of                *)
(* app/__init__.py.                                                        *)
(*                                                                         *)
(* A request is authorised and reads its rows in one step and commits in   *)
(* another; requests of several threads interleave in between.             *)
(***************************************************************************)
EXTENDS Integers, Tables

CONSTANTS
    Handlers,           \* request threads
    Clients,            \* WG-Easy clients
    MaxUsers, MaxRequests, MaxCrashes

ASSUME BoundsAssumption ==
    MaxUsers \in Nat \ {0} /\ MaxRequests \in Nat /\ MaxCrashes \in Nat

Nobody == 0

VARIABLES
    users,              \* rows: id -> is_admin
    access,             \* rows: client -> user id
    complete,           \* the setup_complete setting
    token,              \* the setup token file exists
    up,                 \* create_app has returned
    pc, job,            \* each handler's step and what it holds
    requests, crashes,  \* bounds
    raced               \* history: two requests to change users overlapped

rows == <<users, access>>
setup == <<complete, token>>
threads == <<pc, job>>
vars == <<rows, setup, up, threads, requests, crashes, raced>>

-----------------------------------------------------------------------------
First == IF DOMAIN users = {} THEN Nobody ELSE Least(DOMAIN users)
Admins == {u \in DOMAIN users : users[u]}

Goto(h, step) == pc' = [pc EXCEPT ![h] = step]
Hold(h, step, held) == Goto(h, step) /\ job' = [job EXCEPT ![h] = held]
Finish(h) == Hold(h, "idle", EmptyTable)

Arrive(h) ==
    /\ up /\ pc[h] = "idle"
    /\ requests < MaxRequests /\ requests' = requests + 1

Changing == {"update", "delete", "own"}
Race(h) == raced' = (raced \/ \E k \in Handlers \ {h} : pc[k] \in Changing)

-----------------------------------------------------------------------------
(* The setup wizard.                                                       *)

\* The token is right and WG-Easy answers: the first user is looked up.
Setup(h) ==
    /\ Arrive(h)
    /\ ~complete /\ token
    /\ Hold(h, "save", [id |-> First])
    /\ UNCHANGED <<rows, setup, up, crashes, raced>>

\* The user that was found becomes the administrator, or a new one; a user
\* who is gone by now makes the commit fail.
SetupUser(h) ==
    /\ pc[h] = "save"
    /\ LET id == IF job[h].id = Nobody THEN NextId(users) ELSE job[h].id IN
        IF job[h].id \in DOMAIN users \cup {Nobody}
        THEN /\ id <= MaxUsers
             /\ users' = With(users, id, TRUE)
             /\ Goto(h, "mark") /\ UNCHANGED job
        ELSE Finish(h) /\ UNCHANGED users
    /\ UNCHANGED <<access, setup, up, requests, crashes, raced>>

MarkComplete(h) ==
    /\ pc[h] = "mark"
    /\ complete' = TRUE
    /\ Goto(h, "remove")
    /\ UNCHANGED <<rows, token, up, job, requests, crashes, raced>>

RemoveToken(h) ==
    /\ pc[h] = "remove"
    /\ token' = FALSE
    /\ Finish(h)
    /\ UNCHANGED <<rows, complete, up, requests, crashes, raced>>

-----------------------------------------------------------------------------
(* The pages of an administrator, whose id the session holds.              *)

\* admin_required, after the redirect of an unfinished setup.
Authorised(h, admin) == Arrive(h) /\ complete /\ admin \in Admins

Create(h) ==
    /\ \E admin \in Admins : Authorised(h, admin)
    /\ NextId(users) <= MaxUsers
    /\ \E is_admin \in BOOLEAN : users' = With(users, NextId(users), is_admin)
    /\ UNCHANGED <<access, setup, up, threads, crashes, raced>>

\* No check that somebody keeps the role.
UpdateAnyone(h) ==
    /\ \E admin \in Admins, id \in DOMAIN users, is_admin \in BOOLEAN :
        /\ Authorised(h, admin)
        /\ Hold(h, "update", [id |-> id, is_admin |-> is_admin, was |-> users[id]])
    /\ Race(h)
    /\ UNCHANGED <<rows, setup, up, crashes>>

\* Nobody takes the role away from himself.
Update(h) ==
    /\ \E admin \in Admins, id \in DOMAIN users, is_admin \in BOOLEAN :
        /\ Authorised(h, admin)
        /\ id = admin => is_admin
        /\ Hold(h, "update", [id |-> id, is_admin |-> is_admin, was |-> users[id]])
    /\ Race(h)
    /\ UNCHANGED <<rows, setup, up, crashes>>

\* Only a changed role is written; a row that is gone by now makes the
\* commit fail.
UpdateCommit(h) ==
    /\ pc[h] = "update"
    /\ users' = IF job[h].id \in DOMAIN users /\ job[h].is_admin # job[h].was
                THEN [users EXCEPT ![job[h].id] = job[h].is_admin] ELSE users
    /\ Finish(h)
    /\ UNCHANGED <<access, setup, up, requests, crashes, raced>>

Delete(h) ==
    /\ \E admin \in Admins : \E id \in DOMAIN users \ {admin} :
        /\ Authorised(h, admin)
        /\ Hold(h, "delete", [id |-> id])
    /\ Race(h)
    /\ UNCHANGED <<rows, setup, up, crashes>>

\* A delete that leaves the user's clients.
DeleteKeeps(h) ==
    /\ pc[h] = "delete"
    /\ users' = Without(users, job[h].id)
    /\ Finish(h)
    /\ UNCHANGED <<access, setup, up, requests, crashes, raced>>

DeleteCommit(h) ==
    /\ pc[h] = "delete"
    /\ users' = Without(users, job[h].id)
    /\ access' = [c \in {c \in DOMAIN access : access[c] # job[h].id} |-> access[c]]
    /\ Finish(h)
    /\ UNCHANGED <<setup, up, requests, crashes, raced>>

\* A client is given to a self-service user, or taken away.
Ownership(h) ==
    /\ \E admin \in Admins, c \in Clients : \E id \in (DOMAIN users \ Admins) \cup {Nobody} :
        /\ Authorised(h, admin)
        /\ Hold(h, "own", [id |-> id, client |-> c, found |-> c \in DOMAIN access])
    /\ Race(h)
    /\ UNCHANGED <<rows, setup, up, crashes>>

\* The row that was found is changed or deleted, or a new one inserted: the
\* commit fails when another request has deleted or inserted it meanwhile.
OwnershipCommit(h) ==
    /\ pc[h] = "own"
    /\ LET c == job[h].client IN
        access' = IF job[h].found # (c \in DOMAIN access) THEN access
                  ELSE IF job[h].id = Nobody THEN Without(access, c)
                  ELSE With(access, c, job[h].id)
    /\ Finish(h)
    /\ UNCHANGED <<users, setup, up, requests, crashes, raced>>

-----------------------------------------------------------------------------
(* Boot.                                                                   *)

\* ADMIN_PASSWORD makes the first user of a fresh database; the rest of the
\* boot follows.
BootAdmin ==
    /\ ~up /\ users = EmptyTable
    /\ users' = With(users, 1, TRUE)
    /\ UNCHANGED <<access, setup, up, threads, requests, crashes, raced>>

\* A boot that leaves an interrupted setup alone.
BootAsFound ==
    /\ ~up /\ up' = TRUE
    /\ UNCHANGED <<rows, setup, threads, requests, crashes, raced>>

\* _bootstrap_or_prepare_setup: with a user setup is complete, else there is
\* a token.
BootSetup ==
    /\ ~up /\ up' = TRUE
    /\ IF users = EmptyTable
       THEN token' = TRUE /\ UNCHANGED complete
       ELSE token' = FALSE /\ complete' = TRUE
    /\ UNCHANGED <<rows, threads, requests, crashes, raced>>

Crash ==
    /\ crashes < MaxCrashes /\ crashes' = crashes + 1
    /\ up' = FALSE
    /\ pc' = [h \in Handlers |-> "idle"] /\ job' = [h \in Handlers |-> EmptyTable]
    /\ UNCHANGED <<rows, setup, requests, raced>>

\* A fresh database, or that of a release without roles and settings: all
\* users are administrators, no setup is recorded.
Init ==
    /\ \E n \in 0 .. MaxUsers : users = [u \in 1 .. n |-> TRUE]
    /\ access = EmptyTable
    /\ complete = FALSE /\ token = FALSE /\ up = FALSE
    /\ pc = [h \in Handlers |-> "idle"] /\ job = [h \in Handlers |-> EmptyTable]
    /\ requests = 0 /\ crashes = 0 /\ raced = FALSE

Next ==
    \/ \E h \in Handlers :
        \/ Setup(h) \/ SetupUser(h) \/ MarkComplete(h) \/ RemoveToken(h)
        \/ Create(h) \/ Update(h) \/ UpdateCommit(h)
        \/ Delete(h) \/ DeleteCommit(h) \/ Ownership(h) \/ OwnershipCommit(h)
    \/ BootAdmin \/ BootSetup \/ Crash

Spec == Init /\ [][Next]_vars

-----------------------------------------------------------------------------
(* Properties.                                                             *)

RowsType ==
    /\ DOMAIN users \subseteq 1 .. MaxUsers /\ \A u \in DOMAIN users : users[u] \in BOOLEAN
    /\ DOMAIN access \subseteq Clients /\ \A c \in DOMAIN access : access[c] \in 1 .. MaxUsers

FlagsType == {complete, token, up, raced} \subseteq BOOLEAN

ThreadsType ==
    /\ pc \in [Handlers -> {"idle", "save", "mark", "remove"} \cup Changing]
    /\ \A h \in Handlers : pc[h] # "idle" => up

BoundsType == requests \in 0 .. MaxRequests /\ crashes \in 0 .. MaxCrashes

\* Ids and steps are those the handlers use.
TypeOK == RowsType /\ FlagsType /\ ThreadsType /\ BoundsType

\* Once setup is complete there is an administrator, whatever was interrupted
\* and whoever deletes or demotes whom. Only two such requests at once can
\* each find the other administrator and leave none.
AdminRemains == complete => Admins # {} \/ raced

\* While setup is not complete it can be: the wizard has its token, after a
\* stop at any of its steps too; and a running program with a user from before
\* its boot asks nobody for setup.
SetupReachable ==
    up /\ ~complete =>
        /\ token
        /\ \A u \in DOMAIN users : users[u] /\ \E h \in Handlers : pc[h] = "mark"

\* A client belongs to a user who exists: ids come back, so that what a
\* deleted user leaves would be the next one's.
AccessOwned == \A c \in DOMAIN access : access[c] \in DOMAIN users \/ raced
=============================================================================

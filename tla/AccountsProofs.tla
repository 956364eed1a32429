--------------------------- MODULE AccountsProofs ---------------------------
(***************************************************************************)
(* Theorems about Accounts for any number of users, request threads and    *)
(* crashes: an administrator remains, the setup stays reachable, clients   *)
(* belong to users who exist.                                              *)
(***************************************************************************)
EXTENDS Accounts, TablesProofs

\* Tables and what the threads hold are functions.
Functional ==
    /\ users = [u \in DOMAIN users |-> users[u]] /\ access = [c \in DOMAIN access |-> access[c]]
    /\ job = [h \in Handlers |-> job[h]]

\* What a request holds for its commit.
Held(h) ==
    /\ pc[h] \in {"save", "own"} => job[h].id \in 0 .. MaxUsers
    /\ pc[h] = "update" => job[h].is_admin \in BOOLEAN
    /\ pc[h] = "own" => job[h].client \in Clients

\* Until setup is complete nobody has lost the role; before it is marked
\* complete there is an administrator.
Promoted ==
    /\ ~complete => \A u \in DOMAIN users : users[u]
    /\ \A h \in Handlers :
        /\ pc[h] = "mark" => Admins # {} \/ raced
        /\ pc[h] \in Changing \cup {"remove"} => complete

\* Requests that change users at once have raced.
Solo == \A h, k \in Handlers : h # k /\ pc[h] \in Changing /\ pc[k] \in Changing => raced

\* Whom a request demotes or deletes is not the last administrator; whom it
\* gives a client exists.
Safe(h) ==
    ~raced =>
        /\ pc[h] = "update" => job[h].is_admin \/ \E u \in Admins : u # job[h].id
        /\ pc[h] = "delete" => \E u \in Admins : u # job[h].id
        /\ pc[h] = "own" => job[h].id \in DOMAIN users \cup {Nobody}

Requests == Solo /\ \A h \in Handlers : Held(h) /\ Safe(h)

IInv ==
    /\ TypeOK /\ Functional /\ Promoted /\ Requests
    /\ AdminRemains /\ SetupReachable /\ AccessOwned

-----------------------------------------------------------------------------
\* The first user is one.
LEMMA FirstIsUser ==
    ASSUME RowsType PROVE First \in 0 .. MaxUsers
<1>1. CASE DOMAIN users = {}
  BY <1>1, BoundsAssumption DEF First, Nobody
<1>2. CASE DOMAIN users # {}
  <2>1. \E n \in DOMAIN users : \A k \in DOMAIN users : n <= k
    BY <1>2, LeastExists, BoundsAssumption DEF RowsType
  <2>2. Least(DOMAIN users) \in DOMAIN users
    BY <2>1 DEF Least
  <2> QED
    BY <1>2, <2>2, BoundsAssumption DEF First, RowsType
<1> QED
  BY <1>1, <1>2

-----------------------------------------------------------------------------
LEMMA InitInv == Init => IInv
<1> SUFFICES ASSUME Init PROVE IInv
  OBVIOUS
<1>U. PICK n \in 0 .. MaxUsers : users = [u \in 1 .. n |-> TRUE]
  BY DEF Init
<1>1. RowsType
  <2>1. DOMAIN users \subseteq 1 .. MaxUsers /\ \A u \in DOMAIN users : users[u] \in BOOLEAN
    BY <1>U, BoundsAssumption
  <2> QED
    BY <2>1 DEF Init, RowsType, EmptyTable
<1>2. FlagsType /\ ThreadsType
  BY DEF Init, FlagsType, ThreadsType
<1>3. BoundsType
  BY BoundsAssumption DEF Init, BoundsType
<1>4. Functional
  BY <1>U DEF Init, Functional, EmptyTable
<1>5. Promoted /\ Requests
  BY <1>U DEF Init, Promoted, Requests, Solo, Held, Safe, Changing
<1>6. AdminRemains /\ SetupReachable /\ AccessOwned
  BY DEF Init, AdminRemains, SetupReachable, AccessOwned, EmptyTable
<1> QED
  BY <1>1, <1>2, <1>3, <1>4, <1>5, <1>6 DEF IInv, TypeOK

-----------------------------------------------------------------------------
(* What the steps have in common.                                          *)

\* A request moves, and those that the others hold stay as good as they were.
LEMMA Move ==
    ASSUME IInv, NEW h \in Handlers,
           \A k \in Handlers \ {h} : pc'[k] = pc[k] /\ job'[k] = job[k],
           raced => raced',
           ~raced' => \/ DOMAIN users \subseteq DOMAIN users' /\ Admins \subseteq Admins'
                      \/ pc[h] \in Changing,
           pc'[h] \in Changing => raced' \/ pc[h] \in Changing
                                  \/ \A k \in Handlers \ {h} : pc[k] \notin Changing,
           Held(h)', Safe(h)'
    PROVE  Requests'
<1>I. Solo /\ \A k \in Handlers : Held(k) /\ Safe(k)
  BY DEF IInv, Requests
<1>1. Solo'
  BY <1>I DEF Solo
<1>2. ASSUME NEW k \in Handlers \ {h} PROVE Held(k)'
  BY <1>2, <1>I DEF Held
<1>3. ASSUME NEW k \in Handlers \ {h} PROVE Safe(k)'
  BY <1>3, <1>I DEF Safe, Solo, Changing
<1> QED
  BY <1>1, <1>2, <1>3 DEF Requests

LEMMA HoldMoves ==
    ASSUME ThreadsType, Functional, NEW h \in Handlers, NEW step, NEW held,
           Hold(h, step, held), step \in {"idle", "save", "mark", "remove"} \cup Changing,
           step # "idle" => up, UNCHANGED up
    PROVE  /\ ThreadsType' /\ job' = [k \in Handlers |-> job'[k]]
           /\ pc'[h] = step /\ job'[h] = held
           /\ \A k \in Handlers \ {h} : pc'[k] = pc[k] /\ job'[k] = job[k]
BY DEF ThreadsType, Functional, Hold, Goto

LEMMA GotoMoves ==
    ASSUME ThreadsType, Functional, NEW h \in Handlers, NEW step,
           Goto(h, step), step \in {"idle", "save", "mark", "remove"} \cup Changing,
           step # "idle" => up, UNCHANGED <<up, job>>
    PROVE  /\ ThreadsType' /\ job' = [k \in Handlers |-> job'[k]]
           /\ pc'[h] = step
           /\ \A k \in Handlers \ {h} : pc'[k] = pc[k] /\ job'[k] = job[k]
BY DEF ThreadsType, Functional, Goto

\* Another administrator is one all the same, and nobody is less of one.
LEMMA MoreUsers ==
    ASSUME IInv, NEW id \in 1 .. MaxUsers, NEW is_admin \in BOOLEAN, users' = With(users, id, is_admin),
           is_admin \/ id \notin DOMAIN users, UNCHANGED access
    PROVE  /\ RowsType' /\ users' = [u \in DOMAIN users' |-> users'[u]]
           /\ DOMAIN users' = DOMAIN users \cup {id} /\ Admins \subseteq Admins'
           /\ is_admin => /\ id \in Admins'
                          /\ (\A u \in DOMAIN users : users[u]) => \A u \in DOMAIN users' : users'[u]
<1>1. /\ DOMAIN users' = DOMAIN users \cup {id}
      /\ users'[id] = is_admin
      /\ \A k \in DOMAIN users \ {id} : users'[k] = users[k]
      /\ users' = [u \in DOMAIN users' |-> users'[u]]
  BY DEF With
<1>2. RowsType'
  BY <1>1 DEF IInv, TypeOK, RowsType
<1>3. Admins \subseteq Admins'
  BY <1>1 DEF Admins
<1>4. is_admin => /\ id \in Admins'
                  /\ (\A u \in DOMAIN users : users[u]) => \A u \in DOMAIN users' : users'[u]
  BY <1>1 DEF Admins
<1> QED
  BY <1>1, <1>2, <1>3, <1>4

LEMMA ArriveType ==
    ASSUME BoundsType, NEW h \in Handlers, Arrive(h), UNCHANGED crashes
    PROVE  BoundsType' /\ up /\ pc[h] = "idle"
BY BoundsAssumption DEF BoundsType, Arrive

\* A step that leaves rows and flags alone has only its own thread to answer
\* for.
LEMMA ThreadStep ==
    ASSUME IInv, NEW h \in Handlers, UNCHANGED <<rows, setup, up>>,
           \A k \in Handlers \ {h} : pc'[k] = pc[k] /\ job'[k] = job[k],
           ThreadsType', BoundsType', job' = [k \in Handlers |-> job'[k]],
           raced' \in BOOLEAN, raced => raced',
           pc[h] # "mark", pc'[h] # "mark", pc'[h] \in Changing \cup {"remove"} => complete,
           pc'[h] \in Changing => raced' \/ pc[h] \in Changing
                                  \/ \A k \in Handlers \ {h} : pc[k] \notin Changing,
           Held(h)', Safe(h)'
    PROVE  IInv'
<1>T. /\ RowsType /\ FlagsType /\ ThreadsType /\ BoundsType /\ Functional
      /\ Promoted /\ Solo /\ (\A k \in Handlers : Held(k) /\ Safe(k))
      /\ AdminRemains /\ SetupReachable /\ AccessOwned
  BY DEF IInv, TypeOK, Requests
<1>U. UNCHANGED <<users, access, complete, token, up>>
  BY DEF rows, setup
<1>1. RowsType' /\ Functional'
  BY <1>U, <1>T DEF RowsType, Functional
<1>2. FlagsType'
  BY <1>U, <1>T DEF FlagsType
<1>3. Admins' = Admins
  BY <1>U DEF Admins
<1>4. Requests'
  BY <1>U, <1>3, Move
<1>5. Promoted'
  BY <1>U, <1>3, <1>T DEF Promoted
<1>6. AdminRemains' /\ AccessOwned'
  BY <1>U, <1>3, <1>T DEF AdminRemains, AccessOwned
<1>7. SetupReachable'
  BY <1>U, <1>T DEF SetupReachable
<1> QED
  BY <1>1, <1>2, <1>4, <1>5, <1>6, <1>7 DEF IInv, TypeOK

-----------------------------------------------------------------------------
(* The setup wizard.                                                       *)

LEMMA SetupInv == ASSUME IInv, NEW h \in Handlers, Setup(h) PROVE IInv'
<1>T. /\ RowsType /\ FlagsType /\ ThreadsType /\ BoundsType /\ Functional
      /\ Promoted /\ Solo /\ (\A k \in Handlers : Held(k) /\ Safe(k))
      /\ AdminRemains /\ SetupReachable /\ AccessOwned
  BY DEF IInv, TypeOK, Requests
<1>1. BoundsType' /\ up /\ pc[h] = "idle"
  BY <1>T, ArriveType DEF Setup
<1>2. /\ ThreadsType' /\ job' = [k \in Handlers |-> job'[k]]
      /\ pc'[h] = "save" /\ job'[h] = [id |-> First]
      /\ \A k \in Handlers \ {h} : pc'[k] = pc[k] /\ job'[k] = job[k]
  BY <1>T, <1>1, HoldMoves DEF Setup
<1>3. Held(h)'
  BY <1>T, <1>2, FirstIsUser DEF Held
<1>4. Safe(h)'
  BY <1>2 DEF Safe
<1>5. UNCHANGED <<rows, setup, up, raced>> /\ raced' \in BOOLEAN
  BY <1>T DEF Setup, FlagsType
<1> QED
  BY <1>1, <1>2, <1>3, <1>4, <1>5, ThreadStep DEF Changing

LEMMA SetupUserInv == ASSUME IInv, NEW h \in Handlers, SetupUser(h) PROVE IInv'
<1>T. /\ RowsType /\ FlagsType /\ ThreadsType /\ BoundsType /\ Functional
      /\ Promoted /\ Solo /\ (\A k \in Handlers : Held(k) /\ Safe(k))
      /\ AdminRemains /\ SetupReachable /\ AccessOwned
  BY DEF IInv, TypeOK, Requests
<1>0. pc[h] = "save" /\ UNCHANGED <<access, complete, token, up, requests, crashes, raced>>
  BY DEF SetupUser, setup
<1>1. BoundsType' /\ raced' \in BOOLEAN /\ up
  BY <1>0, <1>T DEF BoundsType, FlagsType, ThreadsType
<1>2. CASE Finish(h) /\ UNCHANGED users
  <2>1. /\ ThreadsType' /\ job' = [k \in Handlers |-> job'[k]]
        /\ pc'[h] = "idle" /\ job'[h] = EmptyTable
        /\ \A k \in Handlers \ {h} : pc'[k] = pc[k] /\ job'[k] = job[k]
    BY <1>0, <1>2, <1>T, HoldMoves DEF Finish
  <2>2. Held(h)' /\ Safe(h)'
    BY <2>1 DEF Held, Safe
  <2> QED
    BY <1>0, <1>1, <1>2, <2>1, <2>2, ThreadStep DEF rows, setup, Changing
<1>3. ASSUME NEW id \in 1 .. MaxUsers, users' = With(users, id, TRUE),
             Goto(h, "mark"), UNCHANGED job
      PROVE  IInv'
  <2>1. /\ RowsType' /\ users' = [u \in DOMAIN users' |-> users'[u]]
        /\ DOMAIN users' = DOMAIN users \cup {id} /\ Admins \subseteq Admins' /\ id \in Admins'
        /\ (\A u \in DOMAIN users : users[u]) => \A u \in DOMAIN users' : users'[u]
    BY <1>0, <1>3, MoreUsers
  <2>2. /\ ThreadsType' /\ job' = [k \in Handlers |-> job'[k]] /\ pc'[h] = "mark"
        /\ \A k \in Handlers \ {h} : pc'[k] = pc[k] /\ job'[k] = job[k]
    BY <1>0, <1>1, <1>3, <1>T, GotoMoves
  <2>3. Held(h)' /\ Safe(h)'
    BY <2>2 DEF Held, Safe, Changing
  <2>4. Requests'
    BY <1>0, <2>1, <2>2, <2>3, Move DEF Changing
  <2>5. Functional' /\ FlagsType'
    BY <1>0, <1>T, <2>1, <2>2 DEF Functional, FlagsType
  <2>6. Promoted'
    BY <1>0, <1>T, <2>1, <2>2 DEF Promoted, Changing
  <2>7. AdminRemains' /\ AccessOwned'
    BY <1>0, <1>T, <2>1 DEF AdminRemains, AccessOwned
  <2>8. SetupReachable'
    BY <1>0, <1>T, <2>1, <2>2 DEF SetupReachable, Promoted
  <2> QED
    BY <1>1, <2>1, <2>2, <2>4, <2>5, <2>6, <2>7, <2>8 DEF IInv, TypeOK
<1>4. CASE job[h].id \in DOMAIN users \cup {Nobody}
  <2> DEFINE id == IF job[h].id = Nobody THEN NextId(users) ELSE job[h].id
  <2>1. id <= MaxUsers /\ users' = With(users, id, TRUE) /\ Goto(h, "mark") /\ UNCHANGED job
    BY <1>4 DEF SetupUser
  <2>2. NextId(users) \in Nat \ {0}
    BY <1>T, NextIdFresh, BoundsAssumption DEF RowsType
  <2>3. id \in 1 .. MaxUsers
    BY <1>4, <1>T, <2>1, <2>2, BoundsAssumption DEF RowsType
  <2> QED
    BY <1>3, <2>1, <2>3
<1> QED
  BY <1>2, <1>4 DEF SetupUser

LEMMA MarkCompleteInv == ASSUME IInv, NEW h \in Handlers, MarkComplete(h) PROVE IInv'
<1>T. /\ RowsType /\ FlagsType /\ ThreadsType /\ BoundsType /\ Functional
      /\ Promoted /\ Solo /\ (\A k \in Handlers : Held(k) /\ Safe(k))
      /\ AdminRemains /\ SetupReachable /\ AccessOwned
  BY DEF IInv, TypeOK, Requests
<1>0. /\ pc[h] = "mark" /\ complete' = TRUE /\ Goto(h, "remove")
      /\ UNCHANGED <<users, access, token, up, job, requests, crashes, raced>>
  BY DEF MarkComplete, rows
<1>1. RowsType' /\ BoundsType' /\ Admins' = Admins
  BY <1>0, <1>T DEF RowsType, BoundsType, Admins
<1>2. FlagsType' /\ up
  BY <1>0, <1>T DEF FlagsType, ThreadsType
<1>3. /\ ThreadsType' /\ job' = [k \in Handlers |-> job'[k]] /\ pc'[h] = "remove"
      /\ \A k \in Handlers \ {h} : pc'[k] = pc[k] /\ job'[k] = job[k]
  BY <1>0, <1>2, <1>T, GotoMoves
<1>4. Requests'
  <2>1. Held(h)' /\ Safe(h)'
    BY <1>3 DEF Held, Safe
  <2> QED
    BY <1>0, <1>1, <1>3, <2>1, Move DEF Changing
<1>5. Functional' /\ Promoted' /\ AdminRemains'
  BY <1>0, <1>1, <1>3, <1>T DEF Functional, Promoted, AdminRemains
<1>6. SetupReachable' /\ AccessOwned'
  BY <1>0, <1>T DEF SetupReachable, AccessOwned
<1> QED
  BY <1>1, <1>2, <1>3, <1>4, <1>5, <1>6 DEF IInv, TypeOK

LEMMA RemoveTokenInv == ASSUME IInv, NEW h \in Handlers, RemoveToken(h) PROVE IInv'
<1>T. /\ RowsType /\ FlagsType /\ ThreadsType /\ BoundsType /\ Functional
      /\ Promoted /\ Solo /\ (\A k \in Handlers : Held(k) /\ Safe(k))
      /\ AdminRemains /\ SetupReachable /\ AccessOwned
  BY DEF IInv, TypeOK, Requests
<1>0. /\ pc[h] = "remove" /\ token' = FALSE /\ Finish(h)
      /\ UNCHANGED <<users, access, complete, up, requests, crashes, raced>>
  BY DEF RemoveToken, rows
<1>1. RowsType' /\ BoundsType' /\ Admins' = Admins
  BY <1>0, <1>T DEF RowsType, BoundsType, Admins
<1>2. FlagsType'
  BY <1>0, <1>T DEF FlagsType
<1>3. /\ ThreadsType' /\ job' = [k \in Handlers |-> job'[k]] /\ pc'[h] = "idle"
      /\ \A k \in Handlers \ {h} : pc'[k] = pc[k] /\ job'[k] = job[k]
  BY <1>0, <1>T, HoldMoves DEF Finish
<1>4. Requests'
  <2>1. Held(h)' /\ Safe(h)'
    BY <1>3 DEF Held, Safe
  <2> QED
    BY <1>0, <1>1, <1>3, <2>1, Move DEF Changing
<1>5. complete
  BY <1>0, <1>T DEF Promoted
<1>6. Functional' /\ Promoted' /\ AdminRemains'
  BY <1>0, <1>1, <1>3, <1>T DEF Functional, Promoted, AdminRemains, Changing
<1>7. SetupReachable' /\ AccessOwned'
  BY <1>0, <1>5, <1>T DEF SetupReachable, AccessOwned
<1> QED
  BY <1>1, <1>2, <1>3, <1>4, <1>6, <1>7 DEF IInv, TypeOK

-----------------------------------------------------------------------------
(* The pages of an administrator.                                          *)

LEMMA CreateInv == ASSUME IInv, NEW h \in Handlers, Create(h) PROVE IInv'
<1>T. /\ RowsType /\ FlagsType /\ ThreadsType /\ BoundsType /\ Functional
      /\ Promoted /\ Solo /\ (\A k \in Handlers : Held(k) /\ Safe(k))
      /\ AdminRemains /\ SetupReachable /\ AccessOwned
  BY DEF IInv, TypeOK, Requests
<1>0. complete /\ UNCHANGED <<access, complete, token, up, pc, job, crashes, raced>>
  BY DEF Create, Authorised, setup, threads
<1>1. BoundsType'
  BY <1>0, <1>T, ArriveType DEF Create, Authorised
<1>2. PICK is_admin \in BOOLEAN : users' = With(users, NextId(users), is_admin)
  BY DEF Create
<1>3. NextId(users) \in 1 .. MaxUsers /\ NextId(users) \notin DOMAIN users
  <2>1. NextId(users) \in Nat \ {0} /\ NextId(users) \notin DOMAIN users
    BY <1>T, NextIdFresh, BoundsAssumption DEF RowsType
  <2> QED
    BY <2>1, <1>T, BoundsAssumption DEF Create
<1>4. /\ RowsType' /\ users' = [u \in DOMAIN users' |-> users'[u]]
      /\ DOMAIN users' = DOMAIN users \cup {NextId(users)} /\ Admins \subseteq Admins'
  BY <1>0, <1>2, <1>3, MoreUsers
<1>5. FlagsType' /\ ThreadsType' /\ Functional'
  BY <1>0, <1>T, <1>4 DEF FlagsType, ThreadsType, Functional
<1>6. Requests'
  BY <1>0, <1>T, <1>4 DEF Requests, Solo, Held, Safe
<1>7. Promoted' /\ AdminRemains' /\ SetupReachable' /\ AccessOwned'
  BY <1>0, <1>T, <1>4 DEF Promoted, AdminRemains, SetupReachable, AccessOwned
<1> QED
  BY <1>1, <1>4, <1>5, <1>6, <1>7 DEF IInv, TypeOK

\* A request to change users is authorised.
LEMMA ChangeInv ==
    ASSUME IInv, NEW h \in Handlers, NEW admin \in Admins, Authorised(h, admin), Race(h),
           NEW step \in Changing, NEW held, Hold(h, step, held), UNCHANGED <<rows, setup, up, crashes>>,
           ThreadsType' /\ pc'[h] = step /\ job'[h] = held => Held(h)' /\ Safe(h)'
    PROVE  IInv'
<1>T. /\ RowsType /\ FlagsType /\ ThreadsType /\ BoundsType /\ Functional
      /\ Promoted /\ Solo /\ (\A k \in Handlers : Held(k) /\ Safe(k))
      /\ AdminRemains /\ SetupReachable /\ AccessOwned
  BY DEF IInv, TypeOK, Requests
<1>1. BoundsType' /\ up /\ pc[h] = "idle" /\ complete
  BY <1>T, ArriveType DEF Authorised
<1>2. /\ ThreadsType' /\ job' = [k \in Handlers |-> job'[k]]
      /\ pc'[h] = step /\ job'[h] = held
      /\ \A k \in Handlers \ {h} : pc'[k] = pc[k] /\ job'[k] = job[k]
  BY <1>T, <1>1, HoldMoves DEF Changing
<1>3. raced' \in BOOLEAN /\ (raced => raced')
  BY DEF Race
<1>4. raced' \/ \A k \in Handlers \ {h} : pc[k] \notin Changing
  BY DEF Race
<1> QED
  BY <1>1, <1>2, <1>3, <1>4, ThreadStep DEF Changing

LEMMA UpdateInv == ASSUME IInv, NEW h \in Handlers, Update(h) PROVE IInv'
<1>1. PICK admin \in Admins, id \in DOMAIN users, is_admin \in BOOLEAN :
        /\ Authorised(h, admin)
        /\ id = admin => is_admin
        /\ Hold(h, "update", [id |-> id, is_admin |-> is_admin, was |-> users[id]])
  BY DEF Update
<1>2. Race(h) /\ UNCHANGED <<rows, setup, up, crashes>> /\ Admins' = Admins
  BY DEF Update, rows, Admins
<1>3. ASSUME pc'[h] = "update", job'[h] = [id |-> id, is_admin |-> is_admin, was |-> users[id]]
      PROVE  Held(h)' /\ Safe(h)'
  <2>1. job'[h].id = id /\ job'[h].is_admin = is_admin
    BY <1>3
  <2>2. is_admin \/ \E u \in Admins : u # id
    BY <1>1
  <2> QED
    BY <1>2, <1>3, <2>1, <2>2 DEF Held, Safe
<1> QED
  BY <1>1, <1>2, <1>3, ChangeInv DEF Changing

LEMMA DeleteInv == ASSUME IInv, NEW h \in Handlers, Delete(h) PROVE IInv'
<1>1. PICK admin \in Admins : \E id \in DOMAIN users \ {admin} :
        Authorised(h, admin) /\ Hold(h, "delete", [id |-> id])
  BY DEF Delete
<1>2. PICK id \in DOMAIN users \ {admin} :
        Authorised(h, admin) /\ Hold(h, "delete", [id |-> id])
  BY <1>1
<1>3. Race(h) /\ UNCHANGED <<rows, setup, up, crashes>> /\ Admins' = Admins
  BY DEF Delete, rows, Admins
<1>4. ASSUME pc'[h] = "delete", job'[h] = [id |-> id] PROVE Held(h)' /\ Safe(h)'
  BY <1>2, <1>3, <1>4 DEF Held, Safe
<1> QED
  BY <1>2, <1>3, <1>4, ChangeInv DEF Changing

LEMMA OwnershipInv == ASSUME IInv, NEW h \in Handlers, Ownership(h) PROVE IInv'
<1>1. PICK admin \in Admins, c \in Clients : \E id \in (DOMAIN users \ Admins) \cup {Nobody} :
        /\ Authorised(h, admin)
        /\ Hold(h, "own", [id |-> id, client |-> c, found |-> c \in DOMAIN access])
  BY DEF Ownership
<1>2. PICK id \in (DOMAIN users \ Admins) \cup {Nobody} :
        /\ Authorised(h, admin)
        /\ Hold(h, "own", [id |-> id, client |-> c, found |-> c \in DOMAIN access])
  BY <1>1
<1>3. Race(h) /\ UNCHANGED <<users, access, setup, up, crashes>>
  BY DEF Ownership, rows
<1>4. id \in 0 .. MaxUsers
  BY <1>2, BoundsAssumption DEF IInv, TypeOK, RowsType, Nobody
<1>5. ASSUME pc'[h] = "own", job'[h] = [id |-> id, client |-> c, found |-> c \in DOMAIN access]
      PROVE  Held(h)' /\ Safe(h)'
  <2>1. job'[h].id = id /\ job'[h].client = c
    BY <1>5
  <2> QED
    BY <1>2, <1>3, <1>4, <1>5, <2>1 DEF Held, Safe, Nobody
<1> QED
  BY <1>2, <1>3, <1>5, ChangeInv DEF Changing, rows

\* Its commit: unless others change users too, an administrator is left and
\* rows name users who exist.
LEMMA CommitInv ==
    ASSUME IInv, NEW h \in Handlers, pc[h] \in Changing, Finish(h), RowsType',
           users' = [u \in DOMAIN users' |-> users'[u]], access' = [c \in DOMAIN access' |-> access'[c]],
           ~raced => Admins' # {} /\ \A c \in DOMAIN access' : access'[c] \in DOMAIN users',
           UNCHANGED <<setup, up, requests, crashes, raced>>
    PROVE  IInv'
<1>T. /\ RowsType /\ FlagsType /\ ThreadsType /\ BoundsType /\ Functional
      /\ Promoted /\ Solo /\ (\A k \in Handlers : Held(k) /\ Safe(k))
      /\ AdminRemains /\ SetupReachable /\ AccessOwned
  BY DEF IInv, TypeOK, Requests
<1>U. UNCHANGED <<complete, token, up, raced>> /\ complete
  BY <1>T DEF setup, Promoted
<1>1. /\ ThreadsType' /\ job' = [k \in Handlers |-> job'[k]]
      /\ pc'[h] = "idle"
      /\ \A k \in Handlers \ {h} : pc'[k] = pc[k] /\ job'[k] = job[k]
  BY <1>T, HoldMoves DEF Finish
<1>2. Functional' /\ FlagsType' /\ BoundsType'
  BY <1>U, <1>1, <1>T DEF Functional, FlagsType, BoundsType
<1>3. Requests'
  <2>1. Held(h)' /\ Safe(h)'
    BY <1>1 DEF Held, Safe
  <2> QED
    BY <1>U, <1>1, <2>1, Move DEF Changing
<1>4. Promoted' /\ AdminRemains'
  BY <1>U, <1>1, <1>T DEF Promoted, AdminRemains, Changing
<1>5. SetupReachable' /\ AccessOwned'
  BY <1>U, <1>T DEF SetupReachable, AccessOwned
<1> QED
  BY <1>1, <1>2, <1>3, <1>4, <1>5 DEF IInv, TypeOK

LEMMA UpdateCommitInv == ASSUME IInv, NEW h \in Handlers, UpdateCommit(h) PROVE IInv'
<1>T. /\ RowsType /\ FlagsType /\ ThreadsType /\ BoundsType /\ Functional
      /\ Promoted /\ Solo /\ (\A k \in Handlers : Held(k) /\ Safe(k))
      /\ AdminRemains /\ SetupReachable /\ AccessOwned
  BY DEF IInv, TypeOK, Requests
<1>0. /\ pc[h] = "update" /\ Finish(h)
      /\ users' = IF job[h].id \in DOMAIN users /\ job[h].is_admin # job[h].was
                  THEN [users EXCEPT ![job[h].id] = job[h].is_admin] ELSE users
      /\ UNCHANGED <<access, setup, up, requests, crashes, raced>>
  BY DEF UpdateCommit
<1>1. /\ DOMAIN users' = DOMAIN users /\ users' = [u \in DOMAIN users' |-> users'[u]]
      /\ \A u \in DOMAIN users \ {job[h].id} : users'[u] = users[u]
      /\ \A u \in DOMAIN users : users'[u] = users[u] \/ users'[u] = job[h].is_admin
  BY <1>0, <1>T DEF Functional
<1>2. job[h].is_admin \in BOOLEAN
  BY <1>0, <1>T DEF Held
<1>3. RowsType'
  BY <1>0, <1>1, <1>2, <1>T DEF RowsType
<1>4. complete
  BY <1>0, <1>T DEF Promoted, Changing
<1>5. ASSUME ~raced PROVE Admins' # {}
  <2>1. CASE job[h].is_admin
    <3>1. PICK u \in Admins : TRUE
      BY <1>4, <1>5, <1>T DEF AdminRemains
    <3> QED
      BY <1>1, <2>1, <3>1 DEF Admins
  <2>2. CASE \E u \in Admins : u # job[h].id
    BY <1>1, <2>2 DEF Admins
  <2> QED
    BY <1>0, <1>5, <1>T, <2>1, <2>2 DEF Safe
<1>6. ~raced => \A c \in DOMAIN access' : access'[c] \in DOMAIN users'
  BY <1>0, <1>1, <1>T DEF AccessOwned
<1> QED
  BY <1>0, <1>1, <1>3, <1>5, <1>6, <1>T, CommitInv DEF Changing, Functional

LEMMA DeleteCommitInv == ASSUME IInv, NEW h \in Handlers, DeleteCommit(h) PROVE IInv'
<1>T. /\ RowsType /\ FlagsType /\ ThreadsType /\ BoundsType /\ Functional
      /\ Promoted /\ Solo /\ (\A k \in Handlers : Held(k) /\ Safe(k))
      /\ AdminRemains /\ SetupReachable /\ AccessOwned
  BY DEF IInv, TypeOK, Requests
<1>0. /\ pc[h] = "delete" /\ Finish(h)
      /\ users' = Without(users, job[h].id)
      /\ access' = [c \in {c \in DOMAIN access : access[c] # job[h].id} |-> access[c]]
      /\ UNCHANGED <<setup, up, requests, crashes, raced>>
  BY DEF DeleteCommit
<1>1. /\ DOMAIN users' = DOMAIN users \ {job[h].id} /\ users' = [u \in DOMAIN users' |-> users'[u]]
      /\ \A u \in DOMAIN users' : users'[u] = users[u]
  BY <1>0 DEF Without
<1>2. RowsType'
  BY <1>0, <1>1, <1>T DEF RowsType
<1>3. ~raced => Admins' # {}
  BY <1>0, <1>1, <1>T DEF Safe, Admins
<1>4. ~raced => \A c \in DOMAIN access' : access'[c] \in DOMAIN users'
  BY <1>0, <1>1, <1>T DEF AccessOwned
<1>5. access' = [c \in DOMAIN access' |-> access'[c]]
  BY <1>0
<1> QED
  BY <1>0, <1>1, <1>2, <1>3, <1>4, <1>5, CommitInv DEF Changing

LEMMA OwnershipCommitInv == ASSUME IInv, NEW h \in Handlers, OwnershipCommit(h) PROVE IInv'
<1>T. /\ RowsType /\ FlagsType /\ ThreadsType /\ BoundsType /\ Functional
      /\ Promoted /\ Solo /\ (\A k \in Handlers : Held(k) /\ Safe(k))
      /\ AdminRemains /\ SetupReachable /\ AccessOwned
  BY DEF IInv, TypeOK, Requests
<1>0. /\ pc[h] = "own" /\ Finish(h)
      /\ UNCHANGED <<users, setup, up, requests, crashes, raced>>
  BY DEF OwnershipCommit
<1>1. job[h].id \in 0 .. MaxUsers /\ job[h].client \in Clients
  BY <1>0, <1>T DEF Held
<1>2. \/ UNCHANGED access
      \/ access' = Without(access, job[h].client)
      \/ access' = With(access, job[h].client, job[h].id) /\ job[h].id # Nobody
  BY DEF OwnershipCommit
<1>3. /\ access' = [c \in DOMAIN access' |-> access'[c]]
      /\ DOMAIN access' \subseteq Clients
      /\ \A c \in DOMAIN access' :
            \/ c \in DOMAIN access /\ access'[c] = access[c]
            \/ access'[c] = job[h].id /\ job[h].id # Nobody
  <2>1. CASE UNCHANGED access
    BY <2>1, <1>T DEF Functional, RowsType
  <2>2. CASE access' = Without(access, job[h].client)
    BY <2>2, <1>T DEF Without, RowsType
  <2>3. CASE access' = With(access, job[h].client, job[h].id) /\ job[h].id # Nobody
    BY <2>3, <1>1, <1>T DEF With, RowsType
  <2> QED
    BY <1>2, <2>1, <2>2, <2>3
<1>4. job[h].id # Nobody => job[h].id \in 1 .. MaxUsers
  BY <1>1, <1>T, BoundsAssumption DEF Nobody
<1>5. RowsType'
  BY <1>0, <1>3, <1>4, <1>T DEF RowsType
<1>6. ~raced => \A c \in DOMAIN access' : access'[c] \in DOMAIN users'
  BY <1>0, <1>3, <1>T DEF Safe, AccessOwned
<1>7. ~raced => Admins' # {}
  BY <1>0, <1>T DEF AdminRemains, Promoted, Changing, Admins
<1> QED
  BY <1>0, <1>3, <1>5, <1>6, <1>7, <1>T, CommitInv DEF Changing, Functional

-----------------------------------------------------------------------------
(* Boot.                                                                   *)

LEMMA BootAdminInv == ASSUME IInv, BootAdmin PROVE IInv'
<1>T. /\ RowsType /\ FlagsType /\ ThreadsType /\ BoundsType /\ Functional
      /\ Promoted /\ Solo /\ (\A k \in Handlers : Held(k) /\ Safe(k))
      /\ AdminRemains /\ SetupReachable /\ AccessOwned
  BY DEF IInv, TypeOK, Requests
<1>0. /\ ~up /\ users = EmptyTable /\ users' = With(users, 1, TRUE)
      /\ UNCHANGED <<access, complete, token, up, pc, job, requests, crashes, raced>>
  BY DEF BootAdmin, setup, threads
<1>1. 1 \in 1 .. MaxUsers /\ BoundsType'
  BY <1>0, <1>T, BoundsAssumption DEF BoundsType
<1>2. /\ RowsType' /\ users' = [u \in DOMAIN users' |-> users'[u]]
      /\ DOMAIN users' = DOMAIN users \cup {1} /\ Admins \subseteq Admins'
      /\ (\A u \in DOMAIN users : users[u]) => \A u \in DOMAIN users' : users'[u]
  BY <1>0, <1>1, MoreUsers
<1>3. FlagsType' /\ ThreadsType'
  BY <1>0, <1>T DEF FlagsType, ThreadsType
<1>F. Functional'
  <2>1. UNCHANGED <<access, job>>
    BY <1>0
  <2>2. access' = [c \in DOMAIN access' |-> access'[c]] /\ job' = [h \in Handlers |-> job'[h]]
    BY <1>T, <2>1 DEF Functional
  <2> QED
    BY <1>2, <2>2 DEF Functional
<1>4. Requests'
  BY <1>0, <1>T, <1>2 DEF Requests, Solo, Held, Safe
<1>5. Promoted' /\ AdminRemains' /\ SetupReachable' /\ AccessOwned'
  BY <1>0, <1>T, <1>2 DEF Promoted, AdminRemains, SetupReachable, AccessOwned
<1> QED
  BY <1>1, <1>2, <1>3, <1>F, <1>4, <1>5 DEF IInv, TypeOK

LEMMA BootSetupInv == ASSUME IInv, BootSetup PROVE IInv'
<1>T. /\ RowsType /\ FlagsType /\ ThreadsType /\ BoundsType /\ Functional
      /\ Promoted /\ Solo /\ (\A k \in Handlers : Held(k) /\ Safe(k))
      /\ AdminRemains /\ SetupReachable /\ AccessOwned
  BY DEF IInv, TypeOK, Requests
<1>0. /\ ~up /\ up' = TRUE
      /\ IF users = EmptyTable
         THEN token' = TRUE /\ UNCHANGED complete
         ELSE token' = FALSE /\ complete' = TRUE
      /\ UNCHANGED <<users, access, pc, job, requests, crashes, raced>>
  BY DEF BootSetup, rows, threads
<1>1. RowsType' /\ BoundsType' /\ Functional' /\ Admins' = Admins
  BY <1>0, <1>T DEF RowsType, BoundsType, Functional, Admins
<1>2. FlagsType' /\ ThreadsType'
  BY <1>0, <1>T DEF FlagsType, ThreadsType
<1>3. Requests'
  BY <1>0, <1>1, <1>T DEF Requests, Solo, Held, Safe
<1>4. users # EmptyTable /\ ~complete => Admins # {}
  BY <1>T DEF Functional, EmptyTable, Promoted, Admins
<1>5. Promoted' /\ AdminRemains'
  BY <1>0, <1>1, <1>4, <1>T DEF Promoted, AdminRemains
<1>6. SetupReachable' /\ AccessOwned'
  BY <1>0, <1>T DEF SetupReachable, AccessOwned, EmptyTable
<1> QED
  BY <1>1, <1>2, <1>3, <1>5, <1>6 DEF IInv, TypeOK

LEMMA CrashInv == ASSUME IInv, Crash PROVE IInv'
<1>T. /\ RowsType /\ FlagsType /\ ThreadsType /\ BoundsType /\ Functional
      /\ Promoted /\ Solo /\ (\A k \in Handlers : Held(k) /\ Safe(k))
      /\ AdminRemains /\ SetupReachable /\ AccessOwned
  BY DEF IInv, TypeOK, Requests
<1>0. /\ up' = FALSE /\ crashes < MaxCrashes /\ crashes' = crashes + 1
      /\ pc' = [h \in Handlers |-> "idle"] /\ job' = [h \in Handlers |-> EmptyTable]
      /\ UNCHANGED <<users, access, complete, token, requests, raced>>
  BY DEF Crash, rows, setup
<1>1. RowsType' /\ Functional' /\ Admins' = Admins
  BY <1>0, <1>T DEF RowsType, Functional, Admins
<1>2. FlagsType' /\ ThreadsType'
  BY <1>0, <1>T DEF FlagsType, ThreadsType
<1>3. BoundsType'
  BY <1>0, <1>T, BoundsAssumption DEF BoundsType
<1>4. Requests'
  BY <1>0, <1>T DEF Requests, Solo, Held, Safe, Changing
<1>5. Promoted' /\ AdminRemains' /\ SetupReachable' /\ AccessOwned'
  BY <1>0, <1>1, <1>T DEF Promoted, AdminRemains, SetupReachable, AccessOwned, Changing
<1> QED
  BY <1>1, <1>2, <1>3, <1>4, <1>5 DEF IInv, TypeOK

-----------------------------------------------------------------------------
LEMMA InvNext == ASSUME IInv, [Next]_vars PROVE IInv'
<1>1. ASSUME NEW h \in Handlers,
             \/ Setup(h) \/ SetupUser(h) \/ MarkComplete(h) \/ RemoveToken(h)
             \/ Create(h) \/ Update(h) \/ UpdateCommit(h)
             \/ Delete(h) \/ DeleteCommit(h) \/ Ownership(h) \/ OwnershipCommit(h)
      PROVE  IInv'
  BY <1>1, SetupInv, SetupUserInv, MarkCompleteInv, RemoveTokenInv, CreateInv, UpdateInv,
     UpdateCommitInv, DeleteInv, DeleteCommitInv, OwnershipInv, OwnershipCommitInv
<1>2. CASE BootAdmin \/ BootSetup \/ Crash
  BY <1>2, BootAdminInv, BootSetupInv, CrashInv
<1>3. CASE UNCHANGED vars
  BY <1>3 DEF IInv, TypeOK, RowsType, FlagsType, ThreadsType, BoundsType, Functional,
              Promoted, Requests, Solo, Held, Safe, AdminRemains, SetupReachable, AccessOwned,
              Admins, vars, rows, setup, threads
<1> QED
  BY <1>1, <1>2, <1>3 DEF Next

LEMMA Invariant == Spec => []IInv
BY InitInv, InvNext, PTL DEF Spec

\* Rows, flags and threads keep their types, and threads run only in a booted
\* program.
THEOREM TypeCorrect == Spec => []TypeOK
<1>1. IInv => TypeOK
  BY DEF IInv
<1> QED
  BY <1>1, Invariant, PTL

\* Setup is complete only with an administrator, whatever was interrupted and
\* whoever demotes or deletes whom, as long as two such requests do not overlap.
THEOREM AdminStays == Spec => []AdminRemains
<1>1. IInv => AdminRemains
  BY DEF IInv
<1> QED
  BY <1>1, Invariant, PTL

\* A running program whose setup is not complete offers it, whichever step of
\* an earlier attempt was the last.
THEOREM SetupStaysReachable == Spec => []SetupReachable
<1>1. IInv => SetupReachable
  BY DEF IInv
<1> QED
  BY <1>1, Invariant, PTL

\* No client is left with the id of a user who is gone, under the same
\* condition.
THEOREM AccessStaysOwned == Spec => []AccessOwned
<1>1. IInv => AccessOwned
  BY DEF IInv
<1> QED
  BY <1>1, Invariant, PTL
=============================================================================

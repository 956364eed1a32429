-------------------------- MODULE VPNRuntimeProofs --------------------------
(***************************************************************************)
(* Theorems about VPNRuntime for any profiles, threads, process ids and    *)
(* bounds: types, and that no tunnel is lost unless two calls, or a call   *)
(* and a crash, met on its profile, or a failed start left one behind.     *)
(***************************************************************************)
EXTENDS VPNRuntime, TLAPS

\* A thread that is busy works on a profile of the type that its step is for.
Busy ==
    \A t \in Threads :
        /\ pc[t] = "idle" <=> job[t] = NoProfile
        /\ pc[t] \in {"record", "stamp", "poll"} => job[t] \in OpenVPN /\ held[t] \in Pids
        /\ pc[t] = "remove" => job[t] \in OpenVPN
        /\ pc[t] = "configure" => job[t] \in WireGuard

\* Two threads at one profile have marred it.
Alone ==
    \A t, k \in Threads :
        t # k /\ job[t] = job[k] /\ job[t] # NoProfile => job[t] \in marred

Gone(p) == \A pid \in Pids : owner[pid] # p

\* What a call has found or done stays so until its next step: nothing is
\* there when it launches, what it has spawned is the only process, and what
\* it has killed is gone when it removes the files.
Found(t) ==
    job[t] \notin marred =>
        /\ pc[t] = "launch" =>
            (job[t] \in OpenVPN => Gone(job[t])) /\ (job[t] \in WireGuard => link[job[t]] = "none")
        /\ pc[t] \in {"record", "stamp", "poll"} =>
            \A pid \in Pids : owner[pid] = job[t] => pid = held[t]
        /\ pc[t] = "remove" => Gone(job[t])

\* ProcessesNamed and InterfacesServed, of one profile.
Named(p) ==
    \A pid \in Pids : owner[pid] = p /\ p \in OpenVPN =>
        \/ pidFile[p] = pid \/ p \in marred
        \/ \E t \in Threads : pc[t] = "record" /\ job[t] = p /\ held[t] = pid

Served(p) ==
    p \in WireGuard \ marred =>
        /\ link[p] = "bare" => \E t \in Threads : pc[t] = "configure" /\ job[t] = p
        /\ link[p] \in {"up", "live"} => meta[p]

\* WireGuard interfaces belong to no process.
Unheld == \A p \in WireGuard : holder[p] = NoPid

Calls == Busy /\ Alone /\ \A t \in Threads : Found(t)
Tunnels == Unheld /\ \A p \in Profiles : Named(p) /\ Served(p)

IInv == TypeOK /\ Calls /\ Tunnels

-----------------------------------------------------------------------------
\* The constants apart from each other, and the bounds as numbers.
LEMMA Constants ==
    /\ OpenVPN \cap WireGuard = {} /\ Profiles = OpenVPN \cup WireGuard
    /\ Nobody \notin Profiles /\ Foreign \notin Profiles /\ NoProfile \notin Profiles
    /\ NoPid \notin Pids /\ MaxRequests \in Nat /\ MaxFaults \in Nat
BY ProfilesAssumption, BoundsAssumption DEF Profiles

LEMMA InitInv == Init => IInv
<1> SUFFICES ASSUME Init PROVE IInv
  OBVIOUS
<1>1. ProcessesType /\ RecordsType /\ ThreadsType
  BY DEF Init, ProcessesType, RecordsType, ThreadsType
<1>2. BoundsType /\ hung \in [Profiles -> BOOLEAN] /\ marred \subseteq Profiles
  BY Constants DEF Init, BoundsType
<1>3. Calls
  BY DEF Init, Calls, Busy, Alone, Found
<1>4. Tunnels
  BY Constants DEF Init, Tunnels, Unheld, Named, Served
<1> QED
  BY <1>1, <1>2, <1>3, <1>4 DEF IInv, TypeOK

-----------------------------------------------------------------------------
(* What the steps of a call have in common.                                *)

\* A call goes on to a step of its own kind, with the pid it holds.
LEMMA GotoThreads ==
    ASSUME ThreadsType, Busy, Alone, NEW t \in Threads, pc[t] # "idle",
           NEW step \in {"launch", "record", "stamp", "poll", "configure", "remove"}, Goto(t, step),
           step \in {"record", "stamp", "poll", "remove"} => job[t] \in OpenVPN,
           step = "configure" => job[t] \in WireGuard,
           NEW pid \in Pids \cup {NoPid}, held' = [held EXCEPT ![t] = pid],
           step \in {"record", "stamp", "poll"} <=> pid # NoPid,
           UNCHANGED <<job, marred>>
    PROVE  ThreadsType' /\ Busy' /\ Alone'
<1>1. ThreadsType'
  BY DEF ThreadsType, Goto
<1>2. Busy'
  BY DEF ThreadsType, Busy, Goto
<1>3. Alone'
  BY DEF Alone
<1> QED
  BY <1>1, <1>2, <1>3

\* A call returns.
LEMMA FinishThreads ==
    ASSUME ThreadsType, Busy, Alone, NEW t \in Threads, Finish(t),
           \A k \in Threads \ {t} : job[k] \in marred => job[k] \in marred'
    PROVE  ThreadsType' /\ Busy' /\ Alone' /\ (Calls => Found(t)')
<1>1. ThreadsType'
  BY DEF ThreadsType, Finish
<1>2. Busy'
  BY DEF ThreadsType, Busy, Finish
<1>3. Alone'
  BY DEF ThreadsType, Alone, Finish
<1>4. Found(t)'
  BY DEF ThreadsType, Found, Finish
<1> QED
  BY <1>1, <1>2, <1>3, <1>4

\* A step mars or repairs at most its own profile, and repairs none at which
\* another call is in progress.
MarksOwn(t) ==
    /\ \A p \in Profiles \ {job[t]} : p \in marred' <=> p \in marred
    /\ \A k \in Threads \ {t} : job[k] \in marred => job[k] \in marred'
    /\ marred' \subseteq Profiles

\* A step of a call touches its own profile, and may kill any process: the
\* other calls and profiles are as they were.
LEMMA Local ==
    ASSUME IInv, NEW t \in Threads, job[t] \in Profiles, MarksOwn(t),
           \A k \in Threads \ {t} :
               pc'[k] = pc[k] /\ job'[k] = job[k] /\ held'[k] = held[k],
           \A pid \in Pids : owner'[pid] = owner[pid] \/ owner'[pid] \in {Nobody, job[t]},
           \A p \in Profiles \ {job[t]} : pidFile'[p] = pidFile[p] /\ meta'[p] = meta[p],
           \A p \in WireGuard \ {job[t]} : link'[p] = link[p]
    PROVE  /\ \A k \in Threads \ {t} : Found(k)'
           /\ \A p \in Profiles \ {job[t]} : Named(p)' /\ Served(p)'
<1>I. Busy /\ Alone /\ ThreadsType /\ (\A k \in Threads : Found(k))
      /\ (\A p \in Profiles : Named(p) /\ Served(p))
  BY DEF IInv, TypeOK, Calls, Tunnels
<1>1. ASSUME NEW k \in Threads \ {t} PROVE Found(k)'
  <2> SUFFICES ASSUME job[k] \notin marred, pc[k] # "idle" PROVE Found(k)'
    BY <1>1 DEF Found, MarksOwn
  <2>1. job[k] \in Profiles /\ job[k] # job[t]
    BY <1>1, <1>I DEF Busy, Alone, ThreadsType
  <2>2. \A pid \in Pids : owner'[pid] = job[k] => owner[pid] = job[k]
    BY <2>1, Constants
  <2>3. job[k] \in WireGuard => link'[job[k]] = link[job[k]]
    BY <2>1
  <2> QED
    BY <1>1, <1>I, <2>2, <2>3 DEF Found, Gone
<1>2. ASSUME NEW p \in Profiles \ {job[t]} PROVE Named(p)'
  <2>1. \A pid \in Pids : owner'[pid] = p => owner[pid] = p
    BY <1>2, Constants
  <2>2. \A k \in Threads : job[k] = p => pc'[k] = pc[k] /\ job'[k] = job[k] /\ held'[k] = held[k]
    BY <1>2
  <2>3. p \in marred' <=> p \in marred
    BY DEF MarksOwn
  <2> QED
    BY <1>2, <1>I, <2>1, <2>2, <2>3 DEF Named
<1>3. ASSUME NEW p \in Profiles \ {job[t]} PROVE Served(p)'
  <2>1. \A k \in Threads : job[k] = p => pc'[k] = pc[k] /\ job'[k] = job[k]
    BY <1>3
  <2>2. p \in marred' <=> p \in marred
    BY DEF MarksOwn
  <2> QED
    BY <1>3, <1>I, <2>1, <2>2 DEF Served
<1> QED
  BY <1>1, <1>2, <1>3

\* What a step of a call has to keep, then, is what it says of itself.
LEMMA MarkingStep ==
    ASSUME IInv, NEW t \in Threads, NEW own \in Profiles, own = job[t], MarksOwn(t),
           \A k \in Threads \ {t} :
               pc'[k] = pc[k] /\ job'[k] = job[k] /\ held'[k] = held[k],
           \A pid \in Pids : owner'[pid] = owner[pid] \/ owner'[pid] \in {Nobody, own},
           \A p \in Profiles \ {own} : pidFile'[p] = pidFile[p] /\ meta'[p] = meta[p],
           \A p \in WireGuard \ {own} : link'[p] = link[p],
           ProcessesType', RecordsType', BoundsType', hung' \in [Profiles -> BOOLEAN],
           ThreadsType', Busy', Alone', Unheld',
           Found(t)', Named(own)', Served(own)'
    PROVE  IInv'
<1>1. /\ \A k \in Threads \ {t} : Found(k)'
      /\ \A p \in Profiles \ {own} : Named(p)' /\ Served(p)'
  BY Local
<1>2. TypeOK'
  BY DEF IInv, TypeOK, MarksOwn
<1>3. Calls'
  BY <1>1 DEF Calls
<1>4. Tunnels'
  BY <1>1 DEF Tunnels
<1> QED
  BY <1>2, <1>3, <1>4 DEF IInv

\* Most steps mark nothing.
LEMMA CallStep ==
    ASSUME IInv, NEW t \in Threads, NEW own \in Profiles, own = job[t], UNCHANGED marred,
           \A k \in Threads \ {t} :
               pc'[k] = pc[k] /\ job'[k] = job[k] /\ held'[k] = held[k],
           \A pid \in Pids : owner'[pid] = owner[pid] \/ owner'[pid] \in {Nobody, own},
           \A p \in Profiles \ {own} : pidFile'[p] = pidFile[p] /\ meta'[p] = meta[p],
           \A p \in WireGuard \ {own} : link'[p] = link[p],
           ProcessesType', RecordsType', BoundsType', hung' \in [Profiles -> BOOLEAN],
           ThreadsType', Busy', Alone', Unheld',
           Found(t)', Named(own)', Served(own)'
    PROVE  IInv'
<1>1. MarksOwn(t)
  BY DEF MarksOwn, IInv, TypeOK
<1> QED
  BY <1>1, MarkingStep

LEMMA FaultType == ASSUME BoundsType, UNCHANGED requests, Fault \/ UNCHANGED faults
                   PROVE  BoundsType'
BY Constants DEF BoundsType, Fault

\* The facts a step starts from.
LEMMA Facts ==
    ASSUME IInv, NEW t \in Threads, pc[t] # "idle"
    PROVE  /\ ProcessesType /\ RecordsType /\ ThreadsType /\ BoundsType
           /\ hung \in [Profiles -> BOOLEAN]
           /\ Busy /\ Alone /\ Unheld /\ Calls
           /\ Found(t)
           /\ \E own \in Profiles : own = job[t] /\ Named(own) /\ Served(own)
BY DEF IInv, TypeOK, Calls, Tunnels, Busy, ThreadsType

-----------------------------------------------------------------------------
(* start                                                                   *)

\* Only one thread is at a profile that is not marred.
LEMMA Only ==
    ASSUME Alone, NEW t \in Threads, NEW k \in Threads, job[k] = job[t], job[t] # NoProfile,
           job[t] \notin marred
    PROVE  k = t
BY DEF Alone

LEMMA StartCheckInv == ASSUME IInv, NEW t \in Threads, StartCheck(t) PROVE IInv'
<1>0. pc[t] = "start"
  BY DEF StartCheck
<1>F. PICK own \in Profiles :
        /\ ProcessesType /\ RecordsType /\ ThreadsType /\ BoundsType
        /\ hung \in [Profiles -> BOOLEAN]
        /\ Busy /\ Alone /\ Unheld /\ Calls /\ Found(t)
        /\ own = job[t] /\ Named(own) /\ Served(own)
  BY <1>0, Facts
<1>U. UNCHANGED <<owner, old, link, holder, hung, pidFile, meta, requests, faults, marred>>
  BY DEF StartCheck, processes, tunnels, records
<1>1. ProcessesType' /\ RecordsType' /\ BoundsType' /\ Unheld'
  BY <1>F, <1>U DEF ProcessesType, RecordsType, BoundsType, Unheld
<1>2. \A k \in Threads \ {t} : pc'[k] = pc[k] /\ job'[k] = job[k] /\ held'[k] = held[k]
  BY <1>F DEF StartCheck, Finish, Goto, ThreadsType
<1>3. held[t] = NoPid /\ held = [held EXCEPT ![t] = NoPid]
  BY <1>0, <1>F DEF ThreadsType
<1>4. Named(own)' /\ Served(own)'
  BY <1>0, <1>2, <1>F, <1>U DEF Named, Served
<1>5. CASE Finish(t)
  <2>1. ThreadsType' /\ Busy' /\ Alone' /\ Found(t)'
    BY <1>5, <1>F, <1>U, FinishThreads
  <2> QED
    BY <1>1, <1>2, <1>4, <1>F, <1>U, <2>1, CallStep
<1>6. CASE Goto(t, "launch") /\ UNCHANGED <<job, held>>
           /\ ~(IF job[t] \in WireGuard THEN link[job[t]] # "none" ELSE Alive(pidFile[job[t]]))
  <2>1. ThreadsType' /\ Busy' /\ Alone'
    BY <1>6, <1>3, <1>0, <1>F, <1>U, GotoThreads
  <2>2. Found(t)'
    <3> SUFFICES ASSUME job[t] \notin marred
                 PROVE  /\ job[t] \in OpenVPN => Gone(job[t])
                        /\ job[t] \in WireGuard => link[job[t]] = "none"
      BY <1>6, <1>F, <1>U DEF Found, Gone, Goto, ThreadsType
    <3>1. job[t] \in OpenVPN => Gone(job[t])
      <4> SUFFICES ASSUME job[t] \in OpenVPN, NEW pid \in Pids, owner[pid] = job[t]
                   PROVE  FALSE
        BY DEF Gone
      <4>1. \A k \in Threads : job[k] = job[t] => pc[k] = "start"
        BY <1>0, <1>F, Constants, Only
      <4>2. pidFile[job[t]] = pid
        BY <4>1, <1>F DEF Named
      <4>3. Alive(pid)
        BY Constants DEF Alive
      <4> QED
        BY <4>2, <4>3, <1>6, Constants
    <3> QED
      BY <3>1, <1>6
  <2> QED
    BY <1>1, <1>2, <1>4, <1>F, <1>U, <2>1, <2>2, CallStep
<1> QED
  BY <1>5, <1>6 DEF StartCheck

LEMMA SpawnInv == ASSUME IInv, NEW t \in Threads, Spawn(t) PROVE IInv'
<1>0. /\ pc[t] = "launch" /\ job[t] \in OpenVPN
      /\ pidFile' = [pidFile EXCEPT ![job[t]] = NoPid]
      /\ Goto(t, "record")
      /\ UNCHANGED <<link, holder, meta, job, requests, marred>>
  BY DEF Spawn
<1>P. PICK pid \in Pids : /\ owner[pid] = Nobody
                          /\ owner' = [owner EXCEPT ![pid] = job[t]] /\ old' = old \ {pid}
                          /\ held' = [held EXCEPT ![t] = pid]
  BY DEF Spawn, Fresh
<1>F. PICK own \in Profiles :
        /\ ProcessesType /\ RecordsType /\ ThreadsType /\ BoundsType
        /\ hung \in [Profiles -> BOOLEAN]
        /\ Busy /\ Alone /\ Unheld /\ Calls /\ Found(t)
        /\ own = job[t] /\ Named(own) /\ Served(own)
  BY <1>0, Facts
<1>1. ProcessesType' /\ RecordsType'
  BY <1>0, <1>P, <1>F DEF ProcessesType, RecordsType
<1>2. Unheld' /\ hung' \in [Profiles -> BOOLEAN]
  BY <1>0, <1>F DEF Unheld, Spawn
<1>3. BoundsType'
  <2>1. Fault \/ UNCHANGED faults
    BY DEF Spawn
  <2> QED
    BY <1>0, <1>F, <2>1, FaultType
<1>4. ThreadsType' /\ Busy' /\ Alone'
  <2>1. pid # NoPid
    BY Constants
  <2> QED
    BY <1>0, <1>P, <1>F, <2>1, GotoThreads
<1>5. \A k \in Threads \ {t} : pc'[k] = pc[k] /\ job'[k] = job[k] /\ held'[k] = held[k]
  BY <1>0, <1>P, <1>F DEF Goto, ThreadsType
<1>6. /\ \A q \in Pids : owner'[q] = owner[q] \/ owner'[q] \in {Nobody, job[t]}
      /\ \A p \in Profiles \ {job[t]} : pidFile'[p] = pidFile[p] /\ meta'[p] = meta[p]
      /\ \A p \in WireGuard \ {job[t]} : link'[p] = link[p]
  BY <1>0, <1>P, <1>F DEF ProcessesType, RecordsType
\* There was no process, and now there is this one.
<1>7. pc'[t] = "record" /\ job'[t] = job[t] /\ held'[t] = pid
  BY <1>0, <1>P, <1>F DEF Goto, ThreadsType
<1>8. job[t] \notin marred => \A q \in Pids : owner'[q] = job[t] => q = pid
  BY <1>0, <1>P, <1>F DEF Found, Gone, ProcessesType
<1>9. Found(t)'
  BY <1>0, <1>7, <1>8 DEF Found
<1>10. Named(own)' /\ Served(own)'
  BY <1>0, <1>7, <1>8, <1>F, Constants DEF Named, Served
<1> QED
  BY <1>0, <1>1, <1>2, <1>3, <1>4, <1>5, <1>6, <1>9, <1>10, <1>F, CallStep

LEMMA RecordInv == ASSUME IInv, NEW t \in Threads, Record(t) PROVE IInv'
<1>0. /\ pc[t] = "record"
      /\ pidFile' = [pidFile EXCEPT ![job[t]] = held[t]]
      /\ Goto(t, "stamp")
      /\ UNCHANGED <<owner, old, link, holder, hung, meta, job, held, requests, faults, marred>>
  BY DEF Record, processes, tunnels
<1>F. PICK own \in Profiles :
        /\ ProcessesType /\ RecordsType /\ ThreadsType /\ BoundsType
        /\ hung \in [Profiles -> BOOLEAN]
        /\ Busy /\ Alone /\ Unheld /\ Calls /\ Found(t)
        /\ own = job[t] /\ Named(own) /\ Served(own)
  BY <1>0, Facts
<1>1. own \in OpenVPN /\ held[t] \in Pids
  BY <1>0, <1>F DEF Busy
<1>2. ProcessesType' /\ BoundsType' /\ Unheld'
  BY <1>0, <1>F DEF ProcessesType, BoundsType, Unheld
<1>3. RecordsType'
  BY <1>0, <1>1, <1>F DEF RecordsType
<1>4. ThreadsType' /\ Busy' /\ Alone'
  <2>1. held[t] # NoPid /\ held' = [held EXCEPT ![t] = held[t]]
    BY <1>0, <1>1, <1>F, Constants DEF ThreadsType
  <2> QED
    BY <1>0, <1>1, <1>F, <2>1, GotoThreads
<1>5. \A k \in Threads \ {t} : pc'[k] = pc[k] /\ job'[k] = job[k] /\ held'[k] = held[k]
  BY <1>0, <1>F DEF Goto, ThreadsType
<1>6. \A p \in Profiles \ {own} : pidFile'[p] = pidFile[p] /\ meta'[p] = meta[p]
  BY <1>0, <1>F DEF RecordsType
<1>7. pc'[t] = "stamp" /\ pidFile'[own] = held[t]
  BY <1>0, <1>F DEF Goto, ThreadsType, RecordsType
<1>8. Found(t)' /\ Named(own)' /\ Served(own)'
  BY <1>0, <1>1, <1>7, <1>F, Constants DEF Found, Named, Served
<1> QED
  BY <1>0, <1>2, <1>3, <1>4, <1>5, <1>6, <1>8, <1>F, CallStep

LEMMA StampInv == ASSUME IInv, NEW t \in Threads, Stamp(t) PROVE IInv'
<1>0. /\ pc[t] = "stamp"
      /\ meta' = [meta EXCEPT ![job[t]] = TRUE]
      /\ Goto(t, "poll")
      /\ UNCHANGED <<owner, old, link, holder, hung, pidFile, job, held, requests, faults, marred>>
  BY DEF Stamp, processes, tunnels
<1>F. PICK own \in Profiles :
        /\ ProcessesType /\ RecordsType /\ ThreadsType /\ BoundsType
        /\ hung \in [Profiles -> BOOLEAN]
        /\ Busy /\ Alone /\ Unheld /\ Calls /\ Found(t)
        /\ own = job[t] /\ Named(own) /\ Served(own)
  BY <1>0, Facts
<1>1. own \in OpenVPN /\ held[t] \in Pids
  BY <1>0, <1>F DEF Busy
<1>2. ProcessesType' /\ RecordsType' /\ BoundsType' /\ Unheld'
  BY <1>0, <1>F DEF ProcessesType, RecordsType, BoundsType, Unheld
<1>3. ThreadsType' /\ Busy' /\ Alone'
  <2>1. held[t] # NoPid /\ held' = [held EXCEPT ![t] = held[t]]
    BY <1>0, <1>1, <1>F, Constants DEF ThreadsType
  <2> QED
    BY <1>0, <1>1, <1>F, <2>1, GotoThreads
<1>4. \A k \in Threads \ {t} : pc'[k] = pc[k] /\ job'[k] = job[k] /\ held'[k] = held[k]
  BY <1>0, <1>F DEF Goto, ThreadsType
<1>5. \A p \in Profiles \ {own} : pidFile'[p] = pidFile[p] /\ meta'[p] = meta[p]
  BY <1>0, <1>F DEF RecordsType
<1>6. pc'[t] = "poll"
  BY <1>0, <1>F DEF Goto, ThreadsType
<1>7. Named(own)'
  <2> SUFFICES ASSUME NEW pid \in Pids, owner[pid] = own, own \notin marred
               PROVE  pidFile[own] = pid
    BY <1>0 DEF Named
  <2>1. \A k \in Threads : job[k] = own => pc[k] = "stamp"
    BY <1>0, <1>F, Constants, Only
  <2> QED
    BY <1>1, <1>F, <2>1 DEF Named
<1>8. Found(t)' /\ Served(own)'
  BY <1>0, <1>1, <1>6, <1>F, Constants DEF Found, Served
<1> QED
  BY <1>0, <1>2, <1>3, <1>4, <1>5, <1>7, <1>8, <1>F, CallStep

LEMMA PollInv == ASSUME IInv, NEW t \in Threads, Poll(t) PROVE IInv'
<1>0. /\ pc[t] = "poll"
      /\ pidFile' = IF owner[held[t]] # job[t] THEN [pidFile EXCEPT ![job[t]] = NoPid] ELSE pidFile
      /\ Finish(t)
      /\ UNCHANGED <<owner, old, link, holder, hung, meta, requests, faults, marred>>
  BY DEF Poll, processes, tunnels
<1>F. PICK own \in Profiles :
        /\ ProcessesType /\ RecordsType /\ ThreadsType /\ BoundsType
        /\ hung \in [Profiles -> BOOLEAN]
        /\ Busy /\ Alone /\ Unheld /\ Calls /\ Found(t)
        /\ own = job[t] /\ Named(own) /\ Served(own)
  BY <1>0, Facts
<1>1. own \in OpenVPN
  BY <1>0, <1>F DEF Busy
<1>2. ProcessesType' /\ BoundsType' /\ Unheld'
  BY <1>0, <1>F DEF ProcessesType, BoundsType, Unheld
<1>3. RecordsType'
  BY <1>0, <1>F DEF RecordsType
<1>4. ThreadsType' /\ Busy' /\ Alone' /\ Found(t)'
  BY <1>0, <1>F, FinishThreads
<1>5. \A k \in Threads \ {t} : pc'[k] = pc[k] /\ job'[k] = job[k] /\ held'[k] = held[k]
  BY <1>0, <1>F DEF Finish, ThreadsType
<1>6. \A p \in Profiles \ {own} : pidFile'[p] = pidFile[p] /\ meta'[p] = meta[p]
  BY <1>0, <1>F DEF RecordsType
<1>7. Named(own)'
  <2> SUFFICES ASSUME NEW pid \in Pids, owner[pid] = own, own \notin marred
               PROVE  pidFile'[own] = pid
    BY <1>0 DEF Named
  <2>1. pid = held[t]
    BY <1>0, <1>F DEF Found
  <2>2. pidFile' = pidFile
    BY <1>0, <1>F, <2>1
  <2>3. \A k \in Threads : job[k] = own => pc[k] = "poll"
    BY <1>0, <1>F, Constants, Only
  <2> QED
    BY <1>1, <1>F, <2>2, <2>3 DEF Named
<1>8. Served(own)'
  BY <1>1, Constants DEF Served
<1> QED
  BY <1>0, <1>2, <1>3, <1>4, <1>5, <1>6, <1>7, <1>8, <1>F, CallStep

LEMMA CreateInv == ASSUME IInv, NEW t \in Threads, Create(t) PROVE IInv'
<1>0. /\ pc[t] = "launch" /\ job[t] \in WireGuard
      /\ pidFile' = [pidFile EXCEPT ![job[t]] = NoPid]
      /\ meta' = [meta EXCEPT ![job[t]] = FALSE]
      /\ UNCHANGED <<owner, old, holder, hung, requests, faults, marred>>
  BY DEF Create, processes
<1>F. PICK own \in Profiles :
        /\ ProcessesType /\ RecordsType /\ ThreadsType /\ BoundsType
        /\ hung \in [Profiles -> BOOLEAN]
        /\ Busy /\ Alone /\ Unheld /\ Calls /\ Found(t)
        /\ own = job[t] /\ Named(own) /\ Served(own)
  BY <1>0, Facts
<1>1. RecordsType' /\ BoundsType' /\ Unheld'
  BY <1>0, <1>F DEF RecordsType, BoundsType, Unheld
<1>2. \A p \in Profiles \ {own} : pidFile'[p] = pidFile[p] /\ meta'[p] = meta[p]
  BY <1>0, <1>F DEF RecordsType
<1>3. Named(own)'
  BY <1>0, <1>F, Constants DEF Named
<1>4. CASE /\ link' = [link EXCEPT ![job[t]] = "bare"]
           /\ Goto(t, "configure") /\ UNCHANGED <<job, held>>
  <2>1. ThreadsType' /\ Busy' /\ Alone'
    <3>1. held' = [held EXCEPT ![t] = NoPid]
      BY <1>0, <1>4, <1>F DEF ThreadsType
    <3> QED
      BY <1>0, <1>4, <1>F, <3>1, GotoThreads
  <2>2. \A k \in Threads \ {t} : pc'[k] = pc[k] /\ job'[k] = job[k] /\ held'[k] = held[k]
    BY <1>4, <1>F DEF Goto, ThreadsType
  <2>3. ProcessesType' /\ (\A p \in WireGuard \ {own} : link'[p] = link[p]) /\ link'[own] = "bare"
    BY <1>0, <1>4, <1>F, Constants DEF ProcessesType
  <2>4. pc'[t] = "configure" /\ job'[t] = own
    BY <1>4, <1>F DEF Goto, ThreadsType
  <2>5. Found(t)' /\ Served(own)'
    BY <2>3, <2>4 DEF Found, Served
  <2> QED
    BY <1>0, <1>1, <1>2, <1>3, <1>F, <2>1, <2>2, <2>3, <2>5, CallStep
\* Another start was faster.
<1>5. CASE link[job[t]] # "none" /\ Finish(t) /\ UNCHANGED link
  <2>1. ThreadsType' /\ Busy' /\ Alone' /\ Found(t)'
    BY <1>0, <1>5, <1>F, FinishThreads
  <2>2. \A k \in Threads \ {t} : pc'[k] = pc[k] /\ job'[k] = job[k] /\ held'[k] = held[k]
    BY <1>5, <1>F DEF Finish, ThreadsType
  <2>3. ProcessesType'
    BY <1>0, <1>5, <1>F DEF ProcessesType
  <2>4. Served(own)'
    BY <1>0, <1>5, <1>F DEF Found, Served
  <2> QED
    BY <1>0, <1>1, <1>2, <1>3, <1>5, <1>F, <2>1, <2>2, <2>3, <2>4, CallStep
<1> QED
  BY <1>4, <1>5 DEF Create

LEMMA ConfigureInv ==
    ASSUME IInv, NEW t \in Threads, Configure(t) \/ ConfigureFails(t) PROVE IInv'
<1>0. pc[t] = "configure" /\ Finish(t) /\ UNCHANGED <<owner, old, holder, pidFile, requests, marred>>
  BY DEF Configure, ConfigureFails, processes
<1>F. PICK own \in Profiles :
        /\ ProcessesType /\ RecordsType /\ ThreadsType /\ BoundsType
        /\ hung \in [Profiles -> BOOLEAN]
        /\ Busy /\ Alone /\ Unheld /\ Calls /\ Found(t)
        /\ own = job[t] /\ Named(own) /\ Served(own)
  BY <1>0, Facts
<1>1. own \in WireGuard
  BY <1>0, <1>F DEF Busy
<1>2. \/ link' = [link EXCEPT ![own] = "up"] /\ meta' = [meta EXCEPT ![own] = TRUE]
      \/ link' = [link EXCEPT ![own] = "none"] /\ meta' = [meta EXCEPT ![own] = FALSE]
  BY <1>F DEF Configure, ConfigureFails
<1>3. ProcessesType'
  BY <1>0, <1>2, <1>F DEF ProcessesType
<1>4. RecordsType'
  BY <1>0, <1>2, <1>F DEF RecordsType
<1>5. BoundsType'
  <2>1. Fault \/ UNCHANGED faults
    BY DEF Configure, ConfigureFails
  <2> QED
    BY <1>0, <1>F, <2>1, FaultType
<1>6. Unheld' /\ hung' \in [Profiles -> BOOLEAN]
  BY <1>0, <1>F DEF Unheld, Configure, ConfigureFails
<1>7. ThreadsType' /\ Busy' /\ Alone' /\ Found(t)'
  BY <1>0, <1>F, FinishThreads
<1>8. \A k \in Threads \ {t} : pc'[k] = pc[k] /\ job'[k] = job[k] /\ held'[k] = held[k]
  BY <1>0, <1>F DEF Finish, ThreadsType
<1>9. /\ \A p \in Profiles \ {own} : pidFile'[p] = pidFile[p] /\ meta'[p] = meta[p]
      /\ \A p \in WireGuard \ {own} : link'[p] = link[p]
  BY <1>0, <1>2, <1>F, Constants DEF RecordsType, ProcessesType
<1>10. link'[own] = "none" \/ (link'[own] = "up" /\ meta'[own])
  BY <1>2, <1>F DEF ProcessesType, RecordsType
<1>11. Named(own)' /\ Served(own)'
  BY <1>1, <1>10, Constants DEF Named, Served
<1> QED
  BY <1>0, <1>3, <1>4, <1>5, <1>6, <1>7, <1>8, <1>9, <1>11, <1>F, CallStep

LEMMA CleanupFailsInv == ASSUME IInv, NEW t \in Threads, CleanupFails(t) PROVE IInv'
<1>0. /\ pc[t] = "configure" /\ Finish(t) /\ Fault
      /\ marred' = marred \cup {job[t]}
      /\ UNCHANGED <<owner, old, holder, pidFile, requests>>
  BY DEF CleanupFails, processes
<1>F. PICK own \in Profiles :
        /\ ProcessesType /\ RecordsType /\ ThreadsType /\ BoundsType
        /\ hung \in [Profiles -> BOOLEAN]
        /\ Busy /\ Alone /\ Unheld /\ Calls /\ Found(t)
        /\ own = job[t] /\ Named(own) /\ Served(own)
  BY <1>0, Facts
<1>1. PICK state \in {link[own], "up"}, stays \in BOOLEAN, slow \in BOOLEAN :
        /\ link' = [link EXCEPT ![own] = state]
        /\ meta' = [meta EXCEPT ![own] = (stays /\ state = "up")]
        /\ hung' = [hung EXCEPT ![own] = slow]
  BY <1>F DEF CleanupFails
<1>2. own \in WireGuard
  BY <1>0, <1>F DEF Busy
<1>3. MarksOwn(t)
  BY <1>0, <1>F DEF MarksOwn, IInv, TypeOK
<1>4. ProcessesType' /\ Unheld'
  BY <1>0, <1>1, <1>F DEF ProcessesType, Unheld
<1>5. RecordsType' /\ hung' \in [Profiles -> BOOLEAN]
  <2>1. (stays /\ state = "up") \in BOOLEAN
    BY Zenon
  <2> QED
    BY <1>0, <1>1, <2>1, <1>F DEF RecordsType
<1>6. BoundsType'
  BY <1>0, <1>F, FaultType
<1>7. ThreadsType' /\ Busy' /\ Alone' /\ Found(t)'
  BY <1>0, <1>3, <1>F, FinishThreads DEF MarksOwn
<1>8. \A k \in Threads \ {t} : pc'[k] = pc[k] /\ job'[k] = job[k] /\ held'[k] = held[k]
  BY <1>0, <1>F DEF Finish, ThreadsType
<1>9. /\ \A p \in Profiles \ {own} : pidFile'[p] = pidFile[p] /\ meta'[p] = meta[p]
      /\ \A p \in WireGuard \ {own} : link'[p] = link[p]
  BY <1>0, <1>1, <1>F, Constants DEF RecordsType, ProcessesType
<1>10. Named(own)' /\ Served(own)'
  BY <1>0, <1>2, <1>F, Constants DEF Named, Served
<1> QED
  BY <1>0, <1>3, <1>4, <1>5, <1>6, <1>7, <1>8, <1>9, <1>10, <1>F, MarkingStep

-----------------------------------------------------------------------------
(* stop                                                                    *)

LEMMA KillInv == ASSUME IInv, NEW t \in Threads, Kill(t) PROVE IInv'
<1>0. /\ pc[t] = "stop" /\ job[t] \in OpenVPN /\ Goto(t, "remove")
      /\ UNCHANGED <<old, hung, pidFile, meta, job, held, requests, faults, marred>>
  BY DEF Kill, records
<1>F. PICK own \in Profiles :
        /\ ProcessesType /\ RecordsType /\ ThreadsType /\ BoundsType
        /\ hung \in [Profiles -> BOOLEAN]
        /\ Busy /\ Alone /\ Unheld /\ Calls /\ Found(t)
        /\ own = job[t] /\ Named(own) /\ Served(own)
  BY <1>0, Facts
<1>1. \/ /\ Alive(pidFile[own])
         /\ owner' = [owner EXCEPT ![pidFile[own]] = Nobody]
         /\ link' = [p \in Profiles |-> IF holder[p] = pidFile[own] THEN "none" ELSE link[p]]
         /\ holder' = [p \in Profiles |-> IF holder[p] = pidFile[own] THEN NoPid ELSE holder[p]]
      \/ /\ Alive(pidFile[own]) => owner[pidFile[own]] = Foreign
         /\ UNCHANGED <<owner, link, holder>>
  BY <1>F DEF Kill
<1>2. ProcessesType'
  BY <1>0, <1>1, <1>F DEF ProcessesType
<1>3. RecordsType' /\ BoundsType'
  BY <1>0, <1>F DEF RecordsType, BoundsType
<1>4. Unheld' /\ \A p \in WireGuard : link'[p] = link[p]
  BY <1>1, <1>F, Constants DEF Unheld, Alive
<1>5. ThreadsType' /\ Busy' /\ Alone'
  <2>1. held' = [held EXCEPT ![t] = NoPid]
    BY <1>0, <1>F DEF ThreadsType
  <2> QED
    BY <1>0, <1>F, <2>1, GotoThreads
<1>6. \A k \in Threads \ {t} : pc'[k] = pc[k] /\ job'[k] = job[k] /\ held'[k] = held[k]
  BY <1>0, <1>F DEF Goto, ThreadsType
<1>7. \A pid \in Pids : owner'[pid] = owner[pid] \/ owner'[pid] = Nobody
  BY <1>1, <1>F DEF ProcessesType
\* The only process there could be was the recorded one.
<1>8. own \notin marred => Gone(own)'
  <2> SUFFICES ASSUME own \notin marred, NEW pid \in Pids, owner'[pid] = own PROVE FALSE
    BY DEF Gone
  <2>1. owner[pid] = own
    BY <1>7, Constants
  <2>2. \A k \in Threads : job[k] = own => pc[k] = "stop"
    BY <1>0, <1>F, Constants, Only
  <2>3. pidFile[own] = pid
    BY <1>0, <1>F, <2>1, <2>2 DEF Named
  <2>4. Alive(pid)
    BY <2>1, Constants DEF Alive
  <2> QED
    BY <1>1, <1>F, <2>1, <2>3, <2>4, Constants DEF ProcessesType
<1>9. pc'[t] = "remove"
  BY <1>0, <1>F DEF Goto, ThreadsType
<1>10. Found(t)'
  BY <1>0, <1>8, <1>9, <1>F DEF Found, Gone
<1>11. Named(own)' /\ Served(own)'
  BY <1>0, <1>8, <1>F, Constants DEF Named, Served, Gone
<1> QED
  BY <1>0, <1>2, <1>3, <1>4, <1>5, <1>6, <1>7, <1>10, <1>11, <1>F, CallStep

LEMMA RemoveInv == ASSUME IInv, NEW t \in Threads, Remove(t) PROVE IInv'
<1>0. /\ pc[t] = IF job[t] \in OpenVPN THEN "remove" ELSE "stop"
      /\ Finish(t)
      /\ UNCHANGED <<owner, old, requests, faults>>
  BY DEF Remove, processes
<1>F. PICK own \in Profiles :
        /\ ProcessesType /\ RecordsType /\ ThreadsType /\ BoundsType
        /\ hung \in [Profiles -> BOOLEAN]
        /\ Busy /\ Alone /\ Unheld /\ Calls /\ Found(t)
        /\ own = job[t] /\ Named(own) /\ Served(own)
  <2>1. pc[t] # "idle"
    BY <1>0
  <2> QED
    BY <2>1, Facts
<1>1. /\ link' = [link EXCEPT ![own] = "none"] /\ holder' = [holder EXCEPT ![own] = NoPid]
      /\ hung' = [hung EXCEPT ![own] = FALSE]
      /\ pidFile' = [pidFile EXCEPT ![own] = NoPid] /\ meta' = [meta EXCEPT ![own] = FALSE]
  BY <1>F DEF Remove
<1>M. MarksOwn(t) /\ (own \in OpenVPN => marred' = marred)
  <2>1. marred' = marred \ {q \in {own} \cap WireGuard : \A k \in Threads \ {t} : job[k] # own}
    BY <1>F DEF Remove
  <2> QED
    BY <2>1, <1>F, Constants DEF MarksOwn, IInv, TypeOK
<1>2. ProcessesType' /\ BoundsType'
  BY <1>0, <1>1, <1>F DEF ProcessesType, BoundsType
<1>3. RecordsType' /\ hung' \in [Profiles -> BOOLEAN]
  BY <1>1, <1>F DEF RecordsType
<1>4. Unheld'
  BY <1>1, <1>F, Constants DEF Unheld, ProcessesType
<1>5. ThreadsType' /\ Busy' /\ Alone' /\ Found(t)'
  BY <1>0, <1>M, <1>F, FinishThreads DEF MarksOwn
<1>6. \A k \in Threads \ {t} : pc'[k] = pc[k] /\ job'[k] = job[k] /\ held'[k] = held[k]
  BY <1>0, <1>F DEF Finish, ThreadsType
<1>7. /\ \A p \in Profiles \ {own} : pidFile'[p] = pidFile[p] /\ meta'[p] = meta[p]
      /\ \A p \in WireGuard \ {own} : link'[p] = link[p]
      /\ link'[own] = "none"
  BY <1>1, <1>F, Constants DEF RecordsType, ProcessesType
<1>8. own \in OpenVPN /\ own \notin marred => Gone(own)
  BY <1>0, <1>F DEF Found
<1>9. Named(own)' /\ Served(own)'
  BY <1>0, <1>M, <1>7, <1>8 DEF Named, Served, Gone
<1> QED
  BY <1>0, <1>M, <1>2, <1>3, <1>4, <1>5, <1>6, <1>7, <1>9, <1>F, MarkingStep

LEMMA RemoveFailsInv == ASSUME IInv, NEW t \in Threads, RemoveFails(t) PROVE IInv'
<1>0. /\ pc[t] = "stop" /\ job[t] \in WireGuard /\ Finish(t) /\ Fault
      /\ UNCHANGED <<owner, old, link, holder, hung, pidFile, meta, requests, marred>>
  BY DEF RemoveFails, processes, tunnels, records
<1>F. PICK own \in Profiles :
        /\ ProcessesType /\ RecordsType /\ ThreadsType /\ BoundsType
        /\ hung \in [Profiles -> BOOLEAN]
        /\ Busy /\ Alone /\ Unheld /\ Calls /\ Found(t)
        /\ own = job[t] /\ Named(own) /\ Served(own)
  BY <1>0, Facts
<1>1. ProcessesType' /\ RecordsType' /\ Unheld' /\ hung' \in [Profiles -> BOOLEAN]
  BY <1>0, <1>F DEF ProcessesType, RecordsType, Unheld
<1>2. BoundsType'
  BY <1>0, <1>F, FaultType
<1>3. ThreadsType' /\ Busy' /\ Alone' /\ Found(t)'
  BY <1>0, <1>F, FinishThreads
<1>4. \A k \in Threads \ {t} : pc'[k] = pc[k] /\ job'[k] = job[k] /\ held'[k] = held[k]
  BY <1>0, <1>F DEF Finish, ThreadsType
<1>5. Named(own)'
  BY <1>0, <1>F, Constants DEF Named
<1>6. Served(own)'
  BY <1>0, <1>4, <1>F DEF Served
<1> QED
  BY <1>0, <1>1, <1>2, <1>3, <1>4, <1>5, <1>6, <1>F, CallStep

LEMMA StepInv == ASSUME IInv, NEW t \in Threads, Step(t) PROVE IInv'
BY StartCheckInv, SpawnInv, RecordInv, StampInv, PollInv, CreateInv, ConfigureInv,
   CleanupFailsInv, KillInv, RemoveInv, RemoveFailsInv DEF Step

-----------------------------------------------------------------------------
(* A call begins.                                                          *)

LEMMA CallInv ==
    ASSUME IInv, NEW t \in Threads, NEW p \in Profiles, NEW step \in {"start", "stop"},
           Call(t, p, step), BoundsType'
    PROVE  IInv'
<1>T. /\ ProcessesType /\ RecordsType /\ ThreadsType /\ BoundsType
      /\ hung \in [Profiles -> BOOLEAN] /\ marred \subseteq Profiles
      /\ Busy /\ Alone /\ Unheld /\ (\A k \in Threads : Found(k))
      /\ \A q \in Profiles : Named(q) /\ Served(q)
  BY DEF IInv, TypeOK, Calls, Tunnels
<1>0. /\ pc[t] = "idle"
      /\ pc' = [pc EXCEPT ![t] = step] /\ job' = [job EXCEPT ![t] = p]
      /\ marred' = marred \cup {q \in {p} : \E k \in Threads \ {t} : job[k] = p}
      /\ UNCHANGED <<owner, old, link, holder, hung, pidFile, meta, held, faults>>
  BY DEF Call, Goto, Overlap, processes, tunnels, records
<1>1. ProcessesType' /\ RecordsType' /\ hung' \in [Profiles -> BOOLEAN] /\ marred' \subseteq Profiles
  BY <1>0, <1>T DEF ProcessesType, RecordsType
<1>2. ThreadsType'
  BY <1>0, <1>T DEF ThreadsType
<1>3. /\ \A k \in Threads \ {t} : pc'[k] = pc[k] /\ job'[k] = job[k] /\ held'[k] = held[k]
      /\ pc'[t] = step /\ job'[t] = p
  BY <1>0, <1>T DEF ThreadsType
<1>4. Busy'
  BY <1>3, <1>T, Constants DEF Busy
<1>5. Alone'
  BY <1>0, <1>3, <1>T DEF Alone
<1>6. ASSUME NEW k \in Threads PROVE Found(k)'
  BY <1>0, <1>3, <1>T DEF Found, Gone
<1>7. ASSUME NEW q \in Profiles PROVE Named(q)' /\ Served(q)'
  BY <1>0, <1>3, <1>T DEF Named, Served
<1>8. Unheld'
  BY <1>0, <1>T DEF Unheld
<1> QED
  BY <1>1, <1>2, <1>4, <1>5, <1>6, <1>7, <1>8 DEF IInv, TypeOK, Calls, Tunnels

LEMMA RequestInv == ASSUME IInv, NEW t \in Others, Request(t) PROVE IInv'
<1>1. BoundsType'
  BY Constants DEF IInv, TypeOK, BoundsType, Request, Call
<1>2. PICK p \in Profiles, step \in {"start", "stop"} : Call(t, p, step)
  BY DEF Request
<1> QED
  BY <1>1, <1>2, CallInv DEF Threads

LEMMA TickInv == ASSUME IInv, NEW p \in Profiles, TickOf(p) PROVE IInv'
<1>1. PICK step \in {"start", "stop"} : Call(Manager, p, step)
  BY DEF TickOf
<1>2. BoundsType'
  BY <1>1 DEF IInv, TypeOK, BoundsType, TickOf, Call
<1> QED
  BY <1>1, <1>2, CallInv DEF Threads

-----------------------------------------------------------------------------
(* What happens outside of the calls.                                      *)

\* Processes end, and interfaces come and go as far as they work.
LEMMA Outside ==
    ASSUME IInv, ProcessesType', BoundsType', hung' \in [Profiles -> BOOLEAN], Unheld',
           \A pid \in Pids : owner'[pid] = owner[pid] \/ owner'[pid] = Nobody,
           \A p \in WireGuard : link'[p] = link[p] \/ {link[p], link'[p]} \subseteq {"up", "live"},
           UNCHANGED <<records, threads, marred>>
    PROVE  IInv'
<1>T. /\ ProcessesType /\ RecordsType /\ ThreadsType /\ BoundsType
      /\ hung \in [Profiles -> BOOLEAN] /\ marred \subseteq Profiles
      /\ Busy /\ Alone /\ Unheld /\ (\A k \in Threads : Found(k))
      /\ \A q \in Profiles : Named(q) /\ Served(q)
  BY DEF IInv, TypeOK, Calls, Tunnels
<1>0. UNCHANGED <<pidFile, meta, pc, job, held, marred>>
  BY DEF records, threads
<1>1. RecordsType' /\ ThreadsType' /\ marred' \subseteq Profiles
  BY <1>0, <1>T DEF RecordsType, ThreadsType
<1>2. Busy' /\ Alone'
  BY <1>0, <1>T DEF Busy, Alone
<1>3. \A p \in Profiles, pid \in Pids : owner'[pid] = p => owner[pid] = p
  BY Constants
<1>4. ASSUME NEW k \in Threads PROVE Found(k)'
  <2> SUFFICES ASSUME job[k] \notin marred, pc[k] # "idle" PROVE Found(k)'
    BY <1>0 DEF Found
  <2>1. job[k] \in Profiles
    BY <1>T DEF Busy, ThreadsType
  <2>2. job[k] \in WireGuard /\ link[job[k]] = "none" => link'[job[k]] = "none"
    OBVIOUS
  <2> QED
    BY <1>0, <1>3, <1>T, <2>1, <2>2 DEF Found, Gone
<1>5. ASSUME NEW p \in Profiles PROVE Named(p)'
  BY <1>0, <1>3, <1>T DEF Named
<1>6. ASSUME NEW p \in Profiles PROVE Served(p)'
  BY <1>0, <1>T DEF Served
<1> QED
  BY <1>1, <1>2, <1>4, <1>5, <1>6 DEF IInv, TypeOK, Calls, Tunnels

LEMMA EstablishInv == ASSUME IInv, NEW pid \in Pids, Establish(pid) PROVE IInv'
<1>T. /\ ProcessesType /\ RecordsType /\ ThreadsType /\ BoundsType
      /\ hung \in [Profiles -> BOOLEAN] /\ marred \subseteq Profiles
      /\ Busy /\ Alone /\ Unheld /\ (\A k \in Threads : Found(k))
      /\ \A q \in Profiles : Named(q) /\ Served(q)
  BY DEF IInv, TypeOK, Calls, Tunnels
<1>0. owner[pid] \in OpenVPN /\ UNCHANGED <<old, hung, records, threads, requests, faults, marred>>
  BY DEF Establish
<1>1. BoundsType' /\ hung' \in [Profiles -> BOOLEAN]
  BY <1>0, <1>T DEF BoundsType
<1>2. \/ /\ link' = [link EXCEPT ![owner[pid]] = "live"]
         /\ holder' = [holder EXCEPT ![owner[pid]] = pid] /\ UNCHANGED owner
      \/ owner' = [owner EXCEPT ![pid] = Nobody] /\ UNCHANGED <<link, holder>>
  BY DEF Establish
<1>3. ProcessesType'
  BY <1>0, <1>2, <1>T DEF ProcessesType
<1>4. Unheld' /\ \A p \in WireGuard : link'[p] = link[p]
  BY <1>0, <1>2, <1>T, Constants DEF Unheld, ProcessesType
<1>5. \A q \in Pids : owner'[q] = owner[q] \/ owner'[q] = Nobody
  BY <1>2, <1>T DEF ProcessesType
<1> QED
  BY <1>0, <1>1, <1>3, <1>4, <1>5, Outside

LEMMA ExitInv == ASSUME IInv, NEW pid \in Pids, Exit(pid) PROVE IInv'
<1>T. /\ ProcessesType /\ RecordsType /\ ThreadsType /\ BoundsType
      /\ hung \in [Profiles -> BOOLEAN] /\ marred \subseteq Profiles
      /\ Busy /\ Alone /\ Unheld /\ (\A k \in Threads : Found(k))
      /\ \A q \in Profiles : Named(q) /\ Served(q)
  BY DEF IInv, TypeOK, Calls, Tunnels
<1>0. /\ owner' = [owner EXCEPT ![pid] = Nobody]
      /\ link' = [p \in Profiles |-> IF holder[p] = pid THEN "none" ELSE link[p]]
      /\ holder' = [p \in Profiles |-> IF holder[p] = pid THEN NoPid ELSE holder[p]]
      /\ Fault /\ UNCHANGED <<old, hung, records, threads, requests, marred>>
  BY DEF Exit
<1>1. BoundsType' /\ hung' \in [Profiles -> BOOLEAN]
  BY <1>0, <1>T, FaultType
<1>2. ProcessesType'
  BY <1>0, <1>T DEF ProcessesType
<1>3. Unheld' /\ \A p \in WireGuard : link'[p] = link[p]
  BY <1>0, <1>T, Constants DEF Unheld
<1>4. \A q \in Pids : owner'[q] = owner[q] \/ owner'[q] = Nobody
  BY <1>0, <1>T DEF ProcessesType
<1> QED
  BY <1>0, <1>1, <1>2, <1>3, <1>4, Outside

LEMMA LinkInv == ASSUME IInv, NEW p \in Profiles, Handshake(p) \/ Fade(p) PROVE IInv'
<1>T. /\ ProcessesType /\ RecordsType /\ ThreadsType /\ BoundsType
      /\ hung \in [Profiles -> BOOLEAN] /\ marred \subseteq Profiles
      /\ Busy /\ Alone /\ Unheld /\ (\A k \in Threads : Found(k))
      /\ \A q \in Profiles : Named(q) /\ Served(q)
  BY DEF IInv, TypeOK, Calls, Tunnels
<1>0. /\ UNCHANGED <<owner, old, holder, records, threads, requests, marred>>
      /\ \/ link[p] = "up" /\ link' = [link EXCEPT ![p] = "live"]
         \/ link[p] = "live" /\ link' = [link EXCEPT ![p] = "up"]
  BY DEF Handshake, Fade, processes
<1>1. BoundsType'
  <2>1. Fault \/ UNCHANGED faults
    BY DEF Handshake, Fade
  <2> QED
    BY <1>0, <1>T, <2>1, FaultType
<1>2. hung' \in [Profiles -> BOOLEAN]
  BY <1>T DEF Handshake, Fade
<1>3. ProcessesType' /\ Unheld'
  BY <1>0, <1>T DEF ProcessesType, Unheld
<1>4. \A q \in WireGuard : link'[q] = link[q] \/ {link[q], link'[q]} \subseteq {"up", "live"}
  BY <1>0, <1>T, Constants DEF ProcessesType
<1> QED
  BY <1>0, <1>1, <1>2, <1>3, <1>4, Outside

-----------------------------------------------------------------------------
(* Restarts: no thread is left, so what one was about to do is marred.      *)

LEMMA NoThreads ==
    ASSUME IInv, ThreadsGone, ProcessesType', BoundsType', hung' \in [Profiles -> BOOLEAN],
           UNCHANGED records, \A p \in WireGuard : link'[p] = link[p],
           Unheld', marred' \subseteq Profiles, marred \subseteq marred',
           \A p \in WireGuard : p \in InProgress => p \in marred',
           \A p \in OpenVPN : p \in InProgress => p \in marred' \/ Gone(p)',
           \A pid \in Pids : owner'[pid] = owner[pid] \/ owner'[pid] \in {Nobody, Foreign}
    PROVE  IInv'
<1>T. /\ ProcessesType /\ RecordsType /\ ThreadsType /\ BoundsType
      /\ hung \in [Profiles -> BOOLEAN] /\ marred \subseteq Profiles
      /\ Busy /\ Alone /\ Unheld /\ (\A k \in Threads : Found(k))
      /\ \A q \in Profiles : Named(q) /\ Served(q)
  BY DEF IInv, TypeOK, Calls, Tunnels
<1>0. /\ pc' = [t \in Threads |-> "idle"] /\ job' = [t \in Threads |-> NoProfile]
      /\ held' = [t \in Threads |-> NoPid] /\ UNCHANGED <<pidFile, meta>>
  BY DEF ThreadsGone, records
<1>1. RecordsType'
  BY <1>0, <1>T DEF RecordsType
<1>2. ThreadsType' /\ Busy' /\ Alone' /\ \A k \in Threads : Found(k)'
  BY <1>0, Constants DEF ThreadsType, Busy, Alone, Found
<1>3. ASSUME NEW k \in Threads, NEW p \in Profiles, job[k] = p PROVE p \in InProgress
  BY <1>3, Constants DEF InProgress
<1>4. ASSUME NEW p \in Profiles PROVE Named(p)'
  <2> SUFFICES ASSUME NEW pid \in Pids, owner'[pid] = p, p \in OpenVPN, p \notin marred'
               PROVE  pidFile[p] = pid
    BY <1>0 DEF Named
  <2>1. owner[pid] = p
    BY Constants
  <2>2. p \notin InProgress
    BY DEF Gone
  <2> QED
    BY <1>3, <1>T, <2>1, <2>2 DEF Named
<1>5. ASSUME NEW p \in Profiles PROVE Served(p)'
  BY <1>0, <1>3, <1>T DEF Served
<1> QED
  BY <1>1, <1>2, <1>4, <1>5 DEF IInv, TypeOK, Calls, Tunnels

LEMMA RestartInv == ASSUME IInv, WorkerRestart \/ ContainerRestart PROVE IInv'
<1>T. /\ ProcessesType /\ RecordsType /\ ThreadsType /\ BoundsType
      /\ hung \in [Profiles -> BOOLEAN] /\ marred \subseteq Profiles
      /\ Busy /\ Alone /\ Unheld /\ (\A k \in Threads : Found(k))
      /\ \A q \in Profiles : Named(q) /\ Served(q)
  BY DEF IInv, TypeOK, Calls, Tunnels
<1>0. ThreadsGone /\ Fault /\ UNCHANGED <<hung, records, requests>>
  BY DEF WorkerRestart, ContainerRestart, tunnels
<1>1. BoundsType' /\ hung' \in [Profiles -> BOOLEAN]
  BY <1>0, <1>T, FaultType
<1>2. InProgress \subseteq Profiles
  BY <1>T DEF InProgress, ThreadsType
<1>3. CASE WorkerRestart
  <2>1. UNCHANGED <<owner, old, link, holder>> /\ marred' = marred \cup InProgress
    BY <1>3 DEF WorkerRestart, processes, tunnels
  <2>2. ProcessesType' /\ Unheld'
    BY <2>1, <1>T DEF ProcessesType, Unheld
  <2> QED
    BY <1>0, <1>1, <1>2, <1>T, <2>1, <2>2, NoThreads
<1>4. CASE ContainerRestart
  <2>1. /\ old' = {pidFile[p] : p \in Profiles} \ {NoPid}
        /\ link' = [p \in Profiles |-> IF p \in OpenVPN THEN "none" ELSE link[p]]
        /\ holder' = [p \in Profiles |-> NoPid]
        /\ marred' = marred \cup (InProgress \cap WireGuard) \cup Unstamped
    BY <1>4 DEF ContainerRestart
  <2>2. PICK taken \in SUBSET old' :
            owner' = [pid \in Pids |-> IF pid \in taken THEN Foreign ELSE Nobody]
    BY <1>4 DEF ContainerRestart
  <2>3. ProcessesType' /\ Unheld' /\ \A p \in WireGuard : link'[p] = link[p]
    BY <2>1, <2>2, <1>T, Constants DEF ProcessesType, RecordsType, Unheld
  <2>4. \A pid \in Pids : owner'[pid] \in {Nobody, Foreign}
    BY <2>2
  <2>5. \A p \in OpenVPN : Gone(p)'
    BY <2>4, Constants DEF Gone
  <2>6. Unstamped \subseteq Profiles
    BY DEF Unstamped
  <2> QED
    BY <1>0, <1>1, <1>2, <1>T, <2>1, <2>3, <2>4, <2>5, <2>6, NoThreads
<1> QED
  BY <1>3, <1>4

-----------------------------------------------------------------------------
LEMMA InvNext == ASSUME IInv, [Next]_vars PROVE IInv'
<1>1. ASSUME NEW t \in Others, Request(t) PROVE IInv'
  BY <1>1, RequestInv
<1>2. ASSUME NEW p \in Profiles, TickOf(p) PROVE IInv'
  BY <1>2, TickInv
<1>3. ASSUME NEW t \in Threads, Step(t) PROVE IInv'
  BY <1>3, StepInv
<1>4. ASSUME Environment PROVE IInv'
  BY <1>4, EstablishInv, ExitInv, LinkInv, RestartInv DEF Environment
<1>5. CASE UNCHANGED vars
  <2>1. UNCHANGED <<owner, old, link, holder, hung, records, threads, requests, faults, marred>>
    BY <1>5 DEF vars, processes, tunnels
  <2>2. ProcessesType' /\ BoundsType' /\ Unheld' /\ hung' \in [Profiles -> BOOLEAN]
    BY <2>1 DEF IInv, TypeOK, Tunnels, ProcessesType, BoundsType, Unheld
  <2> QED
    BY <2>1, <2>2, Outside
<1> QED
  BY <1>1, <1>2, <1>3, <1>4, <1>5 DEF Next

LEMMA Invariant == Spec => []IInv
BY InitInv, InvNext, PTL DEF Spec

\* Files, interfaces, processes and calls keep their types.
THEOREM TypeCorrect == Spec => []TypeOK
<1>1. IInv => TypeOK
  BY DEF IInv
<1> QED
  BY <1>1, Invariant, PTL

\* Every OpenVPN process is named by its profile's pid file, for any number of
\* profiles, threads, process ids, requests, faults and restarts, unless two
\* calls, or a call and a worker's end, met on the profile: marred.
THEOREM ProcessesAreNamed == Spec => []ProcessesNamed
<1>1. IInv => ProcessesNamed
  BY Constants DEF IInv, Tunnels, Named, ProcessesNamed
<1> QED
  BY <1>1, Invariant, PTL

\* A WireGuard interface is being completed or complete, with its start time,
\* under the same conditions, and unless the clean-up of a failed start failed
\* too; a stop that ends with no other call at the profile lifts the exception.
THEOREM InterfacesAreServed == Spec => []InterfacesServed
<1>1. IInv => InterfacesServed
  BY Constants DEF IInv, Tunnels, Served, InterfacesServed
<1> QED
  BY <1>1, Invariant, PTL
=============================================================================

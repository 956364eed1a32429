----------------------------- MODULE VPNRuntime -----------------------------
(***************************************************************************)
(* VPNRuntimeService (app/services/vpn_runtime.py): OpenVPN processes with *)
(* their pid files, WireGuard interfaces, and the start times kept beside  *)
(* them, under threads that call start and stop without a lock.            *)
(*                                                                         *)
(* The files are in /data and outlive everything. OpenVPN processes are    *)
(* sessions of their own and outlive the gunicorn worker, not the          *)
(* container; WireGuard interfaces are in the host's network namespace and *)
(* outlive both. Time is left out: an attempt that is not hung connects    *)
(* before its timeout.                                                     *)
(***************************************************************************)
EXTENDS Integers

CONSTANTS
    OpenVPN, WireGuard,  \* profiles by vpn_type
    Manager,             \* the resilience thread, which keeps every profile up
    Others,              \* threads that start and stop on request
    Pids,                \* process ids of one life of the container
    MaxRequests, MaxFaults

Profiles == OpenVPN \cup WireGuard
Threads == Others \cup {Manager}
NoPid == 0
Nobody == "nobody"
Foreign == "foreign"     \* a process that is no tunnel's
NoProfile == "none"

ASSUME ProfilesAssumption ==
    /\ OpenVPN \cap WireGuard = {} /\ {Nobody, Foreign, NoProfile} \cap Profiles = {}
    /\ Manager \notin Others
ASSUME BoundsAssumption ==
    /\ Pids \subseteq Nat \ {NoPid} /\ MaxRequests \in Nat /\ MaxFaults \in Nat

VARIABLES
    owner,               \* the profile a process belongs to
    old,                 \* ids in pid files from before the container's last restart
    link, holder,        \* each profile's interface, and the process that has it open
    hung,                \* the attempt in progress will not connect by itself
    pidFile, meta,       \* profile-<id>.pid; whether profile-<id>.json exists
    pc, job, held,       \* each thread's step, its profile and its pid
    requests, faults,    \* bounds on the environment
    marred               \* history: profiles that overlapping calls, a crash or a failed
                         \* clean-up have left in a state nobody repairs, see README

processes == <<owner, old>>
tunnels == <<link, holder, hung>>
records == <<pidFile, meta>>
threads == <<pc, job, held>>
vars == <<processes, tunnels, records, threads, requests, faults, marred>>

-----------------------------------------------------------------------------
Alive(pid) == pid # NoPid /\ owner[pid] # Nobody

\* VPNRuntimeService.status; "stale" is an interface nothing recorded serves.
Status(p) ==
    IF p \in WireGuard
    THEN CASE link[p] = "none" -> "disconnected"
           [] link[p] = "bare" -> "stale"
           [] link[p] = "up" -> "connecting"
           [] link[p] = "live" -> "connected"
    ELSE CASE Alive(pidFile[p]) /\ link[p] = "live" -> "connected"
           [] Alive(pidFile[p]) /\ link[p] # "live" -> "connecting"
           [] ~Alive(pidFile[p]) /\ link[p] # "none" -> "stale"
           [] OTHER -> "disconnected"

Fault == faults < MaxFaults /\ faults' = faults + 1

Goto(t, step) == pc' = [pc EXCEPT ![t] = step]

Finish(t) ==
    /\ pc' = [pc EXCEPT ![t] = "idle"]
    /\ job' = [job EXCEPT ![t] = NoProfile]
    /\ held' = [held EXCEPT ![t] = NoPid]

\* Calls on one profile in progress at once.
Overlap(t, p) ==
    marred' = marred \cup {q \in {p} : \E k \in Threads \ {t} : job[k] = p}

Call(t, p, step) ==
    /\ pc[t] = "idle"
    /\ Goto(t, step) /\ job' = [job EXCEPT ![t] = p]
    /\ Overlap(t, p)
    /\ UNCHANGED <<processes, tunnels, records, held, faults>>

\* A request: connect or disconnect, or a pass of the on-demand manager.
Request(t) ==
    /\ requests < MaxRequests /\ requests' = requests + 1
    /\ \E p \in Profiles, step \in {"start", "stop"} : Call(t, p, step)

\* A timeout that a foreign process with the recorded id never reaches.
TimesOutHung(p) ==
    /\ Status(p) = "connecting" /\ meta[p] /\ hung[p]
    /\ p \in OpenVPN => owner[pidFile[p]] = p

\* A connecting tunnel with a start time may reach the timeout when it is hung
\* or when the recorded process is not the profile's.
TimesOut(p) ==
    /\ Status(p) = "connecting" /\ meta[p]
    /\ hung[p] \/ (p \in OpenVPN /\ owner[pidFile[p]] # p)

\* _tick_profile: a timed-out attempt is stopped, a tunnel that is down started.
TickOf(p) ==
    /\ \/ TimesOut(p) /\ Call(Manager, p, "stop")
       \/ Status(p) \in {"disconnected", "stale"} /\ Call(Manager, p, "start")
    /\ UNCHANGED requests

-----------------------------------------------------------------------------
(* start                                                                   *)

\* A start that trusts the caller's view of the tunnel.
StartUnchecked(t) ==
    /\ pc[t] = "start"
    /\ Goto(t, "launch") /\ UNCHANGED <<job, held>>
    /\ UNCHANGED <<processes, tunnels, records, requests, faults, marred>>

StartCheck(t) ==
    /\ pc[t] = "start"
    /\ LET p == job[t] IN
        IF IF p \in WireGuard THEN link[p] # "none" ELSE Alive(pidFile[p])
        THEN Finish(t)
        ELSE Goto(t, "launch") /\ UNCHANGED <<job, held>>
    /\ UNCHANGED <<processes, tunnels, records, requests, faults, marred>>

\* Ids do not come back before a restart: a new one is none that a file or a
\* thread still holds, but may be one that a file has kept from before.
Fresh ==
    {pid \in Pids : owner[pid] = Nobody /\
        (pid \in old \/ pid \notin {pidFile[p] : p \in Profiles} \cup {held[t] : t \in Threads})}

\* The old pid file is removed and the process spawned.
Spawn(t) ==
    /\ pc[t] = "launch" /\ job[t] \in OpenVPN
    /\ pidFile' = [pidFile EXCEPT ![job[t]] = NoPid]
    /\ \E pid \in Fresh :
        /\ owner' = [owner EXCEPT ![pid] = job[t]] /\ old' = old \ {pid}
        /\ held' = [held EXCEPT ![t] = pid]
    /\ \/ hung' = [hung EXCEPT ![job[t]] = FALSE] /\ UNCHANGED faults
       \/ hung' = [hung EXCEPT ![job[t]] = TRUE] /\ Fault
    /\ Goto(t, "record")
    /\ UNCHANGED <<link, holder, meta, job, requests, marred>>

\* The process group's id recorded as the process's.
RecordGroup(t) ==
    /\ pc[t] = "record"
    /\ pidFile' = [pidFile EXCEPT ![job[t]] = -held[t]]
    /\ Goto(t, "stamp")
    /\ UNCHANGED <<processes, tunnels, meta, job, held, requests, faults, marred>>

Record(t) ==
    /\ pc[t] = "record"
    /\ pidFile' = [pidFile EXCEPT ![job[t]] = held[t]]
    /\ Goto(t, "stamp")
    /\ UNCHANGED <<processes, tunnels, meta, job, held, requests, faults, marred>>

\* The start time is a file of its own; one of an earlier start may be there.
Stamp(t) ==
    /\ pc[t] = "stamp"
    /\ meta' = [meta EXCEPT ![job[t]] = TRUE]
    /\ Goto(t, "poll")
    /\ UNCHANGED <<processes, tunnels, pidFile, job, held, requests, faults, marred>>

\* 0.4 s later: a process that has ended is forgotten.
Poll(t) ==
    /\ pc[t] = "poll"
    /\ pidFile' = IF owner[held[t]] # job[t] THEN [pidFile EXCEPT ![job[t]] = NoPid] ELSE pidFile
    /\ Finish(t)
    /\ UNCHANGED <<processes, tunnels, meta, requests, faults, marred>>

-----------------------------------------------------------------------------
(* _wg_start: the interface is the lock, and its loser cleans up after     *)
(* itself as if the start time were its own.                               *)

Create(t) ==
    /\ pc[t] = "launch" /\ job[t] \in WireGuard
    /\ pidFile' = [pidFile EXCEPT ![job[t]] = NoPid]
    /\ meta' = [meta EXCEPT ![job[t]] = FALSE]
    /\ IF link[job[t]] = "none"
       THEN /\ link' = [link EXCEPT ![job[t]] = "bare"]
            /\ Goto(t, "configure") /\ UNCHANGED <<job, held>>
       ELSE Finish(t) /\ UNCHANGED link
    /\ UNCHANGED <<processes, holder, hung, requests, faults, marred>>

Configure(t) ==
    /\ pc[t] = "configure" /\ link[job[t]] # "none"
    /\ link' = [link EXCEPT ![job[t]] = "up"]
    /\ meta' = [meta EXCEPT ![job[t]] = TRUE]
    /\ \/ hung' = [hung EXCEPT ![job[t]] = FALSE] /\ UNCHANGED faults
       \/ hung' = [hung EXCEPT ![job[t]] = TRUE] /\ Fault
    /\ Finish(t)
    /\ UNCHANGED <<processes, holder, pidFile, requests, marred>>

\* A failure that leaves the interface it has created.
ConfigureLeaves(t) ==
    /\ pc[t] = "configure"
    /\ \/ link[job[t]] = "none" /\ UNCHANGED faults
       \/ Fault
    /\ meta' = [meta EXCEPT ![job[t]] = FALSE]
    /\ Finish(t)
    /\ UNCHANGED <<processes, tunnels, pidFile, requests, marred>>

\* A command fails, or another thread has deleted the interface: what there is
\* of it is deleted.
ConfigureFails(t) ==
    /\ pc[t] = "configure"
    /\ \/ link[job[t]] = "none" /\ UNCHANGED faults
       \/ Fault
    /\ link' = [link EXCEPT ![job[t]] = "none"]
    /\ meta' = [meta EXCEPT ![job[t]] = FALSE]
    /\ Finish(t)
    /\ UNCHANGED <<processes, holder, hung, pidFile, requests, marred>>

\* The clean-up fails as well, and nobody is told: the interface stays, as far
\* as it had come, and its start time if the clean-up ended in a timeout.
CleanupFails(t) ==
    /\ pc[t] = "configure" /\ link[job[t]] # "none"
    /\ Fault
    /\ \E state \in {link[job[t]], "up"}, stays, slow \in BOOLEAN :
        /\ link' = [link EXCEPT ![job[t]] = state]
        /\ meta' = [meta EXCEPT ![job[t]] = (stays /\ state = "up")]
        /\ hung' = [hung EXCEPT ![job[t]] = slow]
    /\ marred' = marred \cup {job[t]}
    /\ Finish(t)
    /\ UNCHANGED <<processes, holder, pidFile, requests>>

-----------------------------------------------------------------------------
(* stop                                                                    *)

\* SIGTERM, and SIGKILL after 5 s, to the process group of the recorded id. A
\* foreign process may not lead a group; then nothing is killed.
Kill(t) ==
    /\ pc[t] = "stop" /\ job[t] \in OpenVPN
    /\ LET pid == pidFile[job[t]] IN
        \/ /\ Alive(pid)
           /\ owner' = [owner EXCEPT ![pid] = Nobody]
           /\ link' = [p \in Profiles |-> IF holder[p] = pid THEN "none" ELSE link[p]]
           /\ holder' = [p \in Profiles |-> IF holder[p] = pid THEN NoPid ELSE holder[p]]
        \/ /\ Alive(pid) => owner[pid] = Foreign
           /\ UNCHANGED <<owner, link, holder>>
    /\ Goto(t, "remove")
    /\ UNCHANGED <<old, hung, records, job, held, requests, faults, marred>>

\* Whatever interface is left is deleted and the files are removed. Nothing is
\* left of a WireGuard tunnel then.
Remove(t) ==
    /\ pc[t] = IF job[t] \in OpenVPN THEN "remove" ELSE "stop"
    /\ LET p == job[t] IN
        /\ link' = [link EXCEPT ![p] = "none"] /\ holder' = [holder EXCEPT ![p] = NoPid]
        /\ hung' = [hung EXCEPT ![p] = FALSE]
        /\ pidFile' = [pidFile EXCEPT ![p] = NoPid] /\ meta' = [meta EXCEPT ![p] = FALSE]
        /\ marred' = marred \ {q \in {p} \cap WireGuard : \A k \in Threads \ {t} : job[k] # p}
    /\ Finish(t)
    /\ UNCHANGED <<processes, requests, faults>>

\* A WireGuard interface that cannot be deleted: stop raises.
RemoveFails(t) ==
    /\ pc[t] = "stop" /\ job[t] \in WireGuard /\ link[job[t]] # "none"
    /\ Fault
    /\ Finish(t)
    /\ UNCHANGED <<processes, tunnels, records, requests, marred>>

Step(t) ==
    \/ StartCheck(t) \/ Spawn(t) \/ Record(t) \/ Stamp(t) \/ Poll(t)
    \/ Create(t) \/ Configure(t) \/ ConfigureFails(t) \/ CleanupFails(t)
    \/ Kill(t) \/ Remove(t) \/ RemoveFails(t)

-----------------------------------------------------------------------------
(* Processes, the network and the container.                               *)

\* The handshake succeeds; a process that finds its device open elsewhere ends.
Establish(pid) ==
    /\ owner[pid] \in OpenVPN
    /\ LET p == owner[pid] IN
        /\ holder[p] # pid
        /\ IF holder[p] = NoPid
           THEN /\ ~hung[p]
                /\ link' = [link EXCEPT ![p] = "live"] /\ holder' = [holder EXCEPT ![p] = pid]
                /\ UNCHANGED owner
           ELSE owner' = [owner EXCEPT ![pid] = Nobody] /\ UNCHANGED <<link, holder>>
    /\ UNCHANGED <<old, hung, records, threads, requests, faults, marred>>

Handshake(p) ==
    /\ p \in WireGuard /\ link[p] = "up" /\ ~hung[p]
    /\ link' = [link EXCEPT ![p] = "live"]
    /\ UNCHANGED <<processes, holder, hung, records, threads, requests, faults, marred>>

\* A refused login, a crash of openvpn.
Exit(pid) ==
    /\ owner[pid] \in OpenVPN /\ Fault
    /\ owner' = [owner EXCEPT ![pid] = Nobody]
    /\ link' = [p \in Profiles |-> IF holder[p] = pid THEN "none" ELSE link[p]]
    /\ holder' = [p \in Profiles |-> IF holder[p] = pid THEN NoPid ELSE holder[p]]
    /\ UNCHANGED <<old, hung, records, threads, requests, marred>>

\* No handshake for three minutes: the peer is gone.
Fade(p) ==
    /\ p \in WireGuard /\ link[p] = "live" /\ Fault
    /\ link' = [link EXCEPT ![p] = "up"] /\ hung' = [hung EXCEPT ![p] = TRUE]
    /\ UNCHANGED <<processes, holder, records, threads, requests, marred>>

ThreadsGone ==
    /\ pc' = [t \in Threads |-> "idle"] /\ job' = [t \in Threads |-> NoProfile]
    /\ held' = [t \in Threads |-> NoPid]

InProgress == {job[t] : t \in Threads} \ {NoProfile}

\* Recorded without any start time: a foreign process that takes the id is for
\* ever a tunnel that connects.
Unstamped == {p \in Profiles : ~meta[p] /\ \E t \in Threads : pc[t] = "stamp" /\ job[t] = p}

\* gunicorn replaces its worker; tunnels stay.
WorkerRestart ==
    /\ Fault
    /\ ThreadsGone
    /\ marred' = marred \cup InProgress
    /\ UNCHANGED <<processes, tunnels, records, requests>>

\* The container restarts: every process is gone and ids begin anew; some are
\* taken by processes of the container's own.
ContainerRestart ==
    /\ Fault
    /\ ThreadsGone
    /\ old' = {pidFile[p] : p \in Profiles} \ {NoPid}
    /\ \E taken \in SUBSET old' :
        owner' = [pid \in Pids |-> IF pid \in taken THEN Foreign ELSE Nobody]
    /\ link' = [p \in Profiles |-> IF p \in OpenVPN THEN "none" ELSE link[p]]
    /\ holder' = [p \in Profiles |-> NoPid]
    /\ marred' = marred \cup (InProgress \cap WireGuard) \cup Unstamped
    /\ UNCHANGED <<hung, records, requests>>

-----------------------------------------------------------------------------
Init ==
    /\ owner = [pid \in Pids |-> Nobody] /\ old = {}
    /\ link = [p \in Profiles |-> "none"] /\ holder = [p \in Profiles |-> NoPid]
    /\ hung = [p \in Profiles |-> FALSE]
    /\ pidFile = [p \in Profiles |-> NoPid] /\ meta = [p \in Profiles |-> FALSE]
    /\ pc = [t \in Threads |-> "idle"] /\ job = [t \in Threads |-> NoProfile]
    /\ held = [t \in Threads |-> NoPid]
    /\ requests = 0 /\ faults = 0
    /\ marred = {}

Environment ==
    \/ \E pid \in Pids : Establish(pid) \/ Exit(pid)
    \/ \E p \in Profiles : Handshake(p) \/ Fade(p)
    \/ WorkerRestart \/ ContainerRestart

Next ==
    \/ \E t \in Others : Request(t)
    \/ \E p \in Profiles : TickOf(p)
    \/ \E t \in Threads : Step(t)
    \/ Environment

Spec == Init /\ [][Next]_vars
FairSpec ==
    /\ Spec
    /\ \A t \in Threads : WF_vars(Step(t))
    /\ \A p \in Profiles : SF_vars(TickOf(p)) /\ WF_vars(Handshake(p))
    /\ \A pid \in Pids : WF_vars(Establish(pid))

-----------------------------------------------------------------------------
(* Properties.                                                             *)

ProcessesType ==
    /\ owner \in [Pids -> OpenVPN \cup {Nobody, Foreign}] /\ old \subseteq Pids
    /\ link \in [Profiles -> {"none", "bare", "up", "live"}]
    /\ holder \in [Profiles -> Pids \cup {NoPid}]

RecordsType == pidFile \in [Profiles -> Pids \cup {NoPid}] /\ meta \in [Profiles -> BOOLEAN]

ThreadsType ==
    /\ pc \in [Threads -> {"idle", "start", "launch", "record", "stamp", "poll", "configure",
                            "stop", "remove"}]
    /\ job \in [Threads -> Profiles \cup {NoProfile}] /\ held \in [Threads -> Pids \cup {NoPid}]
    /\ \A t \in Threads : held[t] # NoPid => pc[t] \in {"record", "stamp", "poll"}

BoundsType == requests \in 0 .. MaxRequests /\ faults \in 0 .. MaxFaults

\* Files name ids, threads work on profiles, only OpenVPN has processes.
TypeOK ==
    /\ ProcessesType /\ RecordsType /\ ThreadsType /\ BoundsType
    /\ hung \in [Profiles -> BOOLEAN] /\ marred \subseteq Profiles

\* Every OpenVPN process is the one its profile's pid file names, so that the
\* next stop ends it: starts and stops one after the other, exits, failures
\* and restarts of the worker or the container never lose one. Only two calls
\* at once, or a worker that dies inside a call, do.
ProcessesNamed ==
    \A pid \in Pids : owner[pid] \in OpenVPN =>
        LET p == owner[pid] IN
        \/ pidFile[p] = pid \/ p \in marred
        \/ \E t \in Threads : pc[t] = "record" /\ job[t] = p /\ held[t] = pid

\* A WireGuard interface is complete or being completed, and has the start
\* time without which no connecting timeout ever recycles it, through failed
\* starts, failed stops, timeouts and restarts. Excepted are two calls at once,
\* a crash inside a call, and a failed start whose clean-up fails too; the next
\* undisturbed stop ends the exception.
InterfacesServed ==
    \A p \in WireGuard \ marred :
        /\ link[p] = "bare" => \E t \in Threads : pc[t] = "configure" /\ job[t] = p
        /\ link[p] \in {"up", "live"} => meta[p]

\* The resilience thread brings every other profile up for good, although a
\* pid file from before a container restart may name a foreign process,
\* attempts hang and interfaces survive what made them. What it does not
\* repair is excepted by marred: a WireGuard interface that a failed clean-up,
\* a crash or two calls have left, which makes every start refuse, and an
\* OpenVPN process recorded without a start time. (Fresh = {}: the bound Pids
\* is reached.)
Recovers == \A p \in Profiles : <>[](p \in marred \/ Fresh = {} \/ Status(p) = "connected")
=============================================================================

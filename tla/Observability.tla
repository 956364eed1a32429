---------------------------- MODULE Observability ----------------------------
(***************************************************************************)
(* ObservabilityService (app/services/observability.py): a loop and the    *)
(* requests look at a tunnel, probe through it for seconds, and publish    *)
(* what they found in caches that pages show (app/vpn_profiles.py), while  *)
(* tunnels, policies and rows change.                                      *)
(*                                                                         *)
(* One profile with its exit address and one routing group of it with its  *)
(* DNS verdict. A row keeps its key when it is deleted and made anew.      *)
(***************************************************************************)
EXTENDS Integers

CONSTANTS
    Handlers,               \* request threads
    Loop,                   \* the thread of the service
    Exits,                  \* public addresses that a connection may leave by
    Resolvers,              \* resolvers that a group's DNS policy may force
    MaxEvents, MaxFaults

Actors == Handlers \cup {Loop}
Nothing == "none"           \* no row, no tunnel, no cached state
Failed == "failed"          \* a probe without an answer
Inherit == "inherit"        \* a DNS policy without a target
Policies == Resolvers \cup {Inherit}

VARIABLES
    profile,                \* the row exists
    group,                  \* the group's DNS policy (effective_dns_target)
    tunnel,                 \* the exit of a connected tunnel
    exits, dns,             \* the cached states of the profile and of the group
    pc, job,                \* each thread's step, and what it has read
    events, faults,         \* bounds
    sound                   \* history: caches whose last probe saw what is still so

rows == <<profile, group>>
caches == <<exits, dns>>
threads == <<pc, job>>
bounds == <<events, faults>>
vars == <<rows, tunnel, caches, threads, bounds, sound>>

-----------------------------------------------------------------------------
NoJob == [active |-> FALSE, target |-> Nothing, answer |-> Nothing, quiet |-> FALSE]

Goto(a, step) == pc' = [pc EXCEPT ![a] = step]
Hold(a, step, key, value) == Goto(a, step) /\ job' = [job EXCEPT ![a][key] = value]
Finish(a) == Goto(a, "idle") /\ job' = [job EXCEPT ![a] = NoJob]

\* What a probe through the interface finds: the exit of the tunnel that has
\* it by now, if any.
Probe(found) ==
    \/ found = (IF tunnel = Nothing THEN Failed ELSE tunnel) /\ UNCHANGED faults
    \/ found = Failed /\ tunnel # Nothing /\ faults < MaxFaults /\ faults' = faults + 1

ExitSteps == {"exit_probe", "exit_publish"}
DnsSteps == {"dns_probe", "dns_publish"}

\* What threads at these steps have looked at is no longer so.
Disturb(steps) ==
    job' = [a \in Actors |-> [job[a] EXCEPT !.quiet = @ /\ pc[a] \notin steps]]

-----------------------------------------------------------------------------
(* _refresh_exit_ips. Values that are not set keep those of the last state. *)

NoExit == [cached |-> FALSE, connected |-> FALSE, checking |-> FALSE, probe |-> Nothing, ip |-> Nothing]
Observed == [exits EXCEPT !.cached = TRUE]

ReadProfiles ==
    /\ pc[Loop] = "idle"
    /\ Hold(Loop, IF profile THEN "exit_status" ELSE "exit_prune", "active", profile)
    /\ UNCHANGED <<rows, tunnel, caches, bounds, sound>>

\* A look that trusts what it has found before.
ExitStatusOnce ==
    /\ pc[Loop] = "exit_status"
    /\ IF tunnel = Nothing \/ exits.probe = "ok"
       THEN /\ exits' = [Observed EXCEPT !.connected = (tunnel # Nothing), !.checking = FALSE]
            /\ Goto(Loop, "exit_prune") /\ UNCHANGED job
       ELSE /\ exits' = [Observed EXCEPT !.connected = TRUE, !.checking = TRUE]
            /\ Hold(Loop, "exit_probe", "quiet", TRUE)
    /\ UNCHANGED <<rows, tunnel, dns, bounds, sound>>

ExitStatus ==
    /\ pc[Loop] = "exit_status"
    /\ IF tunnel = Nothing
       THEN /\ exits' = [Observed EXCEPT !.connected = FALSE, !.checking = FALSE]
            /\ Goto(Loop, "exit_prune") /\ UNCHANGED job
       ELSE /\ exits' = [Observed EXCEPT !.connected = TRUE, !.checking = TRUE]
            /\ Hold(Loop, "exit_probe", "quiet", TRUE)
    /\ UNCHANGED <<rows, tunnel, dns, bounds, sound>>

ExitProbe ==
    /\ pc[Loop] = "exit_probe"
    /\ \E found \in Exits \cup {Failed} :
        Probe(found) /\ Hold(Loop, "exit_publish", "answer", found)
    /\ UNCHANGED <<rows, tunnel, caches, events, sound>>

\* A failure keeps the address of the last success.
ExitPublish ==
    /\ pc[Loop] = "exit_publish"
    /\ LET found == job[Loop].answer IN
        exits' = [cached |-> TRUE, connected |-> TRUE, checking |-> FALSE,
                  probe |-> IF found = Failed THEN Failed ELSE "ok",
                  ip |-> IF found = Failed THEN exits.ip ELSE found]
    /\ sound' = IF job[Loop].quiet THEN sound \cup {"exit"} ELSE sound \ {"exit"}
    /\ Goto(Loop, "exit_prune") /\ UNCHANGED job
    /\ UNCHANGED <<rows, tunnel, dns, bounds>>

\* The state of a profile that was gone when the pass began.
ExitPrune ==
    /\ pc[Loop] = "exit_prune"
    /\ exits' = IF job[Loop].active THEN exits ELSE NoExit
    /\ Goto(Loop, "groups") /\ job' = [job EXCEPT ![Loop] = NoJob]
    /\ UNCHANGED <<rows, tunnel, dns, bounds, sound>>

-----------------------------------------------------------------------------
(* _refresh_dns and refresh_dns_group.                                     *)

NoDns == [cached |-> FALSE, checking |-> FALSE, state |-> Nothing,
          resolvers |-> Nothing, exit |-> Nothing, configured |-> Nothing]

\* _set_dns_group_state: what a result does not set stays, the exit of the last
\* answer and the configured resolver of the last policy that had one.
Unavailable ==
    [dns EXCEPT !.cached = TRUE, !.checking = FALSE, !.state = Failed, !.resolvers = Nothing]
Answered(policy, exit) ==
    [Unavailable EXCEPT !.state = "ok", !.resolvers = policy, !.exit = exit]
Configured(state, policy) ==
    [state EXCEPT !.configured = IF policy = Inherit THEN @ ELSE policy]

\* The list of groups, by which the pass prunes at its end too.
ReadGroups ==
    /\ pc[Loop] = "groups"
    /\ IF group = Nothing
       THEN Goto(Loop, "dns_prune") /\ UNCHANGED job
       ELSE /\ Goto(Loop, "dns_read")
            /\ job' = [job EXCEPT ![Loop].target = group, ![Loop].active = TRUE]
    /\ UNCHANGED <<rows, tunnel, caches, bounds, sound>>

Button(h) ==
    /\ pc[h] = "idle" /\ group # Nothing
    /\ events < MaxEvents /\ events' = events + 1
    /\ Hold(h, "dns_read", "target", group)
    /\ UNCHANGED <<rows, tunnel, caches, faults, sound>>

\* What follows a thread's probe.
Done(a) == IF a = Loop THEN Goto(Loop, "dns_prune") /\ UNCHANGED job ELSE Finish(a)

\* The policy of the group as the caller has it.
DnsReadGiven(a) ==
    /\ pc[a] = "dns_read"
    /\ IF tunnel = Nothing
       THEN dns' = Unavailable /\ Done(a)
       ELSE /\ dns' = [dns EXCEPT !.cached = TRUE, !.checking = TRUE]
            /\ Goto(a, "dns_probe")
            /\ job' = [job EXCEPT ![a].quiet = TRUE]
    /\ UNCHANGED <<rows, tunnel, exits, bounds, sound>>

\* The group is read again; only one that is gone is taken as it was.
DnsRead(a) ==
    /\ pc[a] = "dns_read"
    /\ IF tunnel = Nothing
       THEN dns' = Unavailable /\ Done(a)
       ELSE /\ dns' = [dns EXCEPT !.cached = TRUE, !.checking = TRUE]
            /\ Goto(a, "dns_probe")
            /\ job' = [job EXCEPT ![a].quiet = TRUE,
                                  ![a].target = IF group = Nothing THEN @ ELSE group]
    /\ UNCHANGED <<rows, tunnel, exits, bounds, sound>>

\* The group exits by the WAN by now: ValueError, which ends the loop's pass.
DnsRaises(a) ==
    /\ pc[a] = "dns_read" /\ group = Nothing
    /\ Finish(a)
    /\ UNCHANGED <<rows, tunnel, caches, bounds, sound>>

DnsProbe(a) ==
    /\ pc[a] = "dns_probe"
    /\ \E found \in Exits \cup {Failed} :
        Probe(found) /\ Hold(a, "dns_publish", "answer", found)
    /\ UNCHANGED <<rows, tunnel, caches, events, sound>>

DnsPublish(a) ==
    /\ pc[a] = "dns_publish"
    /\ LET policy == job[a].target
           found == job[a].answer
       IN  dns' = Configured(IF found = Failed THEN Unavailable ELSE Answered(policy, found), policy)
    /\ sound' = IF job[a].quiet THEN sound \cup {"dns"} ELSE sound \ {"dns"}
    /\ Done(a)
    /\ UNCHANGED <<rows, tunnel, exits, bounds>>

\* A state of a group that was made after the list was read goes too.
DnsPrune ==
    /\ pc[Loop] = "dns_prune"
    /\ IF job[Loop].active THEN UNCHANGED <<dns, sound>>
                           ELSE dns' = NoDns /\ sound' = sound \ {"dns"}
    /\ Finish(Loop)
    /\ UNCHANGED <<rows, tunnel, exits, bounds>>

DnsStep(a) == DnsRead(a) \/ DnsRaises(a) \/ DnsProbe(a) \/ DnsPublish(a)

LoopStep ==
    \/ ReadProfiles \/ ExitStatus \/ ExitProbe \/ ExitPublish \/ ExitPrune
    \/ ReadGroups \/ DnsStep(Loop) \/ DnsPrune

-----------------------------------------------------------------------------
(* Tunnels and rows.                                                       *)

Event == events < MaxEvents /\ events' = events + 1 /\ UNCHANGED faults

TunnelChanges ==
    /\ Event
    /\ tunnel' \in ((IF profile THEN Exits ELSE {}) \cup {Nothing}) \ {tunnel}
    /\ Disturb(ExitSteps \cup DnsSteps) /\ sound' = {}
    /\ UNCHANGED <<rows, caches, pc>>

\* A policy is changed, a group made, deleted or moved to the WAN.
EditGroup ==
    /\ Event
    /\ group' \in ((IF profile THEN Policies ELSE {}) \cup {Nothing}) \ {group}
    /\ Disturb(DnsSteps) /\ sound' = sound \ {"dns"}
    /\ UNCHANGED <<profile, tunnel, caches, pc>>

\* A profile that a group names is not deleted.
EditProfile ==
    /\ Event
    /\ group = Nothing
    /\ profile' = ~profile /\ tunnel' = Nothing
    /\ Disturb(ExitSteps \cup DnsSteps) /\ sound' = {}
    /\ UNCHANGED <<group, caches, pc>>

\* A restore replaces rows whose keys may be the same and stops tunnels.
Restore(h) ==
    /\ Event
    /\ pc[h] = "idle" /\ Goto(h, "invalidate")
    /\ profile' \in BOOLEAN /\ tunnel' = Nothing
    /\ group' \in (IF profile' THEN Policies ELSE {}) \cup {Nothing}
    /\ Disturb(ExitSteps \cup DnsSteps) /\ sound' = {}
    /\ UNCHANGED caches

\* invalidate_profiles with the profiles that there are now.
Invalidate(h) ==
    /\ pc[h] = "invalidate"
    /\ exits' = IF profile THEN exits ELSE NoExit
    /\ Finish(h)
    /\ UNCHANGED <<rows, tunnel, dns, bounds, sound>>

Init ==
    /\ profile \in BOOLEAN
    /\ group \in (IF profile THEN Policies ELSE {}) \cup {Nothing}
    /\ tunnel = Nothing /\ exits = NoExit /\ dns = NoDns
    /\ pc = [a \in Actors |-> "idle"] /\ job = [a \in Actors |-> NoJob]
    /\ events = 0 /\ faults = 0
    /\ sound = {}

Next ==
    \/ LoopStep
    \/ \E h \in Handlers : Button(h) \/ DnsStep(h) \/ Restore(h) \/ Invalidate(h)
    \/ TunnelChanges \/ EditGroup \/ EditProfile

Spec == Init /\ [][Next]_vars
FairSpec == Spec /\ WF_vars(LoopStep)

-----------------------------------------------------------------------------
(* Properties.                                                             *)

\* Threads hold what their steps have read, and caches what was published.
TypeOK ==
    /\ profile \in BOOLEAN /\ group \in Policies \cup {Nothing}
    /\ tunnel \in Exits \cup {Nothing}
    /\ ~profile => group = Nothing /\ tunnel = Nothing
    /\ exits \in [cached : BOOLEAN, connected : BOOLEAN, checking : BOOLEAN,
                  probe : {"ok", Failed, Nothing}, ip : Exits \cup {Nothing}]
    /\ exits.probe = "ok" => exits.ip # Nothing
    /\ dns \in [cached : BOOLEAN, checking : BOOLEAN, state : {"ok", Failed, Nothing},
                resolvers : Policies \cup {Nothing}, exit : Exits \cup {Nothing},
                configured : Resolvers \cup {Nothing}]
    /\ dns.state = "ok" <=> dns.resolvers # Nothing
    /\ \A a \in Actors :
        /\ pc[a] \in {"exit_publish", "dns_publish"} => job[a].answer # Nothing
        /\ pc[a] \in {"dns_read"} \cup DnsSteps => job[a].target # Nothing
    /\ sound \subseteq {"exit", "dns"}

\* _display_health_state
Shown ==
    CASE tunnel = Nothing -> "down"
      [] tunnel # Nothing /\ (exits.checking \/ ~exits.connected) -> "verifying"
      [] OTHER -> IF exits.probe = "ok" THEN "connected" ELSE "degraded"

\* Pages show an exit address only if the present connection leaves by it, and
\* a positive DNS verdict with its resolvers and exit only if it is that of the
\* group's present policy and tunnel, unless something changed after the last
\* look: requests and the loop probe the same group at once, and policies change
\* between the loop's reads. A failed look promises no more than the configured
\* resolver: the exit that stays beside it may be an older one.
VerdictsSound ==
    /\ "exit" \in sound /\ Shown = "connected" => exits.ip = tunnel
    /\ "dns" \in sound /\ group # Nothing /\ ~dns.checking =>
        /\ dns.state = "ok" => dns.resolvers = group /\ dns.exit = tunnel
        /\ group \in Resolvers => dns.configured = group

\* When nothing changes any more the caches end up with what there is, whatever
\* late answers, restores and new rows under old keys came in between. Without
\* a tunnel the last exit stays, and without a target the last target does.
VerdictsSettle ==
    <>[](/\ exits.cached = profile
         /\ profile => exits.connected = (tunnel # Nothing)
         /\ tunnel # Nothing => exits.probe = "ok" /\ exits.ip = tunnel
         /\ dns.cached = (group # Nothing)
         /\ group # Nothing => dns.state = (IF tunnel = Nothing THEN Failed ELSE "ok")
         /\ dns.state = "ok" => dns.resolvers = group /\ dns.exit = tunnel
         /\ group \in Resolvers /\ tunnel # Nothing => dns.configured = group)
=============================================================================

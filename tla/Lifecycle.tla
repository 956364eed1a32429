----------------------------- MODULE Lifecycle -----------------------------
(***************************************************************************)
(* The lifecycle of one VPN profile's tunnel under everything that starts  *)
(* and stops it: the on-demand manager (app/services/on_demand.py), the    *)
(* resilience manager (app/services/vpn_resilience.py), the boot sequence  *)
(* (app/services/vpn_startup.py) and the request handlers of               *)
(* app/vpn_profiles.py and app/clients.py, and the verification of enabled *)
(* profiles in app/services/preflight.py.                                  *)
(*                                                                         *)
(* The managers treat profiles independently, so one profile is enough. A  *)
(* call of VPNRuntimeService.start or stop is one step; what a caller read *)
(* before the call is read in an earlier step, because no lock is held.    *)
(* Time is a set of timers that stop counting at the value at which the    *)
(* code no longer tells them apart.                                        *)
(***************************************************************************)
EXTENDS Integers

CONSTANTS
    OnDemand, Resilience,  \* the two lifecycle threads
    Handlers,              \* request threads and the override manager
    Requests,              \* kinds of request that may arrive, see AllRequests
    Overrides,             \* overrides that may be in force at the start
    Grace,                 \* idle_grace_seconds
    Timeout,               \* connect_timeout, never 0 here
    BaseDelay, MaxDelay,   \* base_delay, max_delay
    MaxFailures,           \* max_failures, 0: unlimited
    FailureCap,            \* failures counted: Delay no longer grows above it
    MaxPass,               \* units of time an on-demand pass takes at most
    MaxRequests, MaxRestarts, MaxBad, MaxDrops

AllRequests ==
    {"connect", "disconnect", "autoconnect", "policy", "bulk", "assign", "unassign",
     "override_to", "override_away", "override_end", "preflight"}
Managers == {OnDemand, Resilience}
Actors == Handlers \cup Managers
Never == -1

Smaller(m, n) == IF m < n THEN m ELSE n
Larger(m, n) == IF m < n THEN n ELSE m

\* VPNResilienceManager._delay_for_failure
Delay(n) == Smaller(MaxDelay, BaseDelay * 2 ^ (IF n > 1 THEN n - 1 ELSE 0))

ASSUME ActorsAssumption == OnDemand # Resilience /\ Managers \cap Handlers = {}
ASSUME RequestsAssumption ==
    Requests \subseteq AllRequests /\ Overrides \subseteq {"none", "to", "away"}
ASSUME TimesAssumption ==
    /\ Grace \in Nat \ {0} /\ Timeout \in Nat \ {0}
    /\ BaseDelay \in Nat \ {0} /\ MaxDelay \in Nat /\ BaseDelay <= MaxDelay
    /\ MaxFailures \in Nat /\ FailureCap \in Nat \ {0}
    /\ MaxFailures <= FailureCap /\ Delay(FailureCap) = MaxDelay
\* Delays grow with the failures up to max_delay, as powers of two do.
ASSUME DelayAssumption ==
    \A n \in 0 .. FailureCap :
        Delay(n) \in 0 .. MaxDelay /\ \A m \in 0 .. n : Delay(m) <= Delay(n)
ASSUME BoundsAssumption ==
    /\ MaxRequests \in Nat /\ MaxRestarts \in Nat /\ MaxBad \in Nat /\ MaxDrops \in Nat
    /\ MaxPass \in Nat \ {0}

VARIABLES
    enabled, policy,      \* the profile's row
    assigned, override,   \* clients assigned to its groups; overrides to or away from them
    tun, hung, age,       \* tunnel state; an attempt that is bad; its uptime
    idle,                 \* age of the _idle_since entry, Never: none
    failures, retryIn, gaveUp,  \* RetryState; retryIn counts down to next_retry_at
    pc, seen, after,      \* each actor's step, what it read, what it waits to commit
    booted,
    requests, restarts, bad, drops,  \* bounds on the environment
    hangs, sinceHang,     \* history: timeouts in a row, time since the last one
    unused,               \* history: time since the managers last noticed demand
    overtaken, backdated  \* history: see Notice

rows == <<enabled, policy, assigned, override>>
tunnel == <<tun, hung, age>>
retry == <<failures, retryIn, gaveUp>>
threads == <<pc, seen, after>>
bounds == <<requests, restarts, bad, drops>>
history == <<hangs, sinceHang, unused, overtaken, backdated>>
vars == <<rows, tunnel, idle, retry, threads, booted, bounds, history>>

-----------------------------------------------------------------------------
\* _required_ids: effective assignments, an override before an assignment.
Required == override = "to" \/ (assigned /\ override # "away")

PreflightSteps == {"pf_status", "pf_clear", "pf_start", "pf_park"}

\* What an actor has read; ago is the time since a pass of the on-demand
\* manager looked at the clock.
NoRow ==
    [enabled |-> FALSE, policy |-> "always", required |-> FALSE, joined |-> FALSE, ago |-> 0]

Goto(a, step) == pc' = [pc EXCEPT ![a] = step]

Return(a) ==
    /\ pc' = [pc EXCEPT ![a] = "idle"]
    /\ seen' = [seen EXCEPT ![a] = NoRow]
    /\ after' = [after EXCEPT ![a] = "none"]

-----------------------------------------------------------------------------
(* VPNRuntimeService.start and stop.                                       *)

\* An attempt spawns a process. A bad one either ends within the first 0.4 s,
\* and start raises, or exits later (a refused login), hangs, or is slow.
Spawned ==
    \/ hung' = FALSE /\ UNCHANGED bad
    \/ hung' = TRUE /\ bad < MaxBad /\ bad' = bad + 1

StartWorks ==
    /\ tun = "down"
    /\ tun' = "connecting" /\ age' = 0
    /\ Spawned

StartFails ==
    /\ tun = "down" /\ bad < MaxBad /\ bad' = bad + 1
    /\ UNCHANGED tunnel

\* A stop that leaves the start time of the process in its metadata.
StopKeepsMeta == tun' = "down" /\ hung' = FALSE /\ UNCHANGED age

Stop == tun' = "down" /\ hung' = FALSE /\ age' = 0

-----------------------------------------------------------------------------
(* RetryState.                                                             *)

Reset == failures' = 0 /\ retryIn' = Never /\ gaveUp' = FALSE

\* A reason to forget the failures so far: success, a request, no more need.
Forgiven == hangs' = 0 /\ UNCHANGED <<sinceHang, unused, overtaken, backdated>>

RecordFailure ==
    /\ failures' = Smaller(FailureCap, failures + 1)
    /\ gaveUp' = (MaxFailures > 0 /\ failures + 1 >= MaxFailures)
    /\ retryIn' = IF gaveUp' THEN Never ELSE Delay(failures')

-----------------------------------------------------------------------------
(* OnDemandVPNManager.reconcile_once, run by the loop, by boot and by the  *)
(* handlers. The routing rebuild after a change is PolicyRouting's.        *)

OdBegin ==
    /\ booted /\ pc[OnDemand] = "idle"
    /\ Goto(OnDemand, "od_read")
    /\ UNCHANGED <<rows, tunnel, idle, retry, seen, after, booted, bounds, history>>

Waiting == {"od_rows", "od_act", "od_check"}
Passing == Waiting \cup {"od_stop"}

\* Demand is noticed: the idle time is forgotten. Passes that other threads
\* have under way may still act on what they knew before.
Notice(a) ==
    /\ idle' = Never /\ unused' = 0 /\ backdated' = FALSE
    /\ overtaken' = overtaken \cup {b \in Actors \ {a} : pc[b] \in Passing}

\* The required ids and the clock.
OdRead(a) ==
    /\ pc[a] = "od_read"
    /\ seen' = [seen EXCEPT ![a] = [NoRow EXCEPT !.required = Required]]
    /\ overtaken' = overtaken \ {a}
    /\ Goto(a, "od_rows")
    /\ UNCHANGED <<rows, tunnel, idle, retry, after, booted, bounds, hangs, sinceHang, unused,
                   backdated>>

\* The profiles.
OdRows(a) ==
    /\ pc[a] = "od_rows"
    /\ seen' = [seen EXCEPT ![a].enabled = enabled, ![a].policy = policy]
    /\ Goto(a, "od_act")
    /\ UNCHANGED <<rows, tunnel, idle, retry, after, booted, bounds, history>>

OdReturn(a) ==
    /\ Return(a)
    /\ booted' = (booted \/ a = OnDemand)
    /\ overtaken' = overtaken \ {a}
    /\ UNCHANGED <<rows, retry, requests, restarts, drops, hangs, sinceHang, unused>>

Managed(a) == seen[a].enabled /\ seen[a].policy = "on_demand"

\* Not the manager's business, or not needed and down: no idle time.
OdLeave(a) ==
    /\ pc[a] = "od_act"
    /\ Managed(a) => ~seen[a].required /\ tun = "down"
    /\ idle' = Never /\ backdated' = FALSE
    /\ OdReturn(a)
    /\ UNCHANGED <<tunnel, bad>>

\* A pass that starts what is needed and lets the idle time run on.
OdNeededKeepsIdle(a) ==
    /\ pc[a] = "od_act" /\ Managed(a) /\ seen[a].required
    /\ unused' = 0 /\ overtaken' = overtaken \cup {b \in Actors \ {a} : pc[b] \in Passing}
    /\ Goto(a, "od_start")
    /\ UNCHANGED <<rows, tunnel, idle, retry, seen, after, booted, bounds, hangs, sinceHang,
                   backdated>>

OdNeeded(a) ==
    /\ pc[a] = "od_act" /\ Managed(a) /\ seen[a].required
    /\ Notice(a)
    /\ Goto(a, "od_start")
    /\ UNCHANGED <<rows, tunnel, retry, seen, after, booted, bounds, hangs, sinceHang>>

\* A required tunnel that is down is started, whatever the retry state says.
OdStart(a) ==
    /\ pc[a] = "od_start"
    /\ \/ StartWorks \/ StartFails
       \/ tun # "down" /\ UNCHANGED <<tunnel, bad>>
    /\ OdReturn(a)
    /\ UNCHANGED <<idle, backdated>>

OdUnused(a) ==
    /\ pc[a] = "od_act" /\ Managed(a) /\ ~seen[a].required /\ tun # "down"
    /\ Goto(a, "od_check")
    /\ UNCHANGED <<rows, tunnel, idle, retry, seen, after, booted, bounds, history>>

\* now - started, by the clock of the pass.
GraceOver(a) == idle # Never /\ idle - seen[a].ago >= Grace

\* The idle time begins, dated back to the clock of the pass, or goes on.
OdIdle(a) ==
    /\ pc[a] = "od_check" /\ ~GraceOver(a)
    /\ IF idle = Never
       THEN idle' = seen[a].ago /\ backdated' = (a \in overtaken)
       ELSE UNCHANGED <<idle, backdated>>
    /\ OdReturn(a)
    /\ UNCHANGED <<tunnel, bad>>

OdDecide(a) ==
    /\ pc[a] = "od_check" /\ GraceOver(a)
    /\ overtaken' = IF backdated THEN overtaken \cup {a} ELSE overtaken \ {a}
    /\ Goto(a, "od_stop")
    /\ UNCHANGED <<rows, tunnel, idle, retry, seen, after, booted, bounds, hangs, sinceHang,
                   unused, backdated>>

OdStop(a) ==
    /\ pc[a] = "od_stop"
    /\ Stop
    /\ Goto(a, "od_forget")
    /\ UNCHANGED <<rows, idle, retry, seen, after, booted, bounds, history>>

\* A stop that fails keeps the idle time, so that the next pass tries again.
OdStopFails(a) ==
    /\ pc[a] = "od_stop"
    /\ bad < MaxBad /\ bad' = bad + 1
    /\ OdReturn(a)
    /\ UNCHANGED <<tunnel, idle, backdated>>

\* So does one after which the tunnel is up, because another thread was fast.
OdForget(a) ==
    /\ pc[a] = "od_forget"
    /\ IF tun = "down" THEN idle' = Never /\ backdated' = FALSE
                       ELSE UNCHANGED <<idle, backdated>>
    /\ OdReturn(a)
    /\ UNCHANGED <<tunnel, bad>>

OdStep(a) ==
    \/ OdRead(a) \/ OdRows(a) \/ OdLeave(a) \/ OdNeeded(a) \/ OdStart(a) \/ OdUnused(a)
    \/ OdIdle(a) \/ OdDecide(a) \/ OdStop(a) \/ OdStopFails(a) \/ OdForget(a)

-----------------------------------------------------------------------------
(* VPNResilienceManager._tick_profile.                                     *)

RsBegin ==
    /\ booted /\ pc[Resilience] = "idle"
    /\ seen' = [seen EXCEPT ![Resilience] =
           [enabled |-> enabled, policy |-> policy, required |-> Required, joined |-> assigned,
            ago |-> 0]]
    /\ Goto(Resilience, "rs_status")
    /\ UNCHANGED <<rows, tunnel, idle, retry, after, booted, bounds, history>>

\* A retry manager that keeps unused on-demand profiles up.
SupervisedUnused == seen[Resilience].enabled

\* Only persistent assignments make an on-demand profile required here.
Supervised ==
    /\ seen[Resilience].enabled
    /\ seen[Resilience].policy = "on_demand" => seen[Resilience].joined

\* Disabled, unused or connected: the retry state is cleared.
RsReset ==
    /\ pc[Resilience] = "rs_status"
    /\ ~Supervised \/ tun = "connected"
    /\ Reset /\ Forgiven
    /\ Return(Resilience)
    /\ UNCHANGED <<rows, tunnel, idle, booted, bounds>>

RsWait ==
    /\ pc[Resilience] = "rs_status" /\ Supervised
    /\ \/ tun = "connecting" /\ age < Timeout
       \/ tun = "down" /\ (gaveUp \/ retryIn > 0)
    /\ Return(Resilience)
    /\ UNCHANGED <<rows, tunnel, idle, retry, booted, bounds, history>>

RsTimeout ==
    /\ pc[Resilience] = "rs_status" /\ Supervised
    /\ tun = "connecting" /\ age >= Timeout
    /\ Goto(Resilience, "rs_recycle")
    /\ UNCHANGED <<rows, tunnel, idle, retry, seen, after, booted, bounds, history>>

\* A timeout that counts the failure and leaves the process running.
RsRecycleAlive ==
    /\ pc[Resilience] = "rs_recycle"
    /\ RecordFailure
    /\ hangs' = Smaller(FailureCap, hangs + 1) /\ sinceHang' = 0
    /\ Return(Resilience)
    /\ UNCHANGED <<rows, tunnel, idle, booted, bounds, unused, overtaken, backdated>>

\* The tunnel is stopped even if it has connected since its status was read;
\* a stop that fails is a failure all the same.
RsRecycle ==
    /\ pc[Resilience] = "rs_recycle"
    /\ \/ Stop /\ UNCHANGED bad
       \/ bad < MaxBad /\ bad' = bad + 1 /\ UNCHANGED tunnel
    /\ RecordFailure
    /\ hangs' = Smaller(FailureCap, hangs + 1) /\ sinceHang' = 0
    /\ Return(Resilience)
    /\ UNCHANGED <<rows, idle, booted, requests, restarts, drops, unused, overtaken, backdated>>

RsDue ==
    /\ pc[Resilience] = "rs_status" /\ Supervised
    /\ tun = "down" /\ ~gaveUp /\ retryIn <= 0
    /\ retryIn' = 0
    /\ Goto(Resilience, "rs_start")
    /\ UNCHANGED <<rows, tunnel, idle, failures, gaveUp, seen, after, booted, bounds, history>>

\* A started process that counts as a success, as before release 0.9.3b.
RsStartForgets ==
    /\ pc[Resilience] = "rs_start"
    /\ StartWorks
    /\ Reset
    /\ Return(Resilience)
    /\ UNCHANGED <<rows, idle, booted, requests, restarts, drops, history>>

\* A started process is not yet a success: failures are kept.
RsStart ==
    /\ pc[Resilience] = "rs_start"
    /\ StartWorks
    /\ retryIn' = Never /\ gaveUp' = FALSE
    /\ Return(Resilience)
    /\ UNCHANGED <<rows, idle, failures, booted, requests, restarts, drops, history>>

\* start raises: the process ends at once, or another thread was faster.
RsStartRaises ==
    /\ pc[Resilience] = "rs_start"
    /\ \/ StartFails
       \/ tun # "down" /\ UNCHANGED <<tunnel, bad>>
    /\ RecordFailure
    /\ Return(Resilience)
    /\ UNCHANGED <<rows, idle, booted, requests, restarts, drops, hangs, sinceHang, unused,
                   overtaken, backdated>>

RsStep ==
    \/ RsBegin \/ RsReset \/ RsWait \/ RsTimeout \/ RsRecycle \/ RsDue \/ RsStart
    \/ RsStartRaises

-----------------------------------------------------------------------------
(* Request handlers.                                                       *)

Request(h, kind) ==
    /\ kind \in Requests
    /\ booted /\ pc[h] = "idle"
    /\ requests < MaxRequests /\ requests' = requests + 1
    /\ UNCHANGED <<idle, booted, restarts, drops>>

\* connect: the process is started, then the profile is enabled.
Connect(h) ==
    /\ Request(h, "connect")
    /\ StartWorks
    /\ Goto(h, "connect_commit")
    /\ UNCHANGED <<rows, retry, seen, after, history>>

ConnectCommit(h) ==
    /\ pc[h] = "connect_commit"
    /\ enabled' = TRUE
    /\ Reset /\ Forgiven
    /\ Return(h)
    /\ UNCHANGED <<policy, assigned, override, tunnel, idle, booted, bounds>>

\* disconnect: the process is stopped, then the profile is disabled.
Disconnect(h) ==
    /\ Request(h, "disconnect")
    /\ Stop
    /\ Goto(h, "disconnect_commit")
    /\ UNCHANGED <<rows, retry, seen, after, bad, history>>

DisconnectCommit(h) ==
    /\ pc[h] = "disconnect_commit"
    /\ enabled' = FALSE
    /\ Reset /\ Forgiven
    /\ Return(h)
    /\ UNCHANGED <<policy, assigned, override, tunnel, idle, booted, bounds>>

Autoconnect(h) ==
    /\ Request(h, "autoconnect")
    /\ enabled' = ~enabled
    /\ Reset /\ Forgiven
    /\ UNCHANGED <<policy, assigned, override, tunnel, threads, bad>>

EditPolicy(h) ==
    /\ Request(h, "policy")
    /\ policy' = IF policy = "always" THEN "on_demand" ELSE "always"
    /\ UNCHANGED <<enabled, assigned, override, tunnel, retry, threads, bad, history>>

\* The bulk form enables, disables or changes the policy, then runs a pass. It
\* leaves the retry state alone.
Bulk(h) ==
    /\ Request(h, "bulk")
    /\ \/ enabled' \in BOOLEAN /\ UNCHANGED policy
       \/ policy' \in {"always", "on_demand"} /\ UNCHANGED enabled
    /\ Goto(h, "od_read")
    /\ UNCHANGED <<assigned, override, tunnel, retry, seen, after, bad, history>>

\* An assignment or an override to one of the profile's groups first makes an
\* on-demand (for an override: any) profile ready.
Demand(h) ==
    /\ \E kind \in {"assign", "override_to"} :
        /\ Request(h, kind)
        /\ enabled
        /\ after' = [after EXCEPT ![h] = kind]
        /\ Goto(h, IF kind = "assign" /\ policy = "always" THEN "commit" ELSE "ready_start")
    /\ UNCHANGED <<rows, tunnel, retry, seen, bad, history>>

\* ensure_profile_ready up to its wait; a start that raises ends the request.
ReadyStart(h) ==
    /\ pc[h] = "ready_start"
    /\ \/ /\ StartWorks /\ Goto(h, "ready_wait") /\ UNCHANGED <<seen, after>>
       \/ /\ StartFails /\ Return(h)
       \/ /\ tun # "down" /\ Goto(h, "ready_wait")
          /\ UNCHANGED <<tunnel, seen, after, bad>>
    /\ UNCHANGED <<rows, idle, retry, booted, requests, restarts, drops, history>>

Ready(h) ==
    /\ pc[h] = "ready_wait" /\ tun = "connected"
    /\ Notice(h)
    /\ Goto(h, "commit")
    /\ UNCHANGED <<rows, tunnel, retry, seen, after, booted, bounds, hangs, sinceHang>>

\* The tunnel has failed, or 48 seconds have passed.
NotReady(h) ==
    /\ pc[h] = "ready_wait" /\ tun # "connected"
    /\ Return(h)
    /\ UNCHANGED <<rows, tunnel, idle, retry, booted, bounds, history>>

Commit(h) ==
    /\ pc[h] = "commit"
    /\ \/ after[h] = "assign" /\ assigned' = TRUE /\ UNCHANGED override
       \/ after[h] = "override_to" /\ override' = "to" /\ UNCHANGED assigned
    /\ after' = [after EXCEPT ![h] = "none"]
    /\ Goto(h, "od_read")
    /\ UNCHANGED <<enabled, policy, tunnel, idle, retry, seen, booted, bounds, history>>

\* Demand that goes: an assignment removed, an override to another profile's
\* group, an override cancelled or expired.
Release(h) ==
    /\ \/ Request(h, "unassign") /\ assigned /\ assigned' = FALSE /\ UNCHANGED override
       \/ Request(h, "override_away") /\ override' = "away" /\ UNCHANGED assigned
       \/ /\ Request(h, "override_end") /\ override # "none"
          /\ override' = "none" /\ UNCHANGED assigned
    /\ Goto(h, "od_read")
    /\ UNCHANGED <<enabled, policy, tunnel, retry, seen, after, bad, history>>

-----------------------------------------------------------------------------
(* _verify_enabled_vpn_profiles, in the one preflight thread that there is. *)

Preflight(h) ==
    /\ Request(h, "preflight")
    /\ enabled
    /\ \A k \in Handlers : pc[k] \notin PreflightSteps
    /\ Goto(h, "pf_status")
    /\ UNCHANGED <<rows, tunnel, retry, seen, after, bad, history>>

\* A connected tunnel is verified in place. One that connects meanwhile is
\* still taken for one to be parked again.
PfStatus(h) ==
    /\ pc[h] = "pf_status"
    /\ \/ tun = "connected" /\ Return(h)
       \/ tun = "connecting" /\ Goto(h, "pf_clear") /\ UNCHANGED <<seen, after>>
       \/ tun = "down" /\ Goto(h, "pf_start") /\ UNCHANGED <<seen, after>>
    /\ UNCHANGED <<rows, tunnel, idle, retry, booted, bounds, history>>

PfClear(h) ==
    /\ pc[h] = "pf_clear"
    /\ \/ Stop /\ UNCHANGED bad
       \/ bad < MaxBad /\ bad' = bad + 1 /\ UNCHANGED tunnel
    /\ Goto(h, "pf_start")
    /\ UNCHANGED <<rows, idle, retry, seen, after, booted, requests, restarts, drops, history>>

\* A start that raises ends the test: the tunnel is parked all the same.
PfStart(h) ==
    /\ pc[h] = "pf_start"
    /\ \/ StartWorks \/ StartFails
       \/ tun # "down" /\ UNCHANGED <<tunnel, bad>>
    /\ Goto(h, "pf_park")
    /\ UNCHANGED <<rows, idle, retry, seen, after, booted, requests, restarts, drops, history>>

\* Verified, failed or timed out: back to where it was, whoever has come to
\* need it.
PfPark(h) ==
    /\ pc[h] = "pf_park"
    /\ \/ Stop /\ UNCHANGED bad
       \/ bad < MaxBad /\ bad' = bad + 1 /\ UNCHANGED tunnel
    /\ Return(h)
    /\ UNCHANGED <<rows, idle, retry, booted, requests, restarts, drops, history>>

PreflightStep(h) == PfStatus(h) \/ PfClear(h) \/ PfStart(h) \/ PfPark(h)

-----------------------------------------------------------------------------
Progress(h) ==
    \/ ConnectCommit(h) \/ DisconnectCommit(h) \/ ReadyStart(h) \/ Ready(h) \/ NotReady(h)
    \/ Commit(h) \/ OdStep(h) \/ PreflightStep(h)

Arrival(h) ==
    Connect(h) \/ Disconnect(h) \/ Autoconnect(h) \/ EditPolicy(h) \/ Bulk(h) \/ Demand(h) \/
    Release(h) \/ Preflight(h)

-----------------------------------------------------------------------------
(* The tunnel, time and the process.                                       *)

\* The handshake is done; that of a bad attempt may still be, but late.
Establish ==
    /\ tun = "connecting"
    /\ tun' = "connected" /\ hung' = FALSE /\ age' = 0
    /\ UNCHANGED <<rows, idle, retry, threads, booted, bounds, history>>

\* A bad attempt exits after start has returned: a refused login, for one.
ExitsLate ==
    /\ tun = "connecting" /\ hung
    /\ tun' = "down" /\ hung' = FALSE /\ age' = 0
    /\ UNCHANGED <<rows, idle, retry, threads, booted, bounds, history>>

\* An established tunnel dies, or loses its connection and tries again.
Drop ==
    /\ tun = "connected" /\ drops < MaxDrops /\ drops' = drops + 1
    /\ \/ tun' = "down" /\ age' = 0
       \/ tun' = "connecting" /\ age' \in 0 .. Timeout
    /\ UNCHANGED <<rows, hung, idle, retry, threads, booted, requests, restarts, bad, history>>

\* One unit of time for every timer. An attempt that is not bad connects
\* before its timeout, and a pass ends within MaxPass.
Tick ==
    /\ tun = "connecting" /\ ~hung => age + 1 < Timeout
    /\ \A a \in Actors : pc[a] \in Passing => seen[a].ago < MaxPass
    /\ age' = IF tun = "connecting" THEN Smaller(Timeout, age + 1) ELSE age
    /\ idle' = IF idle = Never THEN Never ELSE Smaller(Grace + MaxPass, idle + 1)
    /\ seen' = [a \in Actors |->
           IF pc[a] \in Passing THEN [seen[a] EXCEPT !.ago = @ + 1] ELSE seen[a]]
    /\ retryIn' = IF retryIn > 0 THEN retryIn - 1 ELSE retryIn
    /\ sinceHang' = Smaller(MaxDelay, sinceHang + 1)
    /\ unused' = Smaller(Grace, unused + 1)
    /\ UNCHANGED <<rows, tun, hung, failures, gaveUp, pc, after, booted, bounds, hangs, overtaken,
                   backdated>>

\* The container restarts: memory and OpenVPN processes are gone, a WireGuard
\* interface stays, the retry state comes back from its file, and any time may
\* have passed.
Restart ==
    /\ booted /\ restarts < MaxRestarts /\ restarts' = restarts + 1
    /\ Stop \/ UNCHANGED tunnel
    /\ idle' = Never
    /\ \E down \in 0 .. MaxDelay :
        /\ retryIn' = IF retryIn = Never THEN Never ELSE Larger(0, retryIn - down)
        /\ sinceHang' = Smaller(MaxDelay, sinceHang + down)
    /\ overtaken' = {} /\ backdated' = FALSE
    /\ pc' = [a \in Actors |-> IF a = OnDemand THEN "restore" ELSE "idle"]
    /\ seen' = [a \in Actors |-> NoRow] /\ after' = [a \in Actors |-> "none"]
    /\ booted' = FALSE
    /\ UNCHANGED <<rows, failures, gaveUp, requests, bad, drops, hangs, unused>>

\* restore_enabled_profiles, then the synchronous on-demand pass.
Restore ==
    /\ pc[OnDemand] = "restore"
    /\ IF enabled /\ policy = "always" /\ tun = "down"
       THEN StartWorks \/ StartFails
       ELSE UNCHANGED <<tunnel, bad>>
    /\ Goto(OnDemand, "od_read")
    /\ UNCHANGED <<rows, idle, retry, seen, after, booted, requests, restarts, drops, history>>

-----------------------------------------------------------------------------
Init ==
    /\ enabled \in BOOLEAN /\ policy \in {"always", "on_demand"}
    /\ assigned \in BOOLEAN /\ override \in Overrides
    /\ tun = "down" /\ hung = FALSE /\ age = 0
    /\ idle = Never
    /\ failures = 0 /\ retryIn = Never /\ gaveUp = FALSE
    /\ pc = [a \in Actors |-> IF a = OnDemand THEN "restore" ELSE "idle"]
    /\ seen = [a \in Actors |-> NoRow] /\ after = [a \in Actors |-> "none"]
    /\ booted = FALSE
    /\ requests = 0 /\ restarts = 0 /\ bad = 0 /\ drops = 0
    /\ hangs = 0 /\ sinceHang = MaxDelay /\ unused = 0
    /\ overtaken = {} /\ backdated = FALSE

ManagerStep == Restore \/ OdBegin \/ OdStep(OnDemand)

Environment == Establish \/ ExitsLate \/ Drop \/ Restart

Next ==
    \/ ManagerStep
    \/ RsStep
    \/ \E h \in Handlers : Arrival(h) \/ Progress(h)
    \/ Environment
    \/ Tick

Spec == Init /\ [][Next]_vars

\* Threads and clocks go on, and an attempt that is not bad connects.
Fairness ==
    /\ WF_vars(ManagerStep) /\ WF_vars(RsStep) /\ WF_vars(Tick)
    /\ \A h \in Handlers : WF_vars(Progress(h))
    /\ WF_vars(Establish /\ ~hung)

FairSpec == Spec /\ Fairness

-----------------------------------------------------------------------------
(* Properties.                                                             *)

Steps ==
    {"idle", "restore", "od_read", "od_start", "od_forget", "rs_status", "rs_recycle", "rs_start",
     "connect_commit", "disconnect_commit", "ready_start", "ready_wait", "commit"}
    \cup Passing \cup PreflightSteps

FlagsType ==
    /\ enabled \in BOOLEAN /\ assigned \in BOOLEAN
    /\ hung \in BOOLEAN /\ gaveUp \in BOOLEAN /\ booted \in BOOLEAN

RowsType == policy \in {"always", "on_demand"} /\ override \in {"none", "to", "away"}

TunnelType ==
    /\ tun \in {"down", "connecting", "connected"} /\ age \in 0 .. Timeout
    /\ tun # "connecting" => ~hung /\ age = 0

TimersType ==
    /\ idle \in {Never} \cup 0 .. Grace + MaxPass
    /\ failures \in 0 .. FailureCap /\ retryIn \in {Never} \cup 0 .. MaxDelay
    /\ hangs \in 0 .. FailureCap /\ sinceHang \in 0 .. MaxDelay /\ unused \in 0 .. Grace
    /\ backdated \in BOOLEAN /\ overtaken \subseteq Actors

ThreadsType ==
    /\ pc \in [Actors -> Steps]
    /\ seen \in [Actors -> [enabled : BOOLEAN, policy : {"always", "on_demand"},
                            required : BOOLEAN, joined : BOOLEAN, ago : 0 .. MaxPass]]
    /\ after \in [Actors -> {"none", "assign", "override_to"}]

BoundsType ==
    /\ requests \in 0 .. MaxRequests /\ restarts \in 0 .. MaxRestarts
    /\ bad \in 0 .. MaxBad /\ drops \in 0 .. MaxDrops

\* Every variable keeps its type; only a live attempt hangs or has an age.
TypeOK == FlagsType /\ RowsType /\ TunnelType /\ TimersType /\ ThreadsType /\ BoundsType

Retried == pc[Resilience] = "rs_start" /\ tun = "down" /\ tun' # "down"

\* However starts, exits and passes of other threads come in between, the
\* retry manager waits the exponential delay after the n-th timeout in a row
\* (CHANGELOG 0.9.3b) and gives up after max_failures of them.
BackoffKept ==
    [][Retried /\ hangs > 0 =>
          /\ sinceHang >= Delay(hangs)
          /\ MaxFailures > 0 => hangs < MaxFailures]_vars

\* A pass of the on-demand manager stops a tunnel only a whole grace period
\* after any pass, of its own thread, of boot or of a request, has last noticed
\* demand or had the tunnel made ready, although the passes share the idle
\* times without a lock, date them back and act on rows they read before.
\* Excepted, because the code does not prevent it: demand noticed between the
\* decision and the stop, or while the pass that dated the idle time was under
\* way.
GraceKept ==
    [][\A a \in Actors :
          pc[a] = "od_stop" /\ pc'[a] = "od_forget" /\ tun # "down" /\ a \notin overtaken
          => unused >= Grace]_vars

Wanted == enabled /\ ~gaveUp /\ (policy = "always" \/ Required)

\* A wanted tunnel ends up connected and stays so, whatever failures, hung
\* attempts, restarts and requests came before.
WantedComesUp == <>[](Wanted => tun = "connected")

\* An on-demand tunnel nobody needs ends up down and stays so: no manager
\* starts what another one stops.
UnusedGoesDown == <>[](enabled /\ policy = "on_demand" /\ ~Required => tun = "down")
=============================================================================

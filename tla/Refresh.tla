------------------------------ MODULE Refresh ------------------------------
(***************************************************************************)
(* Who refreshes the routing sets when a row changes without an edit of    *)
(* routing: overrides that expire (services/routing_overrides.py), are     *)
(* set, renewed or cancelled, and addresses that WG-Easy changes           *)
(* (app/clients.py), a restored backup (app/backups.py) and the            *)
(* reconciler's invalidate (services/routing_reconciler.py).               *)
(*                                                                         *)
(* One client.  A refresh reads the rows in one step and leaves the sets   *)
(* in another: PolicyRouting has its commands.  A row keeps its key when   *)
(* it is deleted and made anew, as Tables has it.                          *)
(***************************************************************************)
EXTENDS Integers

CONSTANTS
    Handlers,               \* request threads
    Expiry, Reconciler,     \* the two loops
    Addresses,              \* addresses the client may have
    MaxEvents,              \* requests and tunnel changes
    MaxFaults

Actors == Handlers \cup {Expiry, Reconciler}
Nothing == "none"           \* no row, no signature, nothing held
Tunnels == {"up", "down"}

VARIABLES
    assigned,               \* the address in its ClientAssignment row
    override,               \* when its ClientRouteOverride ends, or Nothing
    sets,                   \* what the kernel's sets have: the override's
                            \* group, or an address in the assigned one
    tunnels,                \* the tunnel states that a snapshot shows
    signature,              \* _last_signature of the reconciler
    pc, job,                \* each thread's step, and what it holds
    events, faults,      \* bounds
    moved,                  \* history: threads whose rows changed after they read them
    stale,                  \* history: a refresh failed or left what had changed
    owed,                   \* history: a restore could not apply its rows, nor has the reconciler
    late                    \* history: the last invalidate met a running rebuild

rows == <<assigned, override>>
threads == <<pc, job>>
bounds == <<events, faults>>
history == <<moved, stale, owed, late>>
vars == <<rows, sets, tunnels, signature, threads, bounds, history>>

-----------------------------------------------------------------------------
\* When an override ends.
Ends == {"cancelled", "later", "past"}

\* effective_assignments: an override that is not past goes before the
\* assignment.
Live == override \notin {Nothing, "past"}
Desired == IF Live THEN "override" ELSE assigned

NoJob == [row |-> Nothing, found |-> FALSE, path |-> Nothing, seen |-> Nothing, restores |-> FALSE]

Goto(a, step) == pc' = [pc EXCEPT ![a] = step]
Finish(a) == Goto(a, "idle") /\ job' = [job EXCEPT ![a] = NoJob]

\* Everyone between reading the rows and using them.
Disturb(a) == moved' = moved \cup {b \in Actors \ {a} : pc[b] \in {"expire", "write", "rewrite"}}

Arrive(h) ==
    /\ h \in Handlers /\ pc[h] = "idle"
    /\ events < MaxEvents /\ events' = events + 1
    /\ UNCHANGED faults

Fails == faults < MaxFaults /\ faults' = faults + 1 /\ UNCHANGED events

-----------------------------------------------------------------------------
(* A refresh: apply_assignment_sets, or rebuild.                           *)

Read(a, now, next) ==
    /\ pc[a] = now
    /\ Goto(a, next) /\ job' = [job EXCEPT ![a].path = Desired]
    /\ moved' = moved \ {a}
    /\ UNCHANGED <<rows, sets, tunnels, signature, bounds, stale, owed, late>>

Apply(a, path) ==
    /\ sets' = path
    /\ stale' = (a \in moved)
    /\ owed' = (owed /\ a # Reconciler)
    /\ moved' = moved \ {a}

\* A restore goes on to its rebuild.
Leave(a) ==
    IF job[a].restores
    THEN Goto(a, "reread") /\ job' = [job EXCEPT ![a] = [NoJob EXCEPT !.restores = TRUE]]
    ELSE Finish(a)

\* apply_assignment_sets after a row was committed.
ReadRows(a) == Read(a, "refresh", "write")

WriteSets(a) ==
    /\ pc[a] = "write"
    /\ Apply(a, job[a].path)
    /\ Leave(a)
    /\ UNCHANGED <<rows, tunnels, signature, bounds, late>>

\* A RoutingEngineError: expiry logs it, sync ignores it, a request reports it.
RefreshFails(a) ==
    /\ pc[a] = "write" /\ Fails
    /\ Leave(a)
    /\ stale' = TRUE /\ moved' = moved \ {a}
    /\ UNCHANGED <<rows, sets, tunnels, signature, owed, late>>

-----------------------------------------------------------------------------
(* TemporaryOverrideManager.                                               *)

\* expire_once runs in the loop and in a restore.
Looks(a) == pc[a] = IF a = Expiry THEN "idle" ELSE "select"

\* Every override with an expiry time, whenever that is or never.
SelectAll(a) ==
    /\ Looks(a)
    /\ override # Nothing
    /\ Goto(a, "expire") /\ moved' = moved \ {a}
    /\ UNCHANGED <<rows, sets, tunnels, signature, job, bounds, stale, owed, late>>

\* What is past.
Select(a) ==
    /\ Looks(a)
    /\ override = "past"
    /\ Goto(a, "expire") /\ moved' = moved \ {a}
    /\ UNCHANGED <<rows, sets, tunnels, signature, job, bounds, stale, owed, late>>

\* An expiry without the refresh.
ExpireOnly(a) ==
    /\ pc[a] = "expire"
    /\ override' = Nothing
    /\ Goto(a, "idle") /\ Disturb(a)
    /\ UNCHANGED <<assigned, sets, tunnels, signature, job, bounds, stale, owed, late>>

\* The event, and the delete of the row with that key, as it is by now.
Expire(a) ==
    /\ pc[a] = "expire"
    /\ override' = Nothing
    /\ Goto(a, "refresh") /\ Disturb(a)
    /\ UNCHANGED <<assigned, sets, tunnels, signature, job, bounds, stale, owed, late>>

-----------------------------------------------------------------------------
(* Requests.                                                               *)

\* set_temporary_override, with the tunnel ready: the row is looked up.
SetOverride(h) ==
    /\ Arrive(h)
    /\ \E end \in Ends \ {"past"} :
        job' = [job EXCEPT ![h].row = end, ![h].found = (override # Nothing)]
    /\ Goto(h, "set")
    /\ UNCHANGED <<rows, sets, tunnels, signature, history>>

\* A row made or deleted since then makes the commit fail.
CommitOverride(h) ==
    /\ pc[h] = "set"
    /\ IF job[h].found = (override # Nothing)
       THEN override' = job[h].row /\ Goto(h, "refresh") /\ job' = [job EXCEPT ![h] = NoJob] /\ Disturb(h)
       ELSE Finish(h) /\ UNCHANGED <<override, moved>>
    /\ UNCHANGED <<assigned, sets, tunnels, signature, bounds, stale, owed, late>>

\* cancel_temporary_override
Cancel(h) ==
    /\ Arrive(h)
    /\ override # Nothing /\ override' = Nothing
    /\ Goto(h, "refresh") /\ Disturb(h)
    /\ UNCHANGED <<assigned, sets, tunnels, signature, job, stale, owed, late>>

\* _sync_existing_assignments, of a list with another address: the assignment
\* only.
Sync(h) ==
    /\ Arrive(h)
    /\ assigned' \in Addresses \ {assigned}
    /\ Goto(h, "refresh") /\ Disturb(h)
    /\ UNCHANGED <<override, sets, tunnels, signature, job, stale, owed, late>>

\* restore: other rows, tunnels stopped, an expire_once, and a rebuild.
Restore(h) ==
    /\ Arrive(h)
    /\ assigned' \in Addresses
    /\ override' \in Ends \cup {Nothing}
    /\ tunnels' = "down"
    /\ Goto(h, "select") /\ Disturb(h)
    /\ job' = [job EXCEPT ![h].restores = TRUE]
    /\ UNCHANGED <<sets, signature, stale, owed, late>>

NothingPast(h) ==
    /\ pc[h] = "select" /\ override # "past"
    /\ Goto(h, "reread")
    /\ UNCHANGED <<rows, sets, tunnels, signature, job, bounds, history>>

RereadRows(h) == h \in Handlers /\ Read(h, "reread", "rewrite")

Rebuild(h) ==
    /\ h \in Handlers /\ pc[h] = "rewrite"
    /\ Apply(h, job[h].path)
    /\ Goto(h, "invalidate") /\ job' = [job EXCEPT ![h] = NoJob]
    /\ UNCHANGED <<rows, tunnels, signature, bounds, late>>

RebuildFails(h) ==
    /\ h \in Handlers /\ pc[h] = "rewrite" /\ Fails
    /\ Goto(h, "unapplied") /\ job' = [job EXCEPT ![h] = NoJob]
    /\ stale' = TRUE /\ moved' = moved \ {h}
    /\ UNCHANGED <<rows, sets, tunnels, signature, owed, late>>

\* An invalidate that forgets the signature only when tunnels changed.
InvalidateChanged(h) ==
    /\ pc[h] \in {"invalidate", "unapplied"}
    /\ signature' = IF signature = tunnels THEN signature ELSE Nothing
    /\ owed' = (owed \/ pc[h] = "unapplied") /\ late' = (pc[Reconciler] # "idle")
    /\ Finish(h)
    /\ UNCHANGED <<rows, sets, tunnels, bounds, moved, stale>>

Invalidate(h) ==
    /\ pc[h] \in {"invalidate", "unapplied"}
    /\ signature' = Nothing
    /\ owed' = (owed \/ pc[h] = "unapplied") /\ late' = (pc[Reconciler] # "idle")
    /\ Finish(h)
    /\ UNCHANGED <<rows, sets, tunnels, bounds, moved, stale>>

-----------------------------------------------------------------------------
(* The reconciler's loop.                                                  *)

Poll ==
    /\ pc[Reconciler] = "idle"
    /\ tunnels # signature
    /\ Goto(Reconciler, "reread") /\ job' = [job EXCEPT ![Reconciler].seen = tunnels]
    /\ UNCHANGED <<rows, sets, tunnels, signature, bounds, history>>

PollRows == Read(Reconciler, "reread", "rewrite")

PollRebuild ==
    /\ pc[Reconciler] = "rewrite"
    /\ Apply(Reconciler, job[Reconciler].path)
    /\ Goto(Reconciler, "record") /\ job' = [job EXCEPT ![Reconciler].path = NoJob.path]
    /\ UNCHANGED <<rows, tunnels, signature, bounds, late>>

\* The snapshot becomes the signature, whatever invalidate did meanwhile.
Record ==
    /\ pc[Reconciler] = "record"
    /\ signature' = job[Reconciler].seen
    /\ Finish(Reconciler)
    /\ UNCHANGED <<rows, sets, tunnels, bounds, history>>

PollFails ==
    /\ pc[Reconciler] = "rewrite" /\ Fails
    /\ Finish(Reconciler)
    /\ stale' = TRUE /\ moved' = moved \ {Reconciler}
    /\ UNCHANGED <<rows, sets, tunnels, signature, owed, late>>

-----------------------------------------------------------------------------
(* Tunnels and time.                                                       *)

TunnelChanges ==
    /\ events < MaxEvents /\ events' = events + 1
    /\ tunnels' \in Tunnels \ {tunnels}
    /\ UNCHANGED <<rows, sets, signature, threads, faults, history>>

TimePasses ==
    /\ override = "later" /\ override' = "past"
    /\ UNCHANGED <<assigned, sets, tunnels, signature, threads, bounds, history>>

Init ==
    /\ assigned \in Addresses
    /\ override \in {"later", Nothing}
    /\ tunnels = "up" /\ signature = tunnels
    /\ sets = Desired
    /\ pc = [a \in Actors |-> "idle"] /\ job = [a \in Actors |-> NoJob]
    /\ events = 0 /\ faults = 0
    /\ moved = {} /\ stale = FALSE /\ owed = FALSE /\ late = FALSE

ReconcilerStep == Poll \/ PollRows \/ PollRebuild \/ Record \/ PollFails

Next ==
    \/ \E a \in Actors :
        ReadRows(a) \/ WriteSets(a) \/ RefreshFails(a) \/ Select(a) \/ Expire(a)
    \/ \E h \in Handlers :
        \/ SetOverride(h) \/ CommitOverride(h) \/ Cancel(h) \/ Sync(h)
        \/ Restore(h) \/ NothingPast(h) \/ RereadRows(h) \/ Rebuild(h) \/ RebuildFails(h) \/ Invalidate(h)
    \/ ReconcilerStep
    \/ TunnelChanges \/ TimePasses

Spec == Init /\ [][Next]_vars
FairSpec == Spec /\ WF_vars(ReconcilerStep)

-----------------------------------------------------------------------------
(* Properties.                                                             *)

\* Threads hold what their steps have read, and only a restore goes on from
\* its expiry to a rebuild.
TypeOK ==
    /\ assigned \in Addresses /\ override \in Ends \cup {Nothing}
    /\ sets \in Addresses \cup {"override"}
    /\ tunnels \in Tunnels /\ signature \in Tunnels \cup {Nothing}
    /\ \A a \in Actors :
        /\ pc[a] \in {"write", "rewrite"} <=> job[a].path # Nothing
        /\ pc[a] \in {"invalidate", "unapplied", "select"} => a \in Handlers
        /\ pc[a] = "reread" => a = Reconciler \/ job[a].restores
    /\ moved \subseteq Actors /\ {stale, owed, late} \subseteq BOOLEAN

Quiet == \A a \in Actors : pc[a] = "idle"

\* When no thread has work left and no override waits for its expiry, the
\* sets follow the rows, whichever row changed and however the threads
\* interleaved. Two cases escape, which nothing repairs: the last refresh
\* failed, or its rows changed between its read and its write.
QuietMeansApplied == Quiet /\ override # "past" /\ ~stale => sets = Desired

\* Only an override that is past is expired, unless it was renewed or
\* replaced after expire_once had selected it.
LiveOverridesStay ==
    [][\A a \in Actors : Expire(a) /\ Live => a \in moved]_vars

\* Restored rows that the restore itself could not apply are applied by the
\* reconciler, whose next pass invalidate() forces; only an invalidate that
\* meets a running rebuild is lost with the signature that rebuild records.
InvalidateHeeded == owed ~> ~owed \/ late
=============================================================================

----------------------------- MODULE MCServices -----------------------------
(***************************************************************************)
(* One run for four components that share no state: the profile library,   *)
(* the accounts, the refreshes and the observed verdicts.  Nothing one     *)
(* does can be seen by another, so each behaviour steps one of them, part, *)
(* and leaves the others unused; interleaving them would repeat the same   *)
(* states.  The accounts are extended, the others instantiated.            *)
(***************************************************************************)
EXTENDS Accounts

CONSTANTS
    Uploads, FormNames, MaxProfiles, MaxGroups, MaxLibraryRequests,
    Callers,            \* request threads of the refreshes and the verdicts
    Addresses, Expiry, Reconciler, MaxRefreshEvents,
    Loop, Exits, Resolvers, MaxLooks, MaxFaults

VARIABLES
    part,
    \* the library
    profiles, files, groups, lpc, ljob, arrived, contested, crossed,
    \* the refreshes
    assigned, override, sets, tunnels, signature, rpc, rjob, events, faults,
    moved, stale, owed, late,
    \* the verdicts
    profile, group, tunnel, exits, dns, opc, ojob, looks, failed, sound

lvars == <<profiles, files, groups, lpc, ljob, arrived, contested, crossed>>
rvars == <<assigned, override, sets, tunnels, signature, rpc, rjob, events, faults, moved, stale, owed, late>>
ovars == <<profile, group, tunnel, exits, dns, opc, ojob, looks, failed, sound>>
services == <<part, lvars, vars, rvars, ovars>>

Lib == INSTANCE ProfileLibrary WITH
    pc <- lpc, job <- ljob, MaxRequests <- MaxLibraryRequests

Ref == INSTANCE Refresh WITH
    Handlers <- Callers, pc <- rpc, job <- rjob, MaxEvents <- MaxRefreshEvents

Obs == INSTANCE Observability WITH
    Handlers <- Callers, pc <- opc, job <- ojob, events <- looks, faults <- failed,
    MaxEvents <- MaxLooks

ASSUME TablesAssumption == MaxProfiles \in Nat /\ MaxGroups \in Nat

\* The loops are no requests, and no address or resolver reads as none or failed.
ASSUME NamesAssumption ==
    /\ Expiry # Reconciler /\ {Expiry, Reconciler, Loop} \cap Callers = {}
    /\ Ref!Nothing \notin Addresses \cup Exits \cup Resolvers
    /\ Obs!Failed \notin Exits /\ Obs!Inherit \notin Resolvers

Unused == [h \in Handlers |-> "unused"]

LibraryUnused ==
    /\ profiles = 0 /\ files = 0 /\ groups = 0
    /\ arrived = 0 /\ contested = 0 /\ crossed = 0
    /\ lpc = Unused /\ ljob = Unused

UsersUnused ==
    /\ users = EmptyTable /\ access = EmptyTable /\ requests = 0 /\ crashes = 0
    /\ complete = FALSE /\ token = FALSE /\ up = FALSE /\ raced = FALSE
    /\ pc = Unused /\ job = Unused

RefreshesUnused ==
    /\ assigned = 0 /\ override = 0 /\ sets = 0 /\ tunnels = 0 /\ signature = 0
    /\ events = 0 /\ faults = 0 /\ moved = 0
    /\ stale = FALSE /\ owed = FALSE /\ late = FALSE
    /\ rpc = [a \in Ref!Actors |-> "unused"] /\ rjob = rpc

VerdictsUnused ==
    /\ profile = FALSE /\ sound = {} /\ looks = 0 /\ failed = 0
    /\ group = Obs!Nothing /\ tunnel = group /\ exits = Obs!NoExit /\ dns = Obs!NoDns
    /\ opc = [a \in Obs!Actors |-> "unused"] /\ ojob = opc

MCInit ==
    \/ part = "library" /\ Lib!Init /\ UsersUnused /\ RefreshesUnused /\ VerdictsUnused
    \/ part = "users" /\ Init /\ LibraryUnused /\ RefreshesUnused /\ VerdictsUnused
    \/ part = "refreshes" /\ Ref!Init /\ LibraryUnused /\ UsersUnused /\ VerdictsUnused
    \/ part = "verdicts" /\ Obs!Init /\ LibraryUnused /\ UsersUnused /\ RefreshesUnused

LibraryStep == part = "library" /\ Lib!Next /\ UNCHANGED <<part, vars, rvars, ovars>>
UsersStep == part = "users" /\ Next /\ UNCHANGED <<part, lvars, rvars, ovars>>
RefreshesStep == part = "refreshes" /\ Ref!Next /\ UNCHANGED <<part, lvars, vars, ovars>>
VerdictsStep == part = "verdicts" /\ Obs!Next /\ UNCHANGED <<part, lvars, vars, rvars>>

Reconciles ==
    part = "refreshes" /\ Ref!ReconcilerStep /\ UNCHANGED <<part, lvars, vars, ovars>>
Observes == part = "verdicts" /\ Obs!LoopStep /\ UNCHANGED <<part, lvars, vars, rvars>>

MCNext == LibraryStep \/ UsersStep \/ RefreshesStep \/ VerdictsStep

MCSpec == MCInit /\ [][MCNext]_services /\ WF_services(Reconciles) /\ WF_services(Observes)

-----------------------------------------------------------------------------
(* Properties: those of the components, of the one that moves.             *)

\* Each component's rows, files and thread steps are those it writes.
MCTypeOK ==
    /\ part = "library" => Lib!TypeOK
    /\ part = "users" => TypeOK
    /\ part = "refreshes" => Ref!TypeOK
    /\ part = "verdicts" => Obs!TypeOK

\* A profile loses its configuration file only to a request for the same file.
ConfigKept == part = "library" => Lib!ConfigKept

\* A group names a profile that exists, unless the request that gave it the
\* profile overlapped the profile's deletion.
GroupsBacked == part = "library" => Lib!GroupsBacked

\* sync-names needs no second run.
SyncSettles == Lib!SyncSettles

\* When nothing is in progress the sets follow the rows, unless the last
\* refresh failed or was overtaken.
QuietMeansApplied == part = "refreshes" => Ref!QuietMeansApplied

\* Expiry takes an override that is not past only when it was renewed after
\* expiry had selected it.
LiveOverridesStay == Ref!LiveOverridesStay

\* The reconciler applies restored rows that the restore could not, unless
\* its running rebuild swallowed the invalidate.
InvalidateHeeded == Ref!InvalidateHeeded

\* Pages show exit addresses and DNS verdicts that hold for what there is,
\* unless it changed after the last look.
VerdictsSound == part = "verdicts" => Obs!VerdictsSound

\* When nothing changes any more, neither do the verdicts, and they are right.
VerdictsSettle == part = "verdicts" => Obs!VerdictsSettle
=============================================================================

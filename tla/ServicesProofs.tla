--------------------------- MODULE ServicesProofs ---------------------------
(***************************************************************************)
(* Proofs about the services that MCServices composes: the profile         *)
(* library, the refreshes and the observed verdicts.  Each part keeps an   *)
(* invariant of its own; the accounts' is that of AccountsProofs.          *)
(*                                                                         *)
(*   ProfileLibrary  LibInv: rows, threads, files and who claims them,     *)
(*                   groups and who deletes or takes their profile         *)
(*   Refresh         RefInv: who is at which step, what a thread has read, *)
(*                   and that quiet sets are settled                       *)
(*   Observability   ObsInv: what a look holds, and what a sound cache     *)
(*                   says, is what there is                                *)
(***************************************************************************)
EXTENDS MCServices, Sequences, AccountsProofs, FiniteSetTheorems, SequenceTheorems

-----------------------------------------------------------------------------
(* The refreshes.                                                          *)

LEMMA RefNames ==
    /\ Expiry # Reconciler /\ {Expiry, Reconciler} \cap Callers = {}
    /\ Ref!Nothing \notin Addresses
BY NamesAssumption

RefRows ==
    /\ assigned \in Addresses /\ override \in Ref!Ends \cup {Ref!Nothing}
    /\ sets \in Addresses \cup {"override"}
    /\ tunnels \in Ref!Tunnels /\ signature \in Ref!Tunnels \cup {Ref!Nothing}

RefSteps ==
    {"idle", "set", "refresh", "write", "select", "expire", "reread", "rewrite",
     "invalidate", "unapplied", "record"}

RefThreads ==
    /\ rpc \in [Ref!Actors -> RefSteps]
    /\ rjob \in [Ref!Actors -> [row : Ref!Ends \cup {Ref!Nothing}, found : BOOLEAN,
                           path : Addresses \cup {"override", Ref!Nothing},
                           seen : Ref!Tunnels \cup {Ref!Nothing}, restores : BOOLEAN]]

\* A thread is at a step of its own.
RefPlaced(a) ==
    /\ rpc[a] \in {"write", "rewrite"} <=> rjob[a].path # Ref!Nothing
    /\ rpc[a] \in {"set", "invalidate", "unapplied", "select"} => a \in Callers
    /\ rpc[a] = "reread" => a = Reconciler \/ rjob[a].restores
    /\ rpc[a] = "select" => rjob[a].restores
    /\ a = Expiry => rpc[a] \in {"idle", "expire", "refresh", "write"} /\ ~rjob[a].restores
    /\ a = Reconciler => rpc[a] \in {"idle", "reread", "rewrite", "record"}
    /\ rpc[a] = "record" => a = Reconciler /\ rjob[a].seen \in Ref!Tunnels
    /\ a = Reconciler /\ rpc[a] # "idle" => rjob[a].seen \in Ref!Tunnels
    /\ rpc[a] = "set" => rjob[a].row # Ref!Nothing

RefHistory == moved \subseteq Ref!Actors /\ {stale, owed, late} \subseteq BOOLEAN

RefTyped ==
    RefRows /\ RefThreads /\ (\A a \in Ref!Actors : RefPlaced(a)) /\ RefHistory

\* Steps after which the thread still writes the sets.
RefPending == {"refresh", "write", "select", "expire", "reread", "rewrite"}

\* Rows that a thread has read are still the rows, unless it was disturbed or
\* an override has ended that nobody has expired yet.
RefFresh(a) ==
    rpc[a] \in {"write", "rewrite"} /\ a \notin moved /\ override # "past" => rjob[a].path = Ref!Desired

\* An override that was selected is still past, unless it was disturbed.
RefSelected(a) == rpc[a] = "expire" /\ a \notin moved => override = "past"

\* Sets follow the rows whenever no thread is to write them.
RefSettled ==
    ~stale /\ override # "past" /\ (\A a \in Ref!Actors : rpc[a] \notin RefPending) => sets = Ref!Desired

RefInv == RefTyped /\ (\A a \in Ref!Actors : RefFresh(a) /\ RefSelected(a)) /\ RefSettled

-----------------------------------------------------------------------------
LEMMA RefInitInv == Ref!Init => RefInv
<1> SUFFICES ASSUME Ref!Init PROVE RefInv
  OBVIOUS
<1>1. RefRows
  BY DEF Ref!Init, RefRows, Ref!Desired, Ref!Live, Ref!Ends, Ref!Tunnels
<1>2. RefThreads /\ \A a \in Ref!Actors : RefPlaced(a)
  BY DEF Ref!Init, RefThreads, RefPlaced, Ref!NoJob, RefSteps
<1>3. RefHistory
  BY DEF Ref!Init, RefHistory
<1>4. RefSettled /\ \A a \in Ref!Actors : RefFresh(a) /\ RefSelected(a)
  BY DEF Ref!Init, RefSettled, RefFresh, RefSelected
<1> QED
  BY <1>1, <1>2, <1>3, <1>4 DEF RefInv, RefTyped

-----------------------------------------------------------------------------
(* What the steps have in common.                                          *)

\* A thread's step leaves what the others hold as good as it was, or disturbs
\* them.
LEMMA RefThreadStep ==
    ASSUME RefInv, NEW a \in Ref!Actors,
           \A k \in Ref!Actors \ {a} : rpc'[k] = rpc[k] /\ rjob'[k] = rjob[k],
           (UNCHANGED Ref!rows /\ moved \ {a} \subseteq moved') \/ Ref!Disturb(a),
           RefRows', RefThreads', RefHistory',
           RefPlaced(a)', RefFresh(a)', RefSelected(a)', RefSettled'
    PROVE  RefInv'
<1>T. /\ RefRows /\ RefThreads /\ RefHistory /\ RefSettled
      /\ \A k \in Ref!Actors : RefPlaced(k) /\ RefFresh(k) /\ RefSelected(k)
  BY DEF RefInv, RefTyped
<1>2. ASSUME NEW k \in Ref!Actors \ {a} PROVE RefPlaced(k)'
  BY <1>2, <1>T DEF RefPlaced
<1>3. ASSUME NEW k \in Ref!Actors \ {a} PROVE RefFresh(k)'
  <2>1. CASE UNCHANGED Ref!rows /\ moved \ {a} \subseteq moved'
    BY <1>3, <2>1, <1>T DEF RefFresh, Ref!rows, Ref!Desired, Ref!Live
  <2>2. CASE Ref!Disturb(a)
    BY <1>3, <2>2 DEF RefFresh, Ref!Disturb
  <2> QED
    BY <2>1, <2>2
<1>4. ASSUME NEW k \in Ref!Actors \ {a} PROVE RefSelected(k)'
  <2>1. CASE UNCHANGED Ref!rows /\ moved \ {a} \subseteq moved'
    BY <1>4, <2>1, <1>T DEF RefSelected, Ref!rows
  <2>2. CASE Ref!Disturb(a)
    BY <1>4, <2>2 DEF RefSelected, Ref!Disturb
  <2> QED
    BY <2>1, <2>2
<1> QED
  BY <1>2, <1>3, <1>4 DEF RefInv, RefTyped

LEMMA RefGotoType ==
    ASSUME RefThreads, NEW a \in Ref!Actors, NEW step \in RefSteps, Ref!Goto(a, step), UNCHANGED rjob
    PROVE  /\ RefThreads' /\ rpc'[a] = step /\ rjob'[a] = rjob[a]
           /\ \A k \in Ref!Actors \ {a} : rpc'[k] = rpc[k] /\ rjob'[k] = rjob[k]
BY DEF RefThreads, Ref!Goto

LEMMA RefHoldType ==
    ASSUME RefThreads, NEW a \in Ref!Actors, NEW step \in RefSteps, Ref!Goto(a, step),
           NEW held, rjob' = [rjob EXCEPT ![a] = held],
           held \in [row : Ref!Ends \cup {Ref!Nothing}, found : BOOLEAN,
                     path : Addresses \cup {"override", Ref!Nothing},
                     seen : Ref!Tunnels \cup {Ref!Nothing}, restores : BOOLEAN]
    PROVE  /\ RefThreads' /\ rpc'[a] = step /\ rjob'[a] = held
           /\ \A k \in Ref!Actors \ {a} : rpc'[k] = rpc[k] /\ rjob'[k] = rjob[k]
BY DEF RefThreads, Ref!Goto

LEMMA RefNoJobType ==
    /\ Ref!NoJob \in [row : Ref!Ends \cup {Ref!Nothing}, found : BOOLEAN,
                  path : Addresses \cup {"override", Ref!Nothing},
                  seen : Ref!Tunnels \cup {Ref!Nothing}, restores : BOOLEAN]
    /\ Ref!NoJob.path = Ref!Nothing /\ Ref!NoJob.restores = FALSE
BY DEF Ref!NoJob

LEMMA RefFinishType ==
    ASSUME RefThreads, NEW a \in Ref!Actors, Ref!Finish(a)
    PROVE  /\ RefThreads' /\ rpc'[a] = "idle" /\ rjob'[a] = Ref!NoJob
           /\ \A k \in Ref!Actors \ {a} : rpc'[k] = rpc[k] /\ rjob'[k] = rjob[k]
BY RefNoJobType, RefHoldType DEF Ref!Finish, RefSteps

\* A refresh finished or given up: a restore goes on to its rebuild.
LEMMA RefLeaveType ==
    ASSUME RefThreads, NEW a \in Ref!Actors, RefPlaced(a), rpc[a] = "write", Ref!Leave(a)
    PROVE  /\ RefThreads' /\ RefPlaced(a)' /\ rpc'[a] \in {"idle", "reread"}
           /\ \A k \in Ref!Actors \ {a} : rpc'[k] = rpc[k] /\ rjob'[k] = rjob[k]
<1>1. CASE Ref!Finish(a)
  BY <1>1, RefFinishType, RefNoJobType DEF RefPlaced
<1>2. CASE /\ rjob[a].restores /\ Ref!Goto(a, "reread")
           /\ rjob' = [rjob EXCEPT ![a] = [Ref!NoJob EXCEPT !.restores = TRUE]]
  <2>1. /\ [Ref!NoJob EXCEPT !.restores = TRUE] \in
               [row : Ref!Ends \cup {Ref!Nothing}, found : BOOLEAN,
                path : Addresses \cup {"override", Ref!Nothing},
                seen : Ref!Tunnels \cup {Ref!Nothing}, restores : BOOLEAN]
        /\ [Ref!NoJob EXCEPT !.restores = TRUE].path = Ref!Nothing
        /\ [Ref!NoJob EXCEPT !.restores = TRUE].restores
    BY DEF Ref!NoJob
  <2>2. /\ RefThreads' /\ rpc'[a] = "reread" /\ rjob'[a].path = Ref!Nothing /\ rjob'[a].restores
        /\ \A k \in Ref!Actors \ {a} : rpc'[k] = rpc[k] /\ rjob'[k] = rjob[k]
    BY <1>2, <2>1, RefHoldType DEF RefSteps
  <2>3. a # Expiry /\ a # Reconciler
    BY <1>2 DEF RefPlaced
  <2> QED
    BY <2>2, <2>3 DEF RefPlaced
<1> QED
  BY <1>1, <1>2 DEF Ref!Leave

-----------------------------------------------------------------------------
(* Reading, writing, failing.                                              *)

\* What has been read is fresh, whoever reads it.
LEMMA RefReadInv ==
    ASSUME RefInv, NEW a \in Ref!Actors,
           \/ Ref!Read(a, "refresh", "write")
           \/ Ref!Read(a, "reread", "rewrite")
    PROVE  RefInv'
<1>T. /\ RefRows /\ RefThreads /\ RefHistory /\ RefSettled
      /\ \A k \in Ref!Actors : RefPlaced(k) /\ RefFresh(k) /\ RefSelected(k)
  BY DEF RefInv, RefTyped
<1>0. /\ rjob' = [rjob EXCEPT ![a].path = Ref!Desired] /\ moved' = moved \ {a}
      /\ UNCHANGED <<assigned, override, sets, tunnels, signature, stale, owed, late>>
  BY DEF Ref!Read, Ref!rows
<1>1. PICK step \in {"write", "rewrite"} :
        /\ Ref!Goto(a, step)
        /\ rpc[a] = IF step = "write" THEN "refresh" ELSE "reread"
  BY DEF Ref!Read
<1>2. Ref!Desired \in Addresses \cup {"override"}
  BY <1>T DEF RefRows, Ref!Desired
<1>3. RefThreads'
  BY <1>0, <1>1, <1>2, <1>T DEF RefThreads, Ref!Goto, RefSteps
<1>4. /\ rpc'[a] = step /\ rjob'[a].path = Ref!Desired
      /\ rjob'[a].seen = rjob[a].seen /\ rjob'[a].restores = rjob[a].restores
      /\ \A k \in Ref!Actors \ {a} : rpc'[k] = rpc[k] /\ rjob'[k] = rjob[k]
  BY <1>0, <1>1, <1>T DEF RefThreads, Ref!Goto
<1>5. RefRows' /\ RefHistory'
  BY <1>0, <1>T DEF RefRows, RefHistory
<1>6. RefPlaced(a)'
  BY <1>1, <1>2, <1>4, <1>T, RefNames DEF RefPlaced, Ref!Nothing
<1>7. RefFresh(a)' /\ RefSelected(a)' /\ RefSettled'
  BY <1>0, <1>1, <1>4 DEF RefFresh, RefSelected, RefSettled, RefPending, Ref!Desired, Ref!Live
<1> QED
  BY <1>0, <1>3, <1>4, <1>5, <1>6, <1>7, RefThreadStep DEF Ref!rows

\* What is written is what was read: if nothing disturbed the thread, what the
\* rows say.
LEMMA RefApplyInv ==
    ASSUME RefInv, NEW a \in Ref!Actors, rpc[a] \in {"write", "rewrite"}, Ref!Apply(a, rjob[a].path),
           UNCHANGED <<Ref!rows, tunnels, signature, late>>, RefThreads', RefPlaced(a)',
           rpc'[a] \notin {"write", "rewrite", "expire"},
           \A k \in Ref!Actors \ {a} : rpc'[k] = rpc[k] /\ rjob'[k] = rjob[k]
    PROVE  RefInv'
<1>T. /\ RefRows /\ RefThreads /\ RefHistory /\ RefSettled
      /\ \A k \in Ref!Actors : RefPlaced(k) /\ RefFresh(k) /\ RefSelected(k)
  BY DEF RefInv, RefTyped
<1>0. /\ sets' = rjob[a].path /\ stale' = (a \in moved) /\ moved' = moved \ {a}
      /\ owed' = (owed /\ a # Reconciler)
      /\ UNCHANGED <<assigned, override, tunnels, signature, late>>
  BY DEF Ref!Apply, Ref!rows
<1>1. rjob[a].path \in Addresses \cup {"override"}
  BY <1>T DEF RefThreads, RefPlaced
<1>2. RefRows'
  BY <1>0, <1>1, <1>T DEF RefRows
<1>3. RefHistory'
  BY <1>0, <1>T DEF RefHistory
<1>4. RefFresh(a)' /\ RefSelected(a)'
  BY DEF RefFresh, RefSelected
<1>5. RefSettled'
  BY <1>0, <1>T DEF RefSettled, RefFresh, Ref!Desired, Ref!Live
<1> QED
  BY <1>0, <1>2, <1>3, <1>4, <1>5, RefThreadStep DEF Ref!rows

LEMMA RefWriteSetsInv == ASSUME RefInv, NEW a \in Ref!Actors, Ref!WriteSets(a) PROVE RefInv'
<1>T. /\ RefRows /\ RefThreads /\ RefHistory /\ RefSettled
      /\ \A k \in Ref!Actors : RefPlaced(k) /\ RefFresh(k) /\ RefSelected(k)
  BY DEF RefInv, RefTyped
<1>1. /\ RefThreads' /\ RefPlaced(a)' /\ rpc'[a] \in {"idle", "reread"}
      /\ \A k \in Ref!Actors \ {a} : rpc'[k] = rpc[k] /\ rjob'[k] = rjob[k]
  BY <1>T, RefLeaveType DEF Ref!WriteSets
<1> QED
  BY <1>1, RefApplyInv DEF Ref!WriteSets

LEMMA RefRebuildInv == ASSUME RefInv, NEW h \in Ref!Actors, Ref!Rebuild(h) PROVE RefInv'
<1>T. /\ RefRows /\ RefThreads /\ RefHistory /\ RefSettled
      /\ \A k \in Ref!Actors : RefPlaced(k) /\ RefFresh(k) /\ RefSelected(k)
  BY DEF RefInv, RefTyped
<1>1. /\ RefThreads' /\ rpc'[h] = "invalidate" /\ rjob'[h] = Ref!NoJob
      /\ \A k \in Ref!Actors \ {h} : rpc'[k] = rpc[k] /\ rjob'[k] = rjob[k]
  BY <1>T, RefNoJobType, RefHoldType DEF Ref!Rebuild, RefSteps
<1>2. h # Expiry /\ h # Reconciler
  BY <1>T, RefNames DEF Ref!Rebuild
<1>3. RefPlaced(h)'
  BY <1>1, <1>2, RefNoJobType DEF RefPlaced, Ref!Rebuild
<1> QED
  BY <1>1, <1>3, RefApplyInv DEF Ref!Rebuild

LEMMA RefPollRebuildInv == ASSUME RefInv, Ref!PollRebuild PROVE RefInv'
<1>T. /\ RefRows /\ RefThreads /\ RefHistory /\ RefSettled
      /\ \A k \in Ref!Actors : RefPlaced(k) /\ RefFresh(k) /\ RefSelected(k)
  BY DEF RefInv, RefTyped
<1>0. /\ Reconciler \in Ref!Actors /\ rpc[Reconciler] = "rewrite" /\ Ref!Goto(Reconciler, "record")
      /\ rjob' = [rjob EXCEPT ![Reconciler].path = Ref!Nothing]
  BY RefNoJobType DEF Ref!PollRebuild, Ref!Actors
<1>1. RefThreads'
  BY <1>0, <1>T DEF RefThreads, Ref!Goto, RefSteps
<1>2. /\ rpc'[Reconciler] = "record" /\ rjob'[Reconciler].path = Ref!Nothing
      /\ rjob'[Reconciler].seen = rjob[Reconciler].seen
      /\ \A k \in Ref!Actors \ {Reconciler} : rpc'[k] = rpc[k] /\ rjob'[k] = rjob[k]
  BY <1>0, <1>T DEF RefThreads, Ref!Goto
<1>3. RefPlaced(Reconciler)'
  BY <1>0, <1>2, <1>T, RefNames DEF RefPlaced
<1> QED
  BY <1>0, <1>1, <1>2, <1>3, RefApplyInv DEF Ref!PollRebuild

\* A failed refresh is remembered as one.
LEMMA RefFailInv ==
    ASSUME RefInv, NEW a \in Ref!Actors, stale' = TRUE, moved' = moved \ {a},
           UNCHANGED <<Ref!rows, sets, tunnels, signature, owed, late>>, RefThreads', RefPlaced(a)',
           rpc'[a] \notin {"write", "rewrite", "expire"},
           \A k \in Ref!Actors \ {a} : rpc'[k] = rpc[k] /\ rjob'[k] = rjob[k]
    PROVE  RefInv'
<1>T. /\ RefRows /\ RefThreads /\ RefHistory /\ RefSettled
      /\ \A k \in Ref!Actors : RefPlaced(k) /\ RefFresh(k) /\ RefSelected(k)
  BY DEF RefInv, RefTyped
<1>1. RefRows' /\ RefHistory'
  BY <1>T DEF RefRows, RefHistory, Ref!rows
<1>2. RefFresh(a)' /\ RefSelected(a)' /\ RefSettled'
  BY DEF RefFresh, RefSelected, RefSettled
<1> QED
  BY <1>1, <1>2, RefThreadStep

LEMMA RefRefreshFailsInv == ASSUME RefInv, NEW a \in Ref!Actors, Ref!RefreshFails(a) PROVE RefInv'
<1>T. /\ RefRows /\ RefThreads /\ RefHistory /\ RefSettled
      /\ \A k \in Ref!Actors : RefPlaced(k) /\ RefFresh(k) /\ RefSelected(k)
  BY DEF RefInv, RefTyped
<1>1. /\ RefThreads' /\ RefPlaced(a)' /\ rpc'[a] \in {"idle", "reread"}
      /\ \A k \in Ref!Actors \ {a} : rpc'[k] = rpc[k] /\ rjob'[k] = rjob[k]
  BY <1>T, RefLeaveType DEF Ref!RefreshFails
<1> QED
  BY <1>1, RefFailInv DEF Ref!RefreshFails

LEMMA RefRebuildFailsInv == ASSUME RefInv, NEW h \in Ref!Actors, Ref!RebuildFails(h) PROVE RefInv'
<1>T. /\ RefRows /\ RefThreads /\ RefHistory /\ RefSettled
      /\ \A k \in Ref!Actors : RefPlaced(k) /\ RefFresh(k) /\ RefSelected(k)
  BY DEF RefInv, RefTyped
<1>1. /\ RefThreads' /\ rpc'[h] = "unapplied" /\ rjob'[h] = Ref!NoJob
      /\ \A k \in Ref!Actors \ {h} : rpc'[k] = rpc[k] /\ rjob'[k] = rjob[k]
  BY <1>T, RefNoJobType, RefHoldType DEF Ref!RebuildFails, RefSteps
<1>2. h # Expiry /\ h # Reconciler
  BY <1>T, RefNames DEF Ref!RebuildFails
<1>3. RefPlaced(h)'
  BY <1>1, <1>2, RefNoJobType DEF RefPlaced, Ref!RebuildFails
<1> QED
  BY <1>1, <1>3, RefFailInv DEF Ref!RebuildFails

LEMMA RefPollFailsInv == ASSUME RefInv, Ref!PollFails PROVE RefInv'
<1>T. /\ RefRows /\ RefThreads /\ RefHistory /\ RefSettled
      /\ \A k \in Ref!Actors : RefPlaced(k) /\ RefFresh(k) /\ RefSelected(k)
  BY DEF RefInv, RefTyped
<1>0. Reconciler \in Ref!Actors /\ Ref!Finish(Reconciler)
  BY DEF Ref!PollFails, Ref!Actors
<1>1. /\ RefThreads' /\ rpc'[Reconciler] = "idle" /\ rjob'[Reconciler] = Ref!NoJob
      /\ \A k \in Ref!Actors \ {Reconciler} : rpc'[k] = rpc[k] /\ rjob'[k] = rjob[k]
  BY <1>T, <1>0, RefFinishType
<1>2. RefPlaced(Reconciler)'
  BY <1>1, RefNoJobType DEF RefPlaced
<1> QED
  BY <1>0, <1>1, <1>2, RefFailInv DEF Ref!PollFails

-----------------------------------------------------------------------------
(* Expiry and requests.                                                    *)

LEMMA RefSelectInv == ASSUME RefInv, NEW a \in Ref!Actors, Ref!Select(a) PROVE RefInv'
<1>T. /\ RefRows /\ RefThreads /\ RefHistory /\ RefSettled
      /\ \A k \in Ref!Actors : RefPlaced(k) /\ RefFresh(k) /\ RefSelected(k)
  BY DEF RefInv, RefTyped
<1>0. /\ override = "past" /\ Ref!Goto(a, "expire") /\ moved' = moved \ {a}
      /\ rpc[a] = IF a = Expiry THEN "idle" ELSE "select"
      /\ UNCHANGED <<assigned, override, sets, tunnels, signature, rjob, stale, owed, late>>
  BY DEF Ref!Select, Ref!Looks, Ref!rows
<1>1. /\ RefThreads' /\ rpc'[a] = "expire" /\ rjob'[a] = rjob[a]
      /\ \A k \in Ref!Actors \ {a} : rpc'[k] = rpc[k] /\ rjob'[k] = rjob[k]
  BY <1>0, <1>T, RefGotoType DEF RefSteps
<1>2. RefRows' /\ RefHistory'
  BY <1>0, <1>T DEF RefRows, RefHistory
<1>3. RefPlaced(a)'
  BY <1>0, <1>1, <1>T, RefNames DEF RefPlaced
<1>4. RefFresh(a)' /\ RefSelected(a)' /\ RefSettled'
  BY <1>0, <1>1 DEF RefFresh, RefSelected, RefSettled
<1> QED
  BY <1>0, <1>1, <1>2, <1>3, <1>4, RefThreadStep DEF Ref!rows

\* Whoever changes the rows refreshes the sets next.
LEMMA RefChangeInv ==
    ASSUME RefInv, NEW a \in Ref!Actors, assigned' \in Addresses,
           override' \in Ref!Ends \cup {Ref!Nothing},
           tunnels' \in Ref!Tunnels, UNCHANGED <<sets, signature, stale, owed, late>>,
           Ref!Disturb(a), RefThreads', RefPlaced(a)', rpc'[a] \in {"refresh", "select"},
           \A k \in Ref!Actors \ {a} : rpc'[k] = rpc[k] /\ rjob'[k] = rjob[k]
    PROVE  RefInv'
<1>T. /\ RefRows /\ RefThreads /\ RefHistory /\ RefSettled
      /\ \A k \in Ref!Actors : RefPlaced(k) /\ RefFresh(k) /\ RefSelected(k)
  BY DEF RefInv, RefTyped
<1>1. RefRows'
  BY <1>T DEF RefRows
<1>2. RefHistory'
  BY <1>T DEF RefHistory, Ref!Disturb
<1>3. RefFresh(a)' /\ RefSelected(a)'
  BY DEF RefFresh, RefSelected
<1>4. RefSettled'
  BY DEF RefSettled, RefPending
<1> QED
  BY <1>1, <1>2, <1>3, <1>4, RefThreadStep

LEMMA RefExpireInv == ASSUME RefInv, NEW a \in Ref!Actors, Ref!Expire(a) PROVE RefInv'
<1>T. /\ RefRows /\ RefThreads /\ RefHistory /\ RefSettled
      /\ \A k \in Ref!Actors : RefPlaced(k) /\ RefFresh(k) /\ RefSelected(k)
  BY DEF RefInv, RefTyped
<1>0. /\ rpc[a] = "expire" /\ override' = Ref!Nothing /\ Ref!Goto(a, "refresh") /\ Ref!Disturb(a)
      /\ UNCHANGED <<assigned, sets, tunnels, signature, rjob, stale, owed, late>>
  BY DEF Ref!Expire
<1>1. /\ RefThreads' /\ rpc'[a] = "refresh" /\ rjob'[a] = rjob[a]
      /\ \A k \in Ref!Actors \ {a} : rpc'[k] = rpc[k] /\ rjob'[k] = rjob[k]
  BY <1>0, <1>T, RefGotoType DEF RefSteps
<1>2. RefPlaced(a)'
  BY <1>0, <1>1, <1>T DEF RefPlaced
<1>3. assigned' \in Addresses /\ tunnels' \in Ref!Tunnels
  BY <1>0, <1>T DEF RefRows
<1> QED
  BY <1>0, <1>1, <1>2, <1>3, RefChangeInv

LEMMA RefSetOverrideInv == ASSUME RefInv, NEW h \in Callers, Ref!SetOverride(h) PROVE RefInv'
<1>T. /\ RefRows /\ RefThreads /\ RefHistory /\ RefSettled
      /\ \A k \in Ref!Actors : RefPlaced(k) /\ RefFresh(k) /\ RefSelected(k)
  BY DEF RefInv, RefTyped
<1>0. /\ rpc[h] = "idle" /\ Ref!Goto(h, "set") /\ h \in Ref!Actors
      /\ UNCHANGED <<assigned, override, sets, tunnels, signature, moved, stale, owed, late>>
  BY DEF Ref!SetOverride, Ref!Arrive, Ref!rows, Ref!history, Ref!Actors
<1>1. PICK end \in Ref!Ends \ {"past"} :
        rjob' = [rjob EXCEPT ![h].row = end, ![h].found = (override # Ref!Nothing)]
  BY DEF Ref!SetOverride
<1>2. RefThreads'
  <2>1. rpc' = [rpc EXCEPT ![h] = "set"] /\ "set" \in RefSteps
    BY <1>0 DEF Ref!Goto, RefSteps
  <2>2. end \in Ref!Ends /\ (override # Ref!Nothing) \in BOOLEAN
    OBVIOUS
  <2>3. rpc' \in [Ref!Actors -> RefSteps]
    BY <2>1, <1>T DEF RefThreads
  <2> DEFINE rowEnds == Ref!Ends \cup {Ref!Nothing}
             paths == Addresses \cup {"override", Ref!Nothing}
             tunnelsSeen == Ref!Tunnels \cup {Ref!Nothing}
             jobs == [row : rowEnds, found : BOOLEAN, path : paths, seen : tunnelsSeen,
                      restores : BOOLEAN]
  <2>4. rjob \in [Ref!Actors -> jobs]
    BY <1>T DEF RefThreads
  <2>5. end \in rowEnds
    BY <2>2
  <2> HIDE DEF rowEnds, paths, tunnelsSeen
  <2>6. [rjob[h] EXCEPT !.row = end, !.found = (override # Ref!Nothing)] \in jobs
    BY <1>0, <2>2, <2>4, <2>5
  <2> HIDE DEF jobs
  <2>7. rjob' = [rjob EXCEPT ![h] = [rjob[h] EXCEPT !.row = end, !.found = (override # Ref!Nothing)]]
    BY <1>1
  <2>8. rjob' \in [Ref!Actors -> jobs]
    BY <1>0, <2>4, <2>6, <2>7
  <2> QED
    BY <2>3, <2>8 DEF RefThreads, jobs, rowEnds, paths, tunnelsSeen
<1>3. /\ rpc'[h] = "set" /\ rjob'[h].row = end /\ rjob'[h].path = rjob[h].path
      /\ \A k \in Ref!Actors \ {h} : rpc'[k] = rpc[k] /\ rjob'[k] = rjob[k]
  BY <1>0, <1>1, <1>T DEF RefThreads, Ref!Goto
<1>4. RefRows' /\ RefHistory'
  BY <1>0, <1>T DEF RefRows, RefHistory
<1>5. h # Expiry /\ h # Reconciler /\ end # Ref!Nothing
  BY RefNames DEF Ref!Ends, Ref!Nothing
<1>6. RefPlaced(h)'
  BY <1>0, <1>3, <1>5, <1>T DEF RefPlaced
<1>7. RefFresh(h)' /\ RefSelected(h)'
  BY <1>3 DEF RefFresh, RefSelected
<1>8. RefSettled'
  BY <1>0, <1>3, <1>T DEF RefSettled, RefPending, Ref!Desired, Ref!Live
<1> QED
  BY <1>0, <1>2, <1>3, <1>4, <1>6, <1>7, <1>8, RefThreadStep DEF Ref!rows

LEMMA RefCommitOverrideInv == ASSUME RefInv, NEW h \in Callers, Ref!CommitOverride(h) PROVE RefInv'
<1>T. /\ RefRows /\ RefThreads /\ RefHistory /\ RefSettled
      /\ \A k \in Ref!Actors : RefPlaced(k) /\ RefFresh(k) /\ RefSelected(k)
  BY DEF RefInv, RefTyped
<1>0. /\ rpc[h] = "set" /\ h \in Ref!Actors
      /\ UNCHANGED <<assigned, sets, tunnels, signature, stale, owed, late>>
  BY DEF Ref!CommitOverride, Ref!Actors
<1>1. h # Expiry /\ h # Reconciler
  BY RefNames
<1>2. CASE /\ override' = rjob[h].row /\ Ref!Goto(h, "refresh")
           /\ rjob' = [rjob EXCEPT ![h] = Ref!NoJob] /\ Ref!Disturb(h)
  <2>1. /\ RefThreads' /\ rpc'[h] = "refresh" /\ rjob'[h] = Ref!NoJob
        /\ \A k \in Ref!Actors \ {h} : rpc'[k] = rpc[k] /\ rjob'[k] = rjob[k]
    BY <1>0, <1>2, <1>T, RefNoJobType, RefHoldType DEF RefSteps
  <2>2. RefPlaced(h)'
    BY <1>1, <2>1, RefNoJobType DEF RefPlaced
  <2>3. assigned' \in Addresses /\ override' \in Ref!Ends \cup {Ref!Nothing} /\ tunnels' \in Ref!Tunnels
    BY <1>0, <1>2, <1>T DEF RefRows, RefThreads
  <2> QED
    BY <1>0, <1>2, <2>1, <2>2, <2>3, RefChangeInv
<1>3. CASE Ref!Finish(h) /\ UNCHANGED <<override, moved>>
  <2>1. /\ RefThreads' /\ rpc'[h] = "idle" /\ rjob'[h] = Ref!NoJob
        /\ \A k \in Ref!Actors \ {h} : rpc'[k] = rpc[k] /\ rjob'[k] = rjob[k]
    BY <1>0, <1>3, <1>T, RefFinishType
  <2>2. RefPlaced(h)' /\ RefFresh(h)' /\ RefSelected(h)'
    BY <2>1, RefNoJobType DEF RefPlaced, RefFresh, RefSelected
  <2>3. RefRows' /\ RefHistory'
    BY <1>0, <1>3, <1>T DEF RefRows, RefHistory
  <2>4. RefSettled'
    BY <1>0, <1>3, <2>1, <1>T DEF RefSettled, RefPending, Ref!Desired, Ref!Live
  <2> QED
    BY <1>0, <1>3, <2>1, <2>2, <2>3, <2>4, RefThreadStep DEF Ref!rows
<1> QED
  BY <1>2, <1>3 DEF Ref!CommitOverride

LEMMA RefCancelSyncInv == ASSUME RefInv, NEW h \in Callers, Ref!Cancel(h) \/ Ref!Sync(h) PROVE RefInv'
<1>T. /\ RefRows /\ RefThreads /\ RefHistory /\ RefSettled
      /\ \A k \in Ref!Actors : RefPlaced(k) /\ RefFresh(k) /\ RefSelected(k)
  BY DEF RefInv, RefTyped
<1>0. /\ rpc[h] = "idle" /\ Ref!Goto(h, "refresh") /\ h \in Ref!Actors /\ Ref!Disturb(h)
      /\ UNCHANGED <<sets, tunnels, signature, rjob, stale, owed, late>>
  BY DEF Ref!Cancel, Ref!Sync, Ref!Arrive, Ref!Actors
<1>1. /\ RefThreads' /\ rpc'[h] = "refresh" /\ rjob'[h] = rjob[h]
      /\ \A k \in Ref!Actors \ {h} : rpc'[k] = rpc[k] /\ rjob'[k] = rjob[k]
  BY <1>0, <1>T, RefGotoType DEF RefSteps
<1>2. RefPlaced(h)'
  <2>1. h # Expiry /\ h # Reconciler
    BY RefNames
  <2> QED
    BY <1>0, <1>1, <2>1, <1>T DEF RefPlaced
<1>3. assigned' \in Addresses /\ override' \in Ref!Ends \cup {Ref!Nothing} /\ tunnels' \in Ref!Tunnels
  BY <1>0, <1>T DEF RefRows, Ref!Cancel, Ref!Sync
<1> QED
  BY <1>0, <1>1, <1>2, <1>3, RefChangeInv

LEMMA RefRestoreInv == ASSUME RefInv, NEW h \in Callers, Ref!Restore(h) PROVE RefInv'
<1>T. /\ RefRows /\ RefThreads /\ RefHistory /\ RefSettled
      /\ \A k \in Ref!Actors : RefPlaced(k) /\ RefFresh(k) /\ RefSelected(k)
  BY DEF RefInv, RefTyped
<1>0. /\ rpc[h] = "idle" /\ Ref!Goto(h, "select") /\ h \in Ref!Actors /\ Ref!Disturb(h)
      /\ assigned' \in Addresses /\ override' \in Ref!Ends \cup {Ref!Nothing} /\ tunnels' = "down"
      /\ rjob' = [rjob EXCEPT ![h].restores = TRUE]
      /\ UNCHANGED <<sets, signature, stale, owed, late>>
  BY DEF Ref!Restore, Ref!Arrive, Ref!Actors
<1>1. RefThreads'
  <2>1. rpc' = [rpc EXCEPT ![h] = "select"] /\ "select" \in RefSteps
    BY <1>0 DEF Ref!Goto, RefSteps
  <2> QED
    BY <1>0, <2>1, <1>T DEF RefThreads
<1>2. /\ rpc'[h] = "select" /\ rjob'[h].path = rjob[h].path /\ rjob'[h].restores
      /\ \A k \in Ref!Actors \ {h} : rpc'[k] = rpc[k] /\ rjob'[k] = rjob[k]
  BY <1>0, <1>T DEF RefThreads, Ref!Goto
<1>3. RefPlaced(h)'
  <2>1. h # Expiry /\ h # Reconciler
    BY RefNames
  <2> QED
    BY <1>0, <1>2, <2>1, <1>T DEF RefPlaced
<1> QED
  BY <1>0, <1>1, <1>2, <1>3, RefChangeInv DEF Ref!Tunnels

LEMMA RefNothingPastInv == ASSUME RefInv, NEW h \in Callers, Ref!NothingPast(h) PROVE RefInv'
<1>T. /\ RefRows /\ RefThreads /\ RefHistory /\ RefSettled
      /\ \A k \in Ref!Actors : RefPlaced(k) /\ RefFresh(k) /\ RefSelected(k)
  BY DEF RefInv, RefTyped
<1>0. /\ rpc[h] = "select" /\ Ref!Goto(h, "reread") /\ h \in Ref!Actors
      /\ UNCHANGED <<assigned, override, sets, tunnels, signature, rjob, moved, stale, owed, late>>
  BY DEF Ref!NothingPast, Ref!Actors, Ref!rows, Ref!history
<1>1. /\ RefThreads' /\ rpc'[h] = "reread" /\ rjob'[h] = rjob[h]
      /\ \A k \in Ref!Actors \ {h} : rpc'[k] = rpc[k] /\ rjob'[k] = rjob[k]
  BY <1>0, <1>T, RefGotoType DEF RefSteps
<1>2. RefPlaced(h)'
  BY <1>0, <1>1, <1>T DEF RefPlaced
<1>3. RefRows' /\ RefHistory' /\ RefFresh(h)' /\ RefSelected(h)' /\ RefSettled'
  BY <1>0, <1>1, <1>T DEF RefRows, RefHistory, RefFresh, RefSelected, RefSettled, RefPending
<1> QED
  BY <1>0, <1>1, <1>2, <1>3, RefThreadStep DEF Ref!rows

LEMMA RefInvalidateInv == ASSUME RefInv, NEW h \in Callers, Ref!Invalidate(h) PROVE RefInv'
<1>T. /\ RefRows /\ RefThreads /\ RefHistory /\ RefSettled
      /\ \A k \in Ref!Actors : RefPlaced(k) /\ RefFresh(k) /\ RefSelected(k)
  BY DEF RefInv, RefTyped
<1>0. /\ rpc[h] \in {"invalidate", "unapplied"} /\ Ref!Finish(h) /\ h \in Ref!Actors
      /\ signature' = Ref!Nothing
      /\ owed' \in BOOLEAN /\ late' \in BOOLEAN
      /\ UNCHANGED <<assigned, override, sets, tunnels, moved, stale>>
  BY DEF Ref!Invalidate, Ref!Actors, Ref!rows
<1>1. /\ RefThreads' /\ rpc'[h] = "idle" /\ rjob'[h] = Ref!NoJob
      /\ \A k \in Ref!Actors \ {h} : rpc'[k] = rpc[k] /\ rjob'[k] = rjob[k]
  BY <1>0, <1>T, RefFinishType
<1>2. RefPlaced(h)' /\ RefFresh(h)' /\ RefSelected(h)'
  BY <1>1, RefNoJobType DEF RefPlaced, RefFresh, RefSelected
<1>3. RefRows' /\ RefHistory'
  BY <1>0, <1>T DEF RefRows, RefHistory
<1>4. RefSettled'
  BY <1>0, <1>1, <1>T DEF RefSettled, RefPending, Ref!Desired, Ref!Live
<1> QED
  BY <1>0, <1>1, <1>2, <1>3, <1>4, RefThreadStep DEF Ref!rows

-----------------------------------------------------------------------------
(* The reconciler's loop, tunnels and time.                                *)

LEMMA RefPollInv == ASSUME RefInv, Ref!Poll PROVE RefInv'
<1>T. /\ RefRows /\ RefThreads /\ RefHistory /\ RefSettled
      /\ \A k \in Ref!Actors : RefPlaced(k) /\ RefFresh(k) /\ RefSelected(k)
  BY DEF RefInv, RefTyped
<1>0. /\ rpc[Reconciler] = "idle" /\ Ref!Goto(Reconciler, "reread") /\ Reconciler \in Ref!Actors
      /\ rjob' = [rjob EXCEPT ![Reconciler].seen = tunnels] /\ tunnels \in Ref!Tunnels
      /\ UNCHANGED <<assigned, override, sets, tunnels, signature, moved, stale, owed, late>>
  BY <1>T DEF Ref!Poll, Ref!Actors, Ref!rows, Ref!history, RefRows
<1>1. RefThreads'
  BY <1>0, <1>T DEF RefThreads, Ref!Goto, RefSteps
<1>2. /\ rpc'[Reconciler] = "reread" /\ rjob'[Reconciler].path = rjob[Reconciler].path
      /\ rjob'[Reconciler].seen = tunnels
      /\ \A k \in Ref!Actors \ {Reconciler} : rpc'[k] = rpc[k] /\ rjob'[k] = rjob[k]
  BY <1>0, <1>T DEF RefThreads, Ref!Goto
<1>3. RefPlaced(Reconciler)'
  BY <1>0, <1>2, <1>T, RefNames DEF RefPlaced
<1>4. RefRows' /\ RefHistory' /\ RefFresh(Reconciler)' /\ RefSelected(Reconciler)' /\ RefSettled'
  BY <1>0, <1>2, <1>T DEF RefRows, RefHistory, RefFresh, RefSelected, RefSettled, RefPending
<1> QED
  BY <1>0, <1>1, <1>2, <1>3, <1>4, RefThreadStep DEF Ref!rows

LEMMA RefRecordInv == ASSUME RefInv, Ref!Record PROVE RefInv'
<1>T. /\ RefRows /\ RefThreads /\ RefHistory /\ RefSettled
      /\ \A k \in Ref!Actors : RefPlaced(k) /\ RefFresh(k) /\ RefSelected(k)
  BY DEF RefInv, RefTyped
<1>0. /\ rpc[Reconciler] = "record" /\ Ref!Finish(Reconciler) /\ Reconciler \in Ref!Actors
      /\ signature' = rjob[Reconciler].seen
      /\ UNCHANGED <<assigned, override, sets, tunnels, moved, stale, owed, late>>
  BY DEF Ref!Record, Ref!Actors, Ref!rows, Ref!history
<1>1. /\ RefThreads' /\ rpc'[Reconciler] = "idle" /\ rjob'[Reconciler] = Ref!NoJob
      /\ \A k \in Ref!Actors \ {Reconciler} : rpc'[k] = rpc[k] /\ rjob'[k] = rjob[k]
  BY <1>0, <1>T, RefFinishType
<1>2. RefPlaced(Reconciler)' /\ RefFresh(Reconciler)' /\ RefSelected(Reconciler)'
  BY <1>1, RefNoJobType DEF RefPlaced, RefFresh, RefSelected
<1>3. RefRows' /\ RefHistory'
  BY <1>0, <1>T DEF RefRows, RefHistory, RefThreads
<1>4. RefSettled'
  BY <1>0, <1>1, <1>T DEF RefSettled, RefPending, Ref!Desired, Ref!Live
<1> QED
  BY <1>0, <1>1, <1>2, <1>3, <1>4, RefThreadStep DEF Ref!rows

\* Threads stay where they are, and an override may end.
LEMMA RefOutsideInv ==
    ASSUME RefInv, UNCHANGED <<assigned, sets, signature, Ref!threads, Ref!history>>,
           tunnels' \in Ref!Tunnels,
           override' = override \/ override' = "past"
    PROVE  RefInv'
<1>T. /\ RefRows /\ RefThreads /\ RefHistory /\ RefSettled
      /\ \A k \in Ref!Actors : RefPlaced(k) /\ RefFresh(k) /\ RefSelected(k)
  BY DEF RefInv, RefTyped
<1>0. UNCHANGED <<rpc, rjob, moved, stale, owed, late>>
  BY DEF Ref!threads, Ref!history
<1>1. RefRows'
  BY <1>T DEF RefRows, Ref!Ends
<1>2. RefThreads' /\ RefHistory'
  BY <1>0, <1>T DEF RefThreads, RefHistory
<1>3. ASSUME NEW k \in Ref!Actors PROVE RefPlaced(k)' /\ RefSelected(k)'
  BY <1>0, <1>T DEF RefPlaced, RefSelected
<1>4. ASSUME NEW k \in Ref!Actors PROVE RefFresh(k)'
  BY <1>0, <1>T DEF RefFresh, Ref!Desired, Ref!Live
<1>5. RefSettled'
  BY <1>0, <1>T DEF RefSettled, Ref!Desired, Ref!Live
<1> QED
  BY <1>1, <1>2, <1>3, <1>4, <1>5 DEF RefInv, RefTyped

-----------------------------------------------------------------------------
LEMMA RefInvNext == ASSUME RefInv, [Ref!Next]_(Ref!vars) PROVE RefInv'
<1>1. ASSUME NEW a \in Ref!Actors,
             Ref!ReadRows(a) \/ Ref!WriteSets(a) \/ Ref!RefreshFails(a) \/ Ref!Select(a) \/ Ref!Expire(a)
      PROVE  RefInv'
  BY <1>1, RefReadInv, RefWriteSetsInv, RefRefreshFailsInv, RefSelectInv, RefExpireInv DEF Ref!ReadRows
<1>2. ASSUME NEW h \in Callers,
             \/ Ref!SetOverride(h) \/ Ref!CommitOverride(h) \/ Ref!Cancel(h) \/ Ref!Sync(h)
             \/ Ref!Restore(h) \/ Ref!NothingPast(h) \/ Ref!RereadRows(h) \/ Ref!Rebuild(h)
             \/ Ref!RebuildFails(h) \/ Ref!Invalidate(h)
      PROVE  RefInv'
  <2>1. h \in Ref!Actors
    BY DEF Ref!Actors
  <2> QED
    BY <1>2, <2>1, RefSetOverrideInv, RefCommitOverrideInv, RefCancelSyncInv, RefRestoreInv,
       RefNothingPastInv,
       RefReadInv, RefRebuildInv, RefRebuildFailsInv, RefInvalidateInv DEF Ref!RereadRows
<1>3. CASE Ref!ReconcilerStep
  <2>1. Reconciler \in Ref!Actors
    BY DEF Ref!Actors
  <2> QED
    BY <1>3, <2>1, RefPollInv, RefReadInv, RefPollRebuildInv, RefRecordInv, RefPollFailsInv
    DEF Ref!ReconcilerStep, Ref!PollRows
<1>4. CASE Ref!TunnelChanges
  BY <1>4, RefOutsideInv DEF Ref!TunnelChanges, Ref!rows
<1>5. CASE Ref!TimePasses
  BY <1>5, RefOutsideInv DEF Ref!TimePasses, RefInv, RefTyped, RefRows
<1>6. CASE UNCHANGED Ref!vars
  BY <1>6, RefOutsideInv DEF Ref!vars, Ref!rows, RefInv, RefTyped, RefRows
<1> QED
  BY <1>1, <1>2, <1>3, <1>4, <1>5, <1>6 DEF Ref!Next

\* Rows, sets and what the threads hold keep their types.
LEMMA RefTypes == RefInv => Ref!TypeOK
BY DEF RefInv, RefTyped, RefRows, RefHistory, RefPlaced, Ref!TypeOK

-----------------------------------------------------------------------------
(* Observability: what pages show of tunnels and DNS policies.             *)

ObsNames == Exits \cup {Obs!Nothing, Obs!Failed}
ObsSteps ==
    {"idle", "exit_status", "exit_prune", "groups", "dns_prune", "dns_read", "invalidate"}
        \cup Obs!ExitSteps \cup Obs!DnsSteps
ObsLoads ==
    [active : BOOLEAN, target : Obs!Policies \cup {Obs!Nothing}, answer : ObsNames, quiet : BOOLEAN]

ObsRows ==
    /\ profile \in BOOLEAN /\ group \in Obs!Policies \cup {Obs!Nothing}
    /\ tunnel \in Exits \cup {Obs!Nothing}
    /\ ~profile => group = Obs!Nothing /\ tunnel = Obs!Nothing

ObsDns ==
    [cached : BOOLEAN, checking : BOOLEAN, state : {"ok", Obs!Failed, Obs!Nothing},
     resolvers : Obs!Policies \cup {Obs!Nothing}, exit : Exits \cup {Obs!Nothing},
     configured : Resolvers \cup {Obs!Nothing}]

ObsCaches ==
    /\ exits \in [cached : BOOLEAN, connected : BOOLEAN, checking : BOOLEAN,
                  probe : {"ok", Obs!Failed, Obs!Nothing}, ip : Exits \cup {Obs!Nothing}]
    /\ exits.probe = "ok" => exits.ip # Obs!Nothing
    /\ dns \in ObsDns /\ (dns.state = "ok" <=> dns.resolvers # Obs!Nothing)

ObsThreads ==
    /\ opc \in [Obs!Actors -> ObsSteps] /\ ojob \in [Obs!Actors -> ObsLoads]
    /\ \A a \in Obs!Actors :
        /\ opc[a] \in {"exit_publish", "dns_publish"} => ojob[a].answer # Obs!Nothing
        /\ opc[a] \in {"dns_read"} \cup Obs!DnsSteps => ojob[a].target # Obs!Nothing

\* What a thread that nothing disturbed has found is still what there is: the
\* exit of the tunnel, and the policy that was probed for.
ObsHeld(a) ==
    /\ opc[a] \in {"exit_publish", "dns_publish"} /\ ojob[a].quiet =>
        ojob[a].answer \in {tunnel, Obs!Failed}
    /\ opc[a] \in Obs!DnsSteps /\ ojob[a].quiet =>
        tunnel # Obs!Nothing /\ group \in {ojob[a].target, Obs!Nothing}

\* What a sound cache says is what there is, while it is looked at again too.
ObsSound ==
    /\ sound \subseteq {"exit", "dns"}
    /\ "exit" \in sound /\ exits.probe = "ok" => exits.ip = tunnel
    /\ "dns" \in sound => tunnel # Obs!Nothing
    /\ "dns" \in sound /\ group # Obs!Nothing =>
        /\ dns.state = "ok" => dns.resolvers = group /\ dns.exit = tunnel
        /\ group \in Resolvers => dns.configured = group

ObsInv == ObsRows /\ ObsCaches /\ ObsThreads /\ (\A a \in Obs!Actors : ObsHeld(a)) /\ ObsSound

LEMMA ObsNothing ==
    /\ Obs!Nothing \notin Exits /\ Obs!Failed \notin Exits /\ Obs!Nothing \notin Resolvers
    /\ Obs!Nothing # Obs!Failed /\ Obs!Failed # "ok" /\ Obs!Nothing # "ok"
    /\ Obs!Nothing \notin Obs!Policies /\ Obs!Inherit \notin Resolvers
BY NamesAssumption DEF Obs!Nothing, Obs!Failed, Ref!Nothing, Obs!Inherit, Obs!Policies

LEMMA ObsActors == Loop \in Obs!Actors /\ Callers \subseteq Obs!Actors
BY DEF Obs!Actors

LEMMA ObsNoJob ==
    /\ Obs!NoJob \in ObsLoads /\ ~Obs!NoJob.quiet
BY DEF Obs!NoJob, ObsLoads, ObsNames

LEMMA ObsInitInv == Obs!Init => ObsInv
<1> SUFFICES ASSUME Obs!Init PROVE ObsInv
  OBVIOUS
<1>1. ObsRows
  BY DEF Obs!Init, ObsRows, Obs!Policies
<1>2. ObsCaches
  BY ObsNothing DEF Obs!Init, ObsCaches, ObsDns, Obs!NoExit, Obs!NoDns
<1>3. ObsThreads /\ \A a \in Obs!Actors : ObsHeld(a)
  BY ObsNoJob DEF Obs!Init, ObsThreads, ObsHeld, ObsSteps, Obs!DnsSteps
<1>4. ObsSound
  BY DEF Obs!Init, ObsSound
<1> QED
  BY <1>1, <1>2, <1>3, <1>4 DEF ObsInv

-----------------------------------------------------------------------------
(* Steps of a thread: rows and tunnels are as they were.                   *)

\* A step of one thread, whose new load is known.
LEMMA ObsMove ==
    ASSUME ObsThreads, NEW a \in Obs!Actors, NEW step \in ObsSteps, NEW held \in ObsLoads,
           opc' = [opc EXCEPT ![a] = step], ojob' = [ojob EXCEPT ![a] = held],
           step \in {"exit_publish", "dns_publish"} => held.answer # Obs!Nothing,
           step \in {"dns_read"} \cup Obs!DnsSteps => held.target # Obs!Nothing
    PROVE  /\ ObsThreads' /\ opc'[a] = step /\ ojob'[a] = held
           /\ \A k \in Obs!Actors \ {a} : opc'[k] = opc[k] /\ ojob'[k] = ojob[k]
<1>1. /\ opc' \in [Obs!Actors -> ObsSteps] /\ ojob' \in [Obs!Actors -> ObsLoads]
      /\ opc'[a] = step /\ ojob'[a] = held
      /\ \A k \in Obs!Actors \ {a} : opc'[k] = opc[k] /\ ojob'[k] = ojob[k]
  BY DEF ObsThreads
<1> QED
  BY <1>1 DEF ObsThreads

LEMMA ObsThreadStep ==
    ASSUME ObsInv, NEW a \in Obs!Actors, UNCHANGED <<profile, group, tunnel>>,
           \A k \in Obs!Actors \ {a} : opc'[k] = opc[k] /\ ojob'[k] = ojob[k],
           ObsThreads', ObsCaches', ObsHeld(a)', ObsSound'
    PROVE  ObsInv'
<1>1. ObsRows'
  BY DEF ObsInv, ObsRows
<1>2. ASSUME NEW k \in Obs!Actors \ {a} PROVE ObsHeld(k)'
  BY <1>2 DEF ObsInv, ObsHeld
<1> QED
  BY <1>1, <1>2 DEF ObsInv

\* Threads that hold nothing, wherever they go next.
LEMMA ObsFinished ==
    ASSUME ObsInv, NEW a \in Obs!Actors, NEW step \in {"idle", "groups", "dns_prune"},
           opc' = [opc EXCEPT ![a] = step], ojob' = [ojob EXCEPT ![a] = Obs!NoJob]
    PROVE  /\ ObsThreads' /\ ObsHeld(a)'
           /\ \A k \in Obs!Actors \ {a} : opc'[k] = opc[k] /\ ojob'[k] = ojob[k]
<1>1. step \in ObsSteps
  BY DEF ObsSteps
<1>2. ObsThreads
  BY DEF ObsInv
<1>3. /\ ObsThreads' /\ opc'[a] = step
      /\ \A k \in Obs!Actors \ {a} : opc'[k] = opc[k] /\ ojob'[k] = ojob[k]
  BY <1>1, <1>2, ObsNoJob, ObsMove DEF Obs!DnsSteps
<1> QED
  BY <1>3 DEF ObsHeld, Obs!DnsSteps

LEMMA ObsReadProfilesInv == ASSUME ObsInv, Obs!ReadProfiles PROVE ObsInv'
<1> DEFINE step == IF profile THEN "exit_status" ELSE "exit_prune"
           held == [ojob[Loop] EXCEPT !.active = profile]
<1>T. ObsRows /\ ObsCaches /\ ObsThreads /\ ObsSound
  BY DEF ObsInv
<1>0. /\ opc' = [opc EXCEPT ![Loop] = step] /\ ojob' = [ojob EXCEPT ![Loop] = held]
      /\ UNCHANGED <<profile, group, tunnel, exits, dns, sound>>
  BY <1>T, ObsActors DEF Obs!ReadProfiles, Obs!Hold, Obs!Goto, Obs!rows, Obs!caches, ObsThreads, ObsLoads
<1>1. step \in ObsSteps /\ held \in ObsLoads
  BY <1>T, ObsActors DEF ObsSteps, ObsLoads, ObsThreads, ObsRows
<1>2. /\ ObsThreads' /\ opc'[Loop] = step
      /\ \A k \in Obs!Actors \ {Loop} : opc'[k] = opc[k] /\ ojob'[k] = ojob[k]
  <2> HIDE DEF held
  <2> QED
    BY <1>T, <1>0, <1>1, ObsActors, ObsMove DEF Obs!DnsSteps
<1>3. ObsHeld(Loop)'
  BY <1>2 DEF ObsHeld, Obs!DnsSteps
<1>4. ObsCaches' /\ ObsSound'
  BY <1>0, <1>T DEF ObsCaches, ObsSound
<1> QED
  BY <1>0, <1>2, <1>3, <1>4, ObsActors, ObsThreadStep

LEMMA ObsExitStatusInv == ASSUME ObsInv, Obs!ExitStatus PROVE ObsInv'
<1>T. ObsRows /\ ObsCaches /\ ObsThreads /\ ObsSound /\ ObsHeld(Loop) /\ Loop \in Obs!Actors
  BY ObsActors DEF ObsInv
<1>0. UNCHANGED <<profile, group, tunnel, dns, sound>>
  BY DEF Obs!ExitStatus, Obs!rows
<1>1. PICK some \in BOOLEAN, busy \in BOOLEAN :
          exits' = [exits EXCEPT !.cached = TRUE, !.connected = some, !.checking = busy]
  BY <1>T DEF Obs!ExitStatus, Obs!Observed, ObsCaches
<1>2. exits'.probe = exits.probe /\ exits'.ip = exits.ip
  BY <1>1, <1>T DEF ObsCaches
<1>3. ObsCaches' /\ ObsSound'
  BY <1>0, <1>1, <1>2, <1>T DEF ObsCaches, ObsSound
<1>4. CASE Obs!Goto(Loop, "exit_prune") /\ UNCHANGED ojob
  <2>1. /\ opc' \in [Obs!Actors -> ObsSteps] /\ opc'[Loop] = "exit_prune"
        /\ \A k \in Obs!Actors \ {Loop} : opc'[k] = opc[k] /\ ojob'[k] = ojob[k]
    BY <1>4, <1>T DEF Obs!Goto, ObsThreads, ObsSteps
  <2>2. ObsThreads' /\ ObsHeld(Loop)'
    BY <1>4, <1>T, <2>1 DEF ObsThreads, ObsHeld, Obs!DnsSteps
  <2> QED
    BY <1>0, <1>3, <1>T, <2>1, <2>2, ObsThreadStep
<1>5. CASE Obs!Hold(Loop, "exit_probe", "quiet", TRUE)
  <2> DEFINE held == [ojob[Loop] EXCEPT !.quiet = TRUE]
  <2>1. /\ opc' = [opc EXCEPT ![Loop] = "exit_probe"] /\ ojob' = [ojob EXCEPT ![Loop] = held]
        /\ held \in ObsLoads /\ "exit_probe" \in ObsSteps
    BY <1>5, <1>T DEF Obs!Hold, Obs!Goto, ObsThreads, ObsLoads, ObsSteps, Obs!ExitSteps
  <2>2. /\ ObsThreads' /\ opc'[Loop] = "exit_probe"
        /\ \A k \in Obs!Actors \ {Loop} : opc'[k] = opc[k] /\ ojob'[k] = ojob[k]
    <3> HIDE DEF held
    <3> QED
      BY <1>T, <2>1, ObsMove DEF Obs!DnsSteps
  <2>3. ObsHeld(Loop)'
    BY <2>2 DEF ObsHeld, Obs!DnsSteps
  <2> QED
    BY <1>0, <1>3, <1>T, <2>2, <2>3, ObsThreadStep
<1> QED
  BY <1>4, <1>5 DEF Obs!ExitStatus

\* A probe finds the exit of the tunnel, or fails.
LEMMA ObsProbeInv ==
    ASSUME ObsInv, NEW a \in Obs!Actors, NEW found \in Exits \cup {Obs!Failed},
           Obs!Probe(found), UNCHANGED <<profile, group, tunnel, exits, dns, sound>>,
           NEW step \in {"exit_publish", "dns_publish"}, Obs!Hold(a, step, "answer", found),
           step = "dns_publish" => opc[a] = "dns_probe"
    PROVE  ObsInv'
<1> DEFINE held == [ojob[a] EXCEPT !.answer = found]
<1>T. ObsRows /\ ObsCaches /\ ObsThreads /\ ObsSound /\ ObsHeld(a)
  BY DEF ObsInv
<1>1. found \in {tunnel, Obs!Failed} /\ found # Obs!Nothing
  BY ObsNothing DEF Obs!Probe
<1>2. /\ opc' = [opc EXCEPT ![a] = step] /\ ojob' = [ojob EXCEPT ![a] = held]
      /\ held \in ObsLoads /\ step \in ObsSteps /\ held.answer = found
      /\ held.target = ojob[a].target /\ held.quiet = ojob[a].quiet
  BY <1>T DEF Obs!Hold, Obs!Goto, ObsThreads, ObsLoads, ObsNames, ObsSteps, Obs!ExitSteps, Obs!DnsSteps
<1>3. step \in {"dns_read"} \cup Obs!DnsSteps => held.target # Obs!Nothing
  BY <1>2, <1>T DEF ObsThreads, Obs!DnsSteps
<1>4. /\ ObsThreads' /\ opc'[a] = step /\ ojob'[a] = held
      /\ \A k \in Obs!Actors \ {a} : opc'[k] = opc[k] /\ ojob'[k] = ojob[k]
  <2> HIDE DEF held
  <2> QED
    BY <1>T, <1>1, <1>2, <1>3, ObsMove
<1>5. ObsHeld(a)'
  <2> HIDE DEF held
  <2> QED
    BY <1>1, <1>2, <1>4, <1>T DEF ObsHeld, Obs!DnsSteps
<1>6. ObsCaches' /\ ObsSound'
  BY <1>T DEF ObsCaches, ObsSound
<1> QED
  BY <1>4, <1>5, <1>6, ObsThreadStep

LEMMA ObsExitPublishInv == ASSUME ObsInv, Obs!ExitPublish PROVE ObsInv'
<1> DEFINE found == ojob[Loop].answer
<1>T. ObsRows /\ ObsCaches /\ ObsThreads /\ ObsSound /\ ObsHeld(Loop) /\ Loop \in Obs!Actors
  BY ObsActors DEF ObsInv
<1>0. /\ opc[Loop] = "exit_publish" /\ opc' = [opc EXCEPT ![Loop] = "exit_prune"]
      /\ exits' = [cached |-> TRUE, connected |-> TRUE, checking |-> FALSE,
                   probe |-> IF found = Obs!Failed THEN Obs!Failed ELSE "ok",
                   ip |-> IF found = Obs!Failed THEN exits.ip ELSE found]
      /\ sound' = IF ojob[Loop].quiet THEN sound \cup {"exit"} ELSE sound \ {"exit"}
      /\ UNCHANGED <<ojob, profile, group, tunnel, dns>>
  BY DEF Obs!ExitPublish, Obs!Goto, Obs!rows
<1>1. found \in Exits \cup {Obs!Failed}
  BY <1>0, <1>T DEF ObsThreads, ObsLoads, ObsNames
<1>2. /\ exits' \in [cached : BOOLEAN, connected : BOOLEAN, checking : BOOLEAN,
                     probe : {"ok", Obs!Failed, Obs!Nothing}, ip : Exits \cup {Obs!Nothing}]
      /\ exits'.probe = "ok" => exits'.ip = found /\ found # Obs!Failed
  BY <1>0, <1>1, <1>T, ObsNothing DEF ObsCaches
<1>3. ObsCaches'
  BY <1>0, <1>1, <1>2, <1>T, ObsNothing DEF ObsCaches
<1>4. ObsSound'
  BY <1>0, <1>2, <1>T DEF ObsSound, ObsHeld
<1>5. /\ opc' \in [Obs!Actors -> ObsSteps] /\ opc'[Loop] = "exit_prune"
      /\ \A k \in Obs!Actors \ {Loop} : opc'[k] = opc[k] /\ ojob'[k] = ojob[k]
  BY <1>0, <1>T DEF ObsThreads, ObsSteps
<1>6. ObsThreads' /\ ObsHeld(Loop)'
  BY <1>0, <1>5, <1>T DEF ObsThreads, ObsHeld, Obs!DnsSteps
<1> QED
  BY <1>0, <1>3, <1>4, <1>5, <1>6, <1>T, ObsThreadStep

\* A state that is dropped says nothing.
LEMMA ObsNoExit ==
    ASSUME ObsCaches, ObsSound, exits' = exits \/ exits' = Obs!NoExit,
           UNCHANGED <<group, tunnel, dns, sound>>
    PROVE  ObsCaches' /\ ObsSound'
<1>1. CASE exits' = exits
  BY <1>1 DEF ObsCaches, ObsSound
<1>2. CASE exits' = Obs!NoExit
  <2>1. /\ exits' \in [cached : BOOLEAN, connected : BOOLEAN, checking : BOOLEAN,
                       probe : {"ok", Obs!Failed, Obs!Nothing}, ip : Exits \cup {Obs!Nothing}]
        /\ exits'.probe # "ok"
    BY <1>2, ObsNothing DEF Obs!NoExit
  <2> QED
    BY <2>1 DEF ObsCaches, ObsSound
<1> QED
  BY <1>1, <1>2

LEMMA ObsExitPruneInv == ASSUME ObsInv, Obs!ExitPrune PROVE ObsInv'
<1>0. /\ opc' = [opc EXCEPT ![Loop] = "groups"] /\ ojob' = [ojob EXCEPT ![Loop] = Obs!NoJob]
      /\ exits' = exits \/ exits' = Obs!NoExit
      /\ UNCHANGED <<profile, group, tunnel, dns, sound>>
  BY DEF Obs!ExitPrune, Obs!Goto, Obs!rows
<1>1. ObsCaches' /\ ObsSound'
  BY <1>0, ObsNoExit DEF ObsInv
<1> QED
  BY <1>0, <1>1, ObsActors, ObsFinished, ObsThreadStep

LEMMA ObsInvalidateInv == ASSUME ObsInv, NEW h \in Callers, Obs!Invalidate(h) PROVE ObsInv'
<1>0. /\ opc' = [opc EXCEPT ![h] = "idle"] /\ ojob' = [ojob EXCEPT ![h] = Obs!NoJob]
      /\ exits' = exits \/ exits' = Obs!NoExit
      /\ UNCHANGED <<profile, group, tunnel, dns, sound>> /\ h \in Obs!Actors
  BY ObsActors DEF Obs!Invalidate, Obs!Finish, Obs!Goto, Obs!rows
<1>1. ObsCaches' /\ ObsSound'
  BY <1>0, ObsNoExit DEF ObsInv
<1> QED
  BY <1>0, <1>1, ObsFinished, ObsThreadStep

\* A thread takes a group's policy along.
LEMMA ObsTargetInv ==
    ASSUME ObsInv, NEW a \in Obs!Actors, group # Obs!Nothing,
           NEW held \in ObsLoads, held.target = group,
           opc' = [opc EXCEPT ![a] = "dns_read"], ojob' = [ojob EXCEPT ![a] = held],
           UNCHANGED <<profile, group, tunnel>>, ObsCaches', ObsSound'
    PROVE  ObsInv'
<1>1. ObsThreads /\ "dns_read" \in ObsSteps
  BY DEF ObsInv, ObsSteps
<1>2. /\ ObsThreads' /\ opc'[a] = "dns_read"
      /\ \A k \in Obs!Actors \ {a} : opc'[k] = opc[k] /\ ojob'[k] = ojob[k]
  BY <1>1, ObsMove
<1>3. ObsHeld(a)'
  BY <1>2 DEF ObsHeld, Obs!DnsSteps
<1> QED
  BY <1>2, <1>3, ObsThreadStep

\* What follows a thread's probe: it has no more use for what it holds.
LEMMA ObsDone ==
    ASSUME ObsInv, NEW a \in Obs!Actors, Obs!Done(a)
    PROVE  /\ ObsThreads' /\ ObsHeld(a)'
           /\ \A k \in Obs!Actors \ {a} : opc'[k] = opc[k] /\ ojob'[k] = ojob[k]
<1>1. CASE opc' = [opc EXCEPT ![a] = "idle"] /\ ojob' = [ojob EXCEPT ![a] = Obs!NoJob]
  BY <1>1, ObsFinished
<1>2. CASE opc' = [opc EXCEPT ![a] = "dns_prune"] /\ ojob' = ojob
  <2>1. ObsThreads
    BY DEF ObsInv
  <2>2. /\ opc' \in [Obs!Actors -> ObsSteps] /\ opc'[a] = "dns_prune"
        /\ \A k \in Obs!Actors \ {a} : opc'[k] = opc[k] /\ ojob'[k] = ojob[k]
    BY <1>2, <2>1 DEF ObsThreads, ObsSteps
  <2> QED
    BY <1>2, <2>1, <2>2 DEF ObsThreads, ObsHeld, Obs!DnsSteps
<1> QED
  BY <1>1, <1>2 DEF Obs!Done, Obs!Finish, Obs!Goto

LEMMA ObsReadGroupsInv == ASSUME ObsInv, Obs!ReadGroups PROVE ObsInv'
<1>T. ObsRows /\ ObsCaches /\ ObsThreads /\ ObsSound /\ ObsHeld(Loop) /\ Loop \in Obs!Actors
  BY ObsActors DEF ObsInv
<1>0. UNCHANGED <<profile, group, tunnel, exits, dns, sound>> /\ opc[Loop] = "groups"
  BY DEF Obs!ReadGroups, Obs!rows, Obs!caches
<1>1. ObsCaches' /\ ObsSound'
  BY <1>0, <1>T DEF ObsCaches, ObsSound
<1>2. CASE group = Obs!Nothing
  <2>1. opc' = [opc EXCEPT ![Loop] = "dns_prune"] /\ ojob' = ojob
    BY <1>2 DEF Obs!ReadGroups, Obs!Goto
  <2>2. /\ opc' \in [Obs!Actors -> ObsSteps] /\ opc'[Loop] = "dns_prune"
        /\ \A k \in Obs!Actors \ {Loop} : opc'[k] = opc[k] /\ ojob'[k] = ojob[k]
    BY <2>1, <1>T DEF ObsThreads, ObsSteps
  <2>3. ObsThreads' /\ ObsHeld(Loop)'
    BY <2>1, <2>2, <1>T DEF ObsThreads, ObsHeld, Obs!DnsSteps
  <2> QED
    BY <1>0, <1>1, <1>T, <2>2, <2>3, ObsThreadStep
<1>3. CASE group # Obs!Nothing
  <2> DEFINE held == [ojob[Loop] EXCEPT !.target = group, !.active = TRUE]
  <2>1. /\ opc' = [opc EXCEPT ![Loop] = "dns_read"] /\ ojob' = [ojob EXCEPT ![Loop] = held]
    BY <1>3, <1>T DEF Obs!ReadGroups, Obs!Goto, ObsThreads, ObsLoads
  <2>2. held \in ObsLoads /\ held.target = group
    BY <1>T DEF ObsRows, ObsThreads, ObsLoads
  <2> HIDE DEF held
  <2> QED
    BY <1>0, <1>1, <1>3, <1>T, <2>1, <2>2, ObsTargetInv
<1> QED
  BY <1>2, <1>3

LEMMA ObsButtonInv == ASSUME ObsInv, NEW h \in Callers, Obs!Button(h) PROVE ObsInv'
<1> DEFINE held == [ojob[h] EXCEPT !.target = group]
<1>T. ObsRows /\ ObsCaches /\ ObsThreads /\ ObsSound /\ h \in Obs!Actors
  BY ObsActors DEF ObsInv
<1>0. /\ UNCHANGED <<profile, group, tunnel, exits, dns, sound>> /\ group # Obs!Nothing
      /\ opc' = [opc EXCEPT ![h] = "dns_read"] /\ ojob' = [ojob EXCEPT ![h] = held]
  BY <1>T DEF Obs!Button, Obs!Hold, Obs!Goto, Obs!rows, Obs!caches
<1>1. held \in ObsLoads /\ held.target = group
  BY <1>T DEF ObsRows, ObsThreads, ObsLoads
<1>2. ObsCaches' /\ ObsSound'
  BY <1>0, <1>T DEF ObsCaches, ObsSound
<1> HIDE DEF held
<1> QED
  BY <1>0, <1>1, <1>2, <1>T, ObsTargetInv

\* What a result sets, and what it leaves as it was.
LEMMA ObsUnavailable ==
    ASSUME ObsCaches
    PROVE  /\ Obs!Unavailable \in ObsDns
           /\ Obs!Unavailable.state # "ok" /\ Obs!Unavailable.resolvers = Obs!Nothing
BY ObsNothing DEF ObsCaches, ObsDns, Obs!Unavailable

LEMMA ObsAnswered ==
    ASSUME ObsCaches, NEW policy \in Obs!Policies, NEW exit \in Exits
    PROVE  /\ Obs!Answered(policy, exit) \in ObsDns
           /\ Obs!Answered(policy, exit).state = "ok"
           /\ Obs!Answered(policy, exit).resolvers = policy
           /\ Obs!Answered(policy, exit).exit = exit
BY ObsUnavailable DEF Obs!Answered, ObsDns

LEMMA ObsConfigured ==
    ASSUME NEW state \in ObsDns, NEW policy \in Obs!Policies
    PROVE  /\ Obs!Configured(state, policy) \in ObsDns
           /\ Obs!Configured(state, policy).state = state.state
           /\ Obs!Configured(state, policy).resolvers = state.resolvers
           /\ Obs!Configured(state, policy).exit = state.exit
           /\ policy \in Resolvers => Obs!Configured(state, policy).configured = policy
<1>1. policy # Obs!Inherit <=> policy \in Resolvers
  BY ObsNothing DEF Obs!Policies
<1> QED
  BY <1>1 DEF Obs!Configured, ObsDns

LEMMA ObsDnsReadInv == ASSUME ObsInv, NEW a \in Obs!Actors, Obs!DnsRead(a) PROVE ObsInv'
<1>T. ObsRows /\ ObsCaches /\ ObsThreads /\ ObsSound /\ ObsHeld(a)
  BY DEF ObsInv
<1>0. UNCHANGED <<profile, group, tunnel, exits, sound>> /\ opc[a] = "dns_read"
  BY DEF Obs!DnsRead, Obs!rows
<1>1. CASE tunnel = Obs!Nothing
  <2>1. dns' = Obs!Unavailable /\ Obs!Done(a)
    BY <1>1 DEF Obs!DnsRead
  <2>2. ObsCaches'
    BY <1>0, <1>T, <2>1, ObsUnavailable DEF ObsCaches
  <2>3. ObsSound'
    BY <1>0, <1>1, <1>T DEF ObsSound
  <2> QED
    BY <1>0, <2>1, <2>2, <2>3, ObsDone, ObsThreadStep
<1>2. CASE tunnel # Obs!Nothing
  <2> DEFINE target == IF group = Obs!Nothing THEN ojob[a].target ELSE group
             held == [ojob[a] EXCEPT !.quiet = TRUE, !.target = target]
  <2>1. /\ dns' = [dns EXCEPT !.cached = TRUE, !.checking = TRUE]
        /\ opc' = [opc EXCEPT ![a] = "dns_probe"] /\ ojob' = [ojob EXCEPT ![a] = held]
    BY <1>2, <1>T DEF Obs!DnsRead, Obs!Goto, ObsThreads, ObsLoads
  <2>2. /\ dns'.state = dns.state /\ dns'.resolvers = dns.resolvers
        /\ dns'.exit = dns.exit /\ dns'.configured = dns.configured /\ ObsCaches'
    BY <1>0, <1>T, <2>1 DEF ObsCaches, ObsDns
  <2>3. ObsSound'
    BY <1>0, <1>T, <2>2 DEF ObsSound
  <2>4. target \in Obs!Policies /\ target # Obs!Nothing
    BY <1>0, <1>T, ObsNothing DEF ObsRows, ObsThreads, ObsLoads
  <2>5. held \in ObsLoads /\ held.target = target /\ "dns_probe" \in ObsSteps
    BY <1>T, <2>4 DEF ObsThreads, ObsLoads, ObsSteps, Obs!DnsSteps
  <2>6. /\ ObsThreads' /\ opc'[a] = "dns_probe" /\ ojob'[a] = held
        /\ \A k \in Obs!Actors \ {a} : opc'[k] = opc[k] /\ ojob'[k] = ojob[k]
    <3> HIDE DEF held, target
    <3> QED
      BY <1>T, <2>1, <2>4, <2>5, ObsMove DEF Obs!DnsSteps
  <2>7. ObsHeld(a)'
    BY <1>0, <1>2, <2>5, <2>6 DEF ObsHeld
  <2> QED
    BY <1>0, <2>2, <2>3, <2>6, <2>7, ObsThreadStep
<1> QED
  BY <1>1, <1>2

LEMMA ObsDnsRaisesInv == ASSUME ObsInv, NEW a \in Obs!Actors, Obs!DnsRaises(a) PROVE ObsInv'
<1>0. /\ opc' = [opc EXCEPT ![a] = "idle"] /\ ojob' = [ojob EXCEPT ![a] = Obs!NoJob]
      /\ UNCHANGED <<profile, group, tunnel, exits, dns, sound>>
  BY DEF Obs!DnsRaises, Obs!Finish, Obs!Goto, Obs!rows, Obs!caches
<1>1. ObsCaches' /\ ObsSound'
  BY <1>0 DEF ObsInv, ObsCaches, ObsSound
<1> QED
  BY <1>0, <1>1, ObsFinished, ObsThreadStep

LEMMA ObsDnsPublishInv == ASSUME ObsInv, NEW a \in Obs!Actors, Obs!DnsPublish(a) PROVE ObsInv'
<1> DEFINE policy == ojob[a].target
           found == ojob[a].answer
           result == IF found = Obs!Failed THEN Obs!Unavailable ELSE Obs!Answered(policy, found)
<1>T. ObsRows /\ ObsCaches /\ ObsThreads /\ ObsSound /\ ObsHeld(a)
  BY DEF ObsInv
<1>0. /\ opc[a] = "dns_publish" /\ Obs!Done(a)
      /\ dns' = Obs!Configured(result, policy)
      /\ sound' = IF ojob[a].quiet THEN sound \cup {"dns"} ELSE sound \ {"dns"}
      /\ UNCHANGED <<profile, group, tunnel, exits>>
  BY DEF Obs!DnsPublish, Obs!rows
<1>1. policy \in Obs!Policies /\ found \in Exits \cup {Obs!Failed}
  BY <1>0, <1>T DEF ObsThreads, ObsLoads, ObsNames, Obs!DnsSteps
<1>2. /\ result \in ObsDns /\ (result.state = "ok" <=> result.resolvers # Obs!Nothing)
      /\ result.state = "ok" =>
            result.resolvers = policy /\ result.exit = found /\ found # Obs!Failed
  <2>1. CASE found = Obs!Failed
    BY <2>1, <1>T, ObsUnavailable
  <2>2. CASE found # Obs!Failed
    <3> HIDE DEF policy, found
    <3>1. /\ result = Obs!Answered(policy, found) /\ found \in Exits
          /\ policy # Obs!Nothing
      BY <2>2, <1>1, ObsNothing
    <3> QED
      BY <3>1, <2>2, <1>1, <1>T, ObsAnswered
  <2> QED
    BY <2>1, <2>2
<1>3. /\ dns' \in ObsDns /\ dns'.state = result.state /\ dns'.resolvers = result.resolvers
      /\ dns'.exit = result.exit /\ (policy \in Resolvers => dns'.configured = policy)
  <2> HIDE DEF policy, result
  <2> QED
    BY <1>0, <1>1, <1>2, ObsConfigured
<1>4. ObsCaches'
  <2> HIDE DEF policy, result
  <2> QED
    BY <1>0, <1>2, <1>3, <1>T DEF ObsCaches
<1>5. ASSUME ojob[a].quiet
      PROVE  /\ tunnel # Obs!Nothing /\ (group # Obs!Nothing => group = policy)
             /\ found \in {tunnel, Obs!Failed}
  BY <1>5, <1>0, <1>T DEF ObsHeld, Obs!DnsSteps
<1>6. ObsSound'
  <2>1. CASE ojob[a].quiet
    <3> HIDE DEF policy, found, result
    <3> QED
      BY <2>1, <1>0, <1>2, <1>3, <1>5, <1>T DEF ObsSound
  <2>2. CASE ~ojob[a].quiet
    BY <2>2, <1>0, <1>T DEF ObsSound
  <2> QED
    BY <2>1, <2>2
<1> QED
  BY <1>0, <1>4, <1>6, ObsDone, ObsThreadStep

LEMMA ObsDnsPruneInv == ASSUME ObsInv, Obs!DnsPrune PROVE ObsInv'
<1>T. ObsRows /\ ObsCaches /\ ObsThreads /\ ObsSound
  BY DEF ObsInv
<1>0. /\ opc' = [opc EXCEPT ![Loop] = "idle"] /\ ojob' = [ojob EXCEPT ![Loop] = Obs!NoJob]
      /\ \/ UNCHANGED <<dns, sound>>
         \/ dns' = Obs!NoDns /\ sound' = sound \ {"dns"}
      /\ UNCHANGED <<profile, group, tunnel, exits>>
  BY DEF Obs!DnsPrune, Obs!Finish, Obs!Goto, Obs!rows
<1>1. Obs!NoDns \in ObsDns /\ Obs!NoDns.state # "ok" /\ Obs!NoDns.resolvers = Obs!Nothing
  BY ObsNothing DEF Obs!NoDns, ObsDns
<1>2. ObsCaches'
  BY <1>0, <1>1, <1>T DEF ObsCaches
<1>3. ObsSound'
  BY <1>0, <1>T DEF ObsSound
<1> QED
  BY <1>0, <1>2, <1>3, ObsActors, ObsFinished, ObsThreadStep

-----------------------------------------------------------------------------
(* Rows and tunnels change: who looks at them is disturbed.                *)

LEMMA ObsDisturbed ==
    ASSUME ObsInv, NEW steps, Obs!DnsSteps \subseteq steps, Obs!Disturb(steps),
           opc' \in [Obs!Actors -> ObsSteps],
           \A a \in Obs!Actors : opc'[a] = opc[a] \/ opc'[a] = "invalidate",
           tunnel' = tunnel \/ Obs!ExitSteps \subseteq steps,
           ObsRows', UNCHANGED <<exits, dns>>, ObsSound'
    PROVE  ObsInv'
<1>1. ASSUME NEW a \in Obs!Actors
      PROVE  /\ ojob'[a] \in ObsLoads
             /\ ojob'[a].answer = ojob[a].answer /\ ojob'[a].target = ojob[a].target
             /\ ojob'[a].quiet => ojob[a].quiet /\ opc[a] \notin steps
  BY <1>1 DEF ObsInv, ObsThreads, ObsLoads, Obs!Disturb
<1>2. ojob' \in [Obs!Actors -> ObsLoads]
  BY <1>1 DEF Obs!Disturb
<1>3. ObsThreads'
  BY <1>1, <1>2 DEF ObsInv, ObsThreads, Obs!DnsSteps
<1>4. ASSUME NEW a \in Obs!Actors PROVE ObsHeld(a)'
  BY <1>1 DEF ObsInv, ObsHeld, Obs!ExitSteps, Obs!DnsSteps
<1>5. ObsCaches'
  BY DEF ObsInv, ObsCaches
<1> QED
  BY <1>3, <1>4, <1>5 DEF ObsInv

LEMMA ObsTunnelChangesInv == ASSUME ObsInv, Obs!TunnelChanges PROVE ObsInv'
<1>0. /\ Obs!Disturb(Obs!ExitSteps \cup Obs!DnsSteps) /\ sound' = {}
      /\ tunnel' \in (IF profile THEN Exits ELSE {}) \cup {Obs!Nothing}
      /\ UNCHANGED <<profile, group, exits, dns, opc>>
  BY DEF Obs!TunnelChanges, Obs!rows, Obs!caches
<1>1. ObsRows' /\ ObsSound' /\ opc' \in [Obs!Actors -> ObsSteps]
  BY <1>0 DEF ObsInv, ObsRows, ObsSound, ObsThreads
<1> QED
  BY <1>0, <1>1, ObsDisturbed

LEMMA ObsEditGroupInv == ASSUME ObsInv, Obs!EditGroup PROVE ObsInv'
<1>0. /\ Obs!Disturb(Obs!DnsSteps) /\ sound' = sound \ {"dns"}
      /\ group' \in (IF profile THEN Obs!Policies ELSE {}) \cup {Obs!Nothing}
      /\ UNCHANGED <<profile, tunnel, exits, dns, opc>>
  BY DEF Obs!EditGroup, Obs!caches
<1>1. ObsRows' /\ ObsSound' /\ opc' \in [Obs!Actors -> ObsSteps]
  BY <1>0 DEF ObsInv, ObsRows, ObsSound, ObsThreads
<1> QED
  BY <1>0, <1>1, ObsDisturbed

LEMMA ObsEditProfileInv == ASSUME ObsInv, Obs!EditProfile PROVE ObsInv'
<1>0. /\ Obs!Disturb(Obs!ExitSteps \cup Obs!DnsSteps) /\ sound' = {}
      /\ group = Obs!Nothing /\ profile' = ~profile /\ tunnel' = Obs!Nothing
      /\ UNCHANGED <<group, exits, dns, opc>>
  BY DEF Obs!EditProfile, Obs!caches
<1>1. ObsRows' /\ ObsSound' /\ opc' \in [Obs!Actors -> ObsSteps]
  BY <1>0 DEF ObsInv, ObsRows, ObsSound, ObsThreads
<1> QED
  BY <1>0, <1>1, ObsDisturbed

LEMMA ObsRestoreInv == ASSUME ObsInv, NEW h \in Callers, Obs!Restore(h) PROVE ObsInv'
<1>0. /\ Obs!Disturb(Obs!ExitSteps \cup Obs!DnsSteps) /\ sound' = {} /\ h \in Obs!Actors
      /\ opc' = [opc EXCEPT ![h] = "invalidate"]
      /\ profile' \in BOOLEAN /\ tunnel' = Obs!Nothing
      /\ group' \in (IF profile' THEN Obs!Policies ELSE {}) \cup {Obs!Nothing}
      /\ UNCHANGED <<exits, dns>>
  BY ObsActors DEF Obs!Restore, Obs!Goto, Obs!caches
<1>1. ObsRows' /\ ObsSound'
  BY <1>0 DEF ObsRows, ObsSound
<1>2. /\ opc' \in [Obs!Actors -> ObsSteps]
      /\ \A a \in Obs!Actors : opc'[a] = opc[a] \/ opc'[a] = "invalidate"
  BY <1>0 DEF ObsInv, ObsThreads, ObsSteps
<1> QED
  BY <1>0, <1>1, <1>2, ObsDisturbed

-----------------------------------------------------------------------------
LEMMA ObsDnsStepInv == ASSUME ObsInv, NEW a \in Obs!Actors, Obs!DnsStep(a) PROVE ObsInv'
<1>1. CASE Obs!DnsProbe(a)
  BY <1>1, ObsProbeInv DEF Obs!DnsProbe, Obs!rows, Obs!caches
<1> QED
  BY <1>1, ObsDnsReadInv, ObsDnsRaisesInv, ObsDnsPublishInv DEF Obs!DnsStep

LEMMA ObsLoopStepInv == ASSUME ObsInv, Obs!LoopStep PROVE ObsInv'
<1>1. CASE Obs!ExitProbe
  BY <1>1, ObsActors, ObsProbeInv DEF Obs!ExitProbe, Obs!rows, Obs!caches
<1> QED
  BY <1>1, ObsActors, ObsReadProfilesInv, ObsExitStatusInv, ObsExitPublishInv, ObsExitPruneInv,
     ObsReadGroupsInv, ObsDnsStepInv, ObsDnsPruneInv DEF Obs!LoopStep

LEMMA ObsInvNext == ASSUME ObsInv, [Obs!Next]_(Obs!vars) PROVE ObsInv'
<1>1. ASSUME NEW h \in Callers,
             Obs!Button(h) \/ Obs!DnsStep(h) \/ Obs!Restore(h) \/ Obs!Invalidate(h)
      PROVE  ObsInv'
  <2>1. h \in Obs!Actors
    BY ObsActors
  <2> QED
    BY <1>1, <2>1, ObsButtonInv, ObsDnsStepInv, ObsRestoreInv, ObsInvalidateInv
<1>2. CASE UNCHANGED Obs!vars
  BY <1>2 DEF ObsInv, ObsRows, ObsCaches, ObsThreads, ObsHeld, ObsSound, Obs!vars,
              Obs!rows, Obs!caches, Obs!threads
<1> QED
  BY <1>1, <1>2, ObsLoopStepInv, ObsTunnelChangesInv, ObsEditGroupInv, ObsEditProfileInv DEF Obs!Next

\* Caches, loads and steps keep their types.
LEMMA ObsTypes == ObsInv => Obs!TypeOK
BY DEF ObsInv, ObsRows, ObsCaches, ObsDns, ObsThreads, ObsSound, Obs!TypeOK

\* What pages show is so, unless something changed after the last look.
LEMMA ObsVerdicts == ObsInv => Obs!VerdictsSound
BY DEF ObsInv, ObsSound, Obs!VerdictsSound, Obs!Shown

-----------------------------------------------------------------------------
(* Names: a free one is found, and sync-names finds one for every group.   *)

LEMMA NumberedDistinct ==
    ASSUME NEW S, NEW base \in Seq(S), NEW n \in Nat \ {0}, NEW k \in Nat \ {0},
           Lib!Numbered(base, n) = Lib!Numbered(base, k)
    PROVE  n = k
<1>1. base \in Seq(S \cup Nat)
  <2>1. base \in [1 .. Len(base) -> S] /\ Len(base) \in Nat
    OBVIOUS
  <2> QED
    BY <2>1, SeqDef
<1>2. ASSUME NEW i \in Nat
      PROVE  Append(base, i)[Len(base) + 1] = i /\ Len(Append(base, i)) = Len(base) + 1
  BY <1>1
<1>3. ASSUME Append(base, n) = Append(base, k) PROVE n = k
  BY <1>2, <1>3
<1>4. ASSUME NEW i \in Nat PROVE Append(base, i) # base
  <2>1. Len(base) # Len(base) + 1
    BY <1>1
  <2> QED
    BY <1>2, <2>1
<1> QED
  BY <1>3, <1>4 DEF Lib!Numbered

\* The least of some numbers is one of them.
LEMMA LeastIsOne ==
    ASSUME NEW S \in SUBSET Nat, S # {}
    PROVE  Least(S) \in S /\ \A k \in S : Least(S) <= k
BY LeastExists DEF Least

\* Of a name and its numbered forms one is free, and the first that is is taken,
\* if each name that is taken is that of one of room rows.
LEMMA FirstFreeIsFree ==
    ASSUME NEW S, NEW base \in Seq(S), NEW D, IsFiniteSet(D), NEW name, NEW taken,
           \A t \in taken : \E d \in D : name[d] = t
    PROVE  /\ Lib!FirstFree(base, taken, Cardinality(D)) \notin taken
           /\ \E n \in Nat \ {0} : Lib!FirstFree(base, taken, Cardinality(D)) = Lib!Numbered(base, n)
<1> DEFINE room == Cardinality(D)
           free == {n \in 1 .. room + 1 : Lib!Numbered(base, n) \notin taken}
           owner == [n \in 1 .. room + 1 |-> CHOOSE d \in D : name[d] = Lib!Numbered(base, n)]
<1>1. room \in Nat
  BY FS_CardinalityType
<1>2. IsFiniteSet(1 .. room + 1) /\ Cardinality(1 .. room + 1) = room + 1
  <2> HIDE DEF room, free, owner
  <2>1. 1 \in Int /\ room + 1 \in Int /\ ~(1 > room + 1)
    BY <1>1
  <2> QED
    BY <1>1, <2>1, FS_Interval
<1>3. free # {}
  <2> SUFFICES ASSUME \A n \in 1 .. room + 1 : Lib!Numbered(base, n) \in taken PROVE FALSE
    OBVIOUS
  <2>1. \A n \in 1 .. room + 1 : owner[n] \in D /\ name[owner[n]] = Lib!Numbered(base, n)
    OBVIOUS
  <2>2. owner \in [1 .. room + 1 -> D]
    BY <2>1
  <2>3. Cardinality(D) < Cardinality(1 .. room + 1)
    BY <1>1, <1>2
  <2>4. PICK n \in 1 .. room + 1, k \in 1 .. room + 1 : n # k /\ owner[n] = owner[k]
    <3> DEFINE numbers == 1 .. room + 1
    <3>1. IsFiniteSet(numbers) /\ owner \in [numbers -> D] /\ Cardinality(D) < Cardinality(numbers)
      BY <1>2, <2>2, <2>3
    <3> HIDE DEF owner, numbers
    <3>2. \E n, k \in numbers : n # k /\ owner[n] = owner[k]
      BY <3>1, FS_PigeonHole
    <3> QED
      BY <3>2 DEF numbers
  <2>5. Lib!Numbered(base, n) = Lib!Numbered(base, k)
    BY <2>1, <2>4
  <2> QED
    BY <1>1, <2>4, <2>5, NumberedDistinct
<1>4. Least(free) \in free
  <2>1. free \subseteq Nat
    BY <1>1
  <2> HIDE DEF free
  <2> QED
    BY <1>3, <2>1, LeastIsOne
<1>5. Lib!FirstFree(base, taken, room) = Lib!Numbered(base, Least(free))
  BY DEF Lib!FirstFree, Lib!Least, Least
<1>6. Least(free) \in Nat \ {0} /\ Lib!Numbered(base, Least(free)) \notin taken
  BY <1>1, <1>4
<1> QED
  BY <1>5, <1>6

\* The names that sync-names gives to the groups of B, t, are what its loop
\* gives: each is the first that is free after those before it.
Proposal(t, g, B, base, reserved, room) ==
    Lib!FirstFree(base[g], reserved \cup {t[k] : k \in {b \in B : b < g}}, room)

Proposed(t, B, base, reserved, room) ==
    t = [g \in B |-> Proposal(t, g, B, base, reserved, room)]

\* A proposal depends on those before it only.
LEMMA ProposalDepends ==
    ASSUME NEW B, NEW C, NEW t, NEW u, NEW g, NEW base, NEW reserved, NEW room,
           {b \in B : b < g} = {b \in C : b < g}, \A k \in {b \in B : b < g} : t[k] = u[k]
    PROVE  Proposal(t, g, B, base, reserved, room) = Proposal(u, g, C, base, reserved, room)
<1>1. {t[k] : k \in {b \in B : b < g}} = {u[k] : k \in {b \in C : b < g}}
  OBVIOUS
<1> QED
  BY <1>1 DEF Proposal

LEMMA ProposalsExist ==
    ASSUME NEW N \in Nat, NEW B \in SUBSET (1 .. N), NEW base, NEW reserved, NEW room
    PROVE  \E t : Proposed(t, B, base, reserved, room)
<1> DEFINE below(n) == {b \in B : b < n}
           failing == {n \in Nat : ~ \E t : Proposed(t, below(n), base, reserved, room)}
<1>0. \A b \in B : b \in Nat /\ 1 <= b /\ b <= N
  OBVIOUS
<1>1. 0 \notin failing
  <2>1. below(0) = {}
    <3>1. \A b \in B : ~(b < 0)
      BY <1>0
    <3> QED
      BY <3>1
  <2>2. Proposed([g \in {} |-> g], {}, base, reserved, room)
    BY DEF Proposed
  <2> QED
    BY <2>1, <2>2
<1>2. ASSUME NEW n \in Nat, n \notin failing PROVE n + 1 \notin failing
  <2>1. PICK t : Proposed(t, below(n), base, reserved, room)
    BY <1>2
  <2> DEFINE u == [g \in below(n + 1) |->
                      IF g = n THEN Proposal(t, n, below(n), base, reserved, room) ELSE t[g]]
  <2>2. ASSUME NEW g \in below(n + 1)
        PROVE  u[g] = Proposal(u, g, below(n + 1), base, reserved, room)
    <3>1. /\ {b \in below(n) : b < g} = {b \in below(n + 1) : b < g}
          /\ \A k \in {b \in below(n) : b < g} : t[k] = u[k]
      <4>1. g \in Nat /\ g < n + 1
        BY <1>0
      <4>2. \A b \in B : b < g => b < n /\ b < n + 1 /\ b # n
        BY <1>0, <4>1
      <4>3. \A k \in B : k < g => u[k] = t[k]
        BY <4>2
      <4> QED
        BY <4>2, <4>3
    <3>2. Proposal(t, g, below(n), base, reserved, room)
            = Proposal(u, g, below(n + 1), base, reserved, room)
      <4> HIDE DEF u, below
      <4> QED
        BY <3>1, ProposalDepends
    <3>3. g # n => g \in below(n)
      BY <1>0
    <3>4. u[g] = Proposal(t, g, below(n), base, reserved, room)
      <4>1. CASE g = n
        BY <4>1
      <4>2. CASE g # n
        <5>1. u[g] = t[g]
          BY <4>2
        <5> HIDE DEF u, below
        <5> QED
          BY <5>1, <4>2, <3>3, <2>1 DEF Proposed
      <4> QED
        BY <4>1, <4>2
    <3> QED
      BY <3>2, <3>4
  <2>3. Proposed(u, below(n + 1), base, reserved, room)
    <3>1. u = [g \in below(n + 1) |-> u[g]]
      OBVIOUS
    <3> HIDE DEF u, below
    <3>2. [g \in below(n + 1) |-> u[g]]
            = [g \in below(n + 1) |-> Proposal(u, g, below(n + 1), base, reserved, room)]
      BY <2>2
    <3> QED
      BY <3>1, <3>2 DEF Proposed
  <2> HIDE DEF u, below
  <2> QED
    BY <2>3
<1>3. failing = {}
  <2> SUFFICES ASSUME failing # {} PROVE FALSE
    OBVIOUS
  <2>1. PICK m \in failing : \A k \in failing : m <= k
    <3>1. failing \subseteq Nat
      OBVIOUS
    <3> HIDE DEF failing
    <3> QED
      BY <3>1, LeastExists
  <2>2. m \in Nat /\ m # 0
    BY <1>1
  <2>3. m - 1 \in Nat /\ m - 1 \notin failing
    <3> HIDE DEF failing
    <3> QED
      BY <2>1, <2>2
  <2>4. (m - 1) + 1 \notin failing
    <3> HIDE DEF failing
    <3> QED
      BY <1>2, <2>3
  <2>5. (m - 1) + 1 = m
    BY <2>2
  <2> HIDE DEF failing
  <2> QED
    BY <2>4, <2>5
<1>4. below(N + 1) = B /\ N + 1 \in Nat
  <2>1. \A b \in B : b < N + 1
    BY <1>0
  <2>2. below(N + 1) = B
    BY <2>1
  <2> QED
    BY <2>2
<1> HIDE DEF below
<1> QED
  BY <1>3, <1>4

LEMMA ProposalsUnique ==
    ASSUME NEW B \in SUBSET Nat, NEW base, NEW reserved, NEW room, NEW t, NEW u,
           Proposed(t, B, base, reserved, room), Proposed(u, B, base, reserved, room)
    PROVE  t = u
<1> DEFINE differ == {g \in B : t[g] # u[g]}
<1>1. differ = {}
  <2> SUFFICES ASSUME differ # {} PROVE FALSE
    OBVIOUS
  <2>1. PICK g \in differ : \A k \in differ : g <= k
    <3>1. differ \subseteq Nat
      OBVIOUS
    <3> HIDE DEF differ
    <3> QED
      BY <3>1, LeastExists
  <2>2. \A k \in {b \in B : b < g} : t[k] = u[k]
    <3> SUFFICES ASSUME NEW k \in B, k < g PROVE t[k] = u[k]
      OBVIOUS
    <3>1. ~(g <= k)
      OBVIOUS
    <3> QED
      BY <2>1, <3>1
  <2>3. Proposal(t, g, B, base, reserved, room) = Proposal(u, g, B, base, reserved, room)
    <3> HIDE DEF differ
    <3>1. {t[k] : k \in {b \in B : b < g}} = {u[k] : k \in {b \in B : b < g}}
      BY <2>2
    <3> QED
      BY <3>1 DEF Proposal
  <2>4. t[g] = u[g]
    BY <2>3 DEF Proposed
  <2> QED
    BY <2>4
<1>2. t = [g \in B |-> t[g]] /\ u = [g \in B |-> u[g]]
  BY DEF Proposed
<1>3. \A g \in B : t[g] = u[g]
  BY <1>1
<1> HIDE DEF differ
<1> QED
  BY <1>2, <1>3

-----------------------------------------------------------------------------
(* The profile library: configuration files and groups, names.             *)

LibNames == Seq(FormNames \cup Uploads \cup Nat)
LibSteps == {"idle", "write", "commit", "group", "edit", "delete", "unlink", "sync"}

\* Rows have their columns, in tables whose ids and names are distinct.
LibTable(table, last, other) ==
    /\ table = [id \in DOMAIN table |-> table[id]] /\ DOMAIN table \subseteq 1 .. last
    /\ \A id \in DOMAIN table : table[id] = [c \in {"name", other} |-> table[id][c]]
    /\ \A i, k \in DOMAIN table : table[i].name = table[k].name => i = k

LibRows ==
    /\ LibTable(profiles, MaxProfiles, "file") /\ LibTable(groups, MaxGroups, "profile")
    /\ \A id \in DOMAIN profiles : profiles[id].file[2] \in Uploads /\ profiles[id].name \in LibNames
    /\ \A f \in files : f[2] \in Uploads

LibThreads ==
    /\ lpc \in [Handlers -> LibSteps]
    /\ ljob = [h \in Handlers |-> ljob[h]]
    /\ \A h \in Handlers :
        /\ lpc[h] \in {"write", "commit"} => ljob[h].file[2] \in Uploads /\ ljob[h].name \in LibNames
        /\ lpc[h] = "sync" =>
            \A i, k \in DOMAIN ljob[h].plan : ljob[h].plan[i] = ljob[h].plan[k] => i = k

\* Steps at which a request has a file of its own.
LibHolding == {"write", "commit", "delete", "unlink"}

\* Two rows have one file, or two requests, only if the file is contested.
LibAlone ==
    \A i, k \in DOMAIN profiles :
        i # k /\ profiles[i].file = profiles[k].file => profiles[i].file \in contested

LibApart ==
    \A h, k \in Handlers :
        h # k /\ {lpc[h], lpc[k]} \subseteq LibHolding /\ ljob[h].file = ljob[k].file =>
            ljob[h].file \in contested

\* A request's file is that of no row but the one it deletes.
LibClaims(h) ==
    lpc[h] \in LibHolding =>
        \A id \in DOMAIN profiles :
            profiles[id].file = ljob[h].file =>
                ljob[h].file \in contested \/ (lpc[h] = "delete" /\ id = ljob[h].id)

LibStored(h) == lpc[h] = "commit" => ljob[h].file \in files \cup contested

LibFiles == Lib!ConfigKept /\ LibAlone /\ LibApart /\ \A h \in Handlers : LibClaims(h) /\ LibStored(h)

\* Steps at which a request is about to delete a profile or give it a group.
LibNaming == {"delete", "group", "edit"}

\* Two requests for one profile, of which one may delete it.
LibPairs ==
    \A h, k \in Handlers :
        h # k /\ {lpc[h], lpc[k]} \subseteq LibNaming /\ ljob[h].id = ljob[k].id =>
            ljob[h].id \in crossed \cup {Lib!WAN}

LibDeletes(h) ==
    lpc[h] = "delete" =>
        /\ ljob[h].id \in DOMAIN profiles \cup crossed /\ ljob[h].id # Lib!WAN
        /\ \A g \in DOMAIN groups : groups[g].profile = ljob[h].id => ljob[h].id \in crossed

LibCreates(h) ==
    lpc[h] \in {"group", "edit"} => ljob[h].id \in DOMAIN profiles \cup crossed \cup {Lib!WAN}

LibGroups == Lib!GroupsBacked /\ LibPairs /\ \A h \in Handlers : LibDeletes(h) /\ LibCreates(h)

LibInv == LibRows /\ LibThreads /\ LibFiles /\ LibGroups

LEMMA LibLoad ==
    ASSUME NEW held, NEW f \in {"id", "name", "file", "group", "import", "edited", "columns", "plan"}
    PROVE  Lib!Load(held)[f] = IF f \in DOMAIN held THEN held[f] ELSE Lib!NoJob[f]
BY DEF Lib!Load, Lib!NoJob

LEMMA LibHold ==
    ASSUME LibThreads, NEW h \in Handlers, NEW step \in LibSteps, Lib!Goto(h, step), NEW held,
           ljob' = [ljob EXCEPT ![h] = held],
           step \in {"write", "commit"} => held.file[2] \in Uploads /\ held.name \in LibNames,
           step = "sync" => \A i, k \in DOMAIN held.plan : held.plan[i] = held.plan[k] => i = k
    PROVE  /\ LibThreads' /\ lpc'[h] = step /\ ljob'[h] = held
           /\ \A k \in Handlers \ {h} : lpc'[k] = lpc[k] /\ ljob'[k] = ljob[k]
<1>1. /\ lpc' \in [Handlers -> LibSteps] /\ lpc'[h] = step /\ ljob'[h] = held
      /\ ljob' = [k \in Handlers |-> ljob'[k]]
      /\ \A k \in Handlers \ {h} : lpc'[k] = lpc[k] /\ ljob'[k] = ljob[k]
  BY DEF LibThreads, Lib!Goto
<1>2. ASSUME NEW k \in Handlers
      PROVE  /\ lpc'[k] \in {"write", "commit"} =>
                  ljob'[k].file[2] \in Uploads /\ ljob'[k].name \in LibNames
             /\ lpc'[k] = "sync" =>
                  \A i, j \in DOMAIN ljob'[k].plan : ljob'[k].plan[i] = ljob'[k].plan[j] => i = j
  <2>1. CASE k = h
    BY <1>1, <2>1
  <2>2. CASE k # h
    BY <1>1, <2>2 DEF LibThreads
  <2> QED
    BY <2>1, <2>2
<1> QED
  BY <1>1, <1>2 DEF LibThreads

LEMMA LibHolds ==
    ASSUME LibThreads, NEW h \in Handlers, NEW step \in LibSteps, NEW held, Lib!Hold(h, step, held),
           step \in {"write", "commit"} =>
               Lib!Load(held).file[2] \in Uploads /\ Lib!Load(held).name \in LibNames,
           step = "sync" =>
               \A i, k \in DOMAIN Lib!Load(held).plan :
                   Lib!Load(held).plan[i] = Lib!Load(held).plan[k] => i = k
    PROVE  /\ LibThreads' /\ lpc'[h] = step /\ ljob'[h] = Lib!Load(held)
           /\ \A k \in Handlers \ {h} : lpc'[k] = lpc[k] /\ ljob'[k] = ljob[k]
<1>1. Lib!Goto(h, step) /\ ljob' = [ljob EXCEPT ![h] = Lib!Load(held)]
  BY DEF Lib!Hold
<1> QED
  BY <1>1, LibHold

LEMMA LibFinish ==
    ASSUME LibThreads, NEW h \in Handlers, Lib!Finish(h)
    PROVE  /\ LibThreads' /\ lpc'[h] = "idle"
           /\ \A k \in Handlers \ {h} : lpc'[k] = lpc[k] /\ ljob'[k] = ljob[k]
BY LibHold DEF Lib!Finish, LibSteps

LEMMA LibGoto ==
    ASSUME LibThreads, NEW h \in Handlers, NEW step \in LibSteps \ {"sync"},
           Lib!Goto(h, step), UNCHANGED ljob,
           step \in {"write", "commit"} => lpc[h] \in {"write", "commit"}
    PROVE  /\ LibThreads' /\ lpc'[h] = step /\ ljob'[h] = ljob[h]
           /\ \A k \in Handlers \ {h} : lpc'[k] = lpc[k] /\ ljob'[k] = ljob[k]
<1>1. ljob' = [ljob EXCEPT ![h] = ljob[h]]
  BY DEF LibThreads
<1>2. step \in {"write", "commit"} => ljob[h].file[2] \in Uploads /\ ljob[h].name \in LibNames
  BY DEF LibThreads
<1> QED
  BY <1>1, <1>2, LibHold

\* A step that adds no row keeps the files of the others, if it removes only
\* what is contested or nobody's.
LEMMA LibFilesStep ==
    ASSUME LibFiles, NEW a \in Handlers, contested \subseteq contested',
           \A k \in Handlers \ {a} : lpc'[k] = lpc[k] /\ ljob'[k] = ljob[k],
           \A id \in DOMAIN profiles' : id \in DOMAIN profiles /\ profiles'[id].file = profiles[id].file,
           \A f \in files \ files' :
               \/ f \in contested'
               \/ /\ \A id \in DOMAIN profiles' : profiles[id].file # f
                  /\ \A k \in Handlers \ {a} : lpc[k] = "commit" => ljob[k].file # f,
           LibClaims(a)', LibStored(a)',
           lpc'[a] \in LibHolding =>
               \A k \in Handlers \ {a} :
                   lpc[k] \in LibHolding /\ ljob[k].file = ljob'[a].file => ljob'[a].file \in contested'
    PROVE  LibFiles'
<1>T. /\ Lib!ConfigKept /\ LibAlone /\ LibApart
      /\ \A k \in Handlers : LibClaims(k) /\ LibStored(k)
  BY DEF LibFiles
<1>1. Lib!ConfigKept'
  BY <1>T DEF Lib!ConfigKept
<1>2. LibAlone'
  BY <1>T DEF LibAlone
<1>3. LibApart'
  BY <1>T DEF LibApart
<1>4. ASSUME NEW k \in Handlers \ {a} PROVE LibClaims(k)'
  BY <1>4, <1>T DEF LibClaims
<1>5. ASSUME NEW k \in Handlers \ {a} PROVE LibStored(k)'
  BY <1>5, <1>T DEF LibStored
<1> QED
  BY <1>1, <1>2, <1>3, <1>4, <1>5 DEF LibFiles

\* A step that deletes no profile and adds no group.
LEMMA LibGroupsStep ==
    ASSUME LibGroups, NEW a \in Handlers, crossed \subseteq crossed',
           \A k \in Handlers \ {a} : lpc'[k] = lpc[k] /\ ljob'[k] = ljob[k],
           DOMAIN profiles \subseteq DOMAIN profiles',
           \A g \in DOMAIN groups' : g \in DOMAIN groups /\ groups'[g].profile = groups[g].profile,
           LibDeletes(a)', LibCreates(a)',
           lpc'[a] \in LibNaming =>
               \A k \in Handlers \ {a} :
                   lpc[k] \in LibNaming /\ ljob[k].id = ljob'[a].id =>
                       ljob'[a].id \in crossed' \cup {Lib!WAN}
    PROVE  LibGroups'
<1>T. /\ Lib!GroupsBacked /\ LibPairs
      /\ \A k \in Handlers : LibDeletes(k) /\ LibCreates(k)
  BY DEF LibGroups
<1>1. Lib!GroupsBacked'
  BY <1>T DEF Lib!GroupsBacked, Lib!WAN
<1>2. LibPairs'
  BY <1>T DEF LibPairs, LibNaming, Lib!WAN
<1>3. ASSUME NEW k \in Handlers \ {a} PROVE LibDeletes(k)' /\ LibCreates(k)'
  BY <1>3, <1>T DEF LibDeletes, LibCreates, Lib!WAN
<1> QED
  BY <1>1, <1>2, <1>3 DEF LibGroups

\* A thread that holds neither a file nor a profile.
LEMMA LibFree ==
    ASSUME NEW a \in Handlers, lpc[a] \in {"idle", "sync"}
    PROVE  LibClaims(a) /\ LibStored(a) /\ LibDeletes(a) /\ LibCreates(a)
BY DEF LibClaims, LibStored, LibDeletes, LibCreates, LibHolding

LEMMA LibNewInv == ASSUME LibInv, NEW h \in Handlers, Lib!New(h) PROVE LibInv'
<1>T. LibRows /\ LibThreads /\ LibFiles /\ LibGroups
  BY DEF LibInv
<1>0. UNCHANGED <<profiles, files, groups, crossed>>
  BY DEF Lib!New, Lib!tables
<1>1. PICK stem \in FormNames, upload \in Uploads, grouped \in BOOLEAN :
        LET file == <<<<stem>>, upload>> IN
        /\ file \notin files
        /\ Lib!Hold(h, "write", [name |-> <<stem>>, file |-> file, group |-> grouped])
        /\ Lib!Contest(h, file)
  BY DEF Lib!New
<1> DEFINE file == <<<<stem>>, upload>>
           held == [name |-> <<stem>>, file |-> file, group |-> grouped]
<1>2. Lib!Load(held).file = file /\ Lib!Load(held).name = <<stem>>
  BY LibLoad
<1>3. file[2] \in Uploads /\ <<stem>> \in LibNames
  BY DEF LibNames
<1>4. /\ LibThreads' /\ lpc'[h] = "write" /\ ljob'[h].file = file
      /\ \A k \in Handlers \ {h} : lpc'[k] = lpc[k] /\ ljob'[k] = ljob[k]
  <2>1. Lib!Hold(h, "write", held) /\ "write" \in LibSteps
    BY <1>1 DEF LibSteps
  <2> HIDE DEF held, file
  <2> QED
    BY <2>1, <1>2, <1>3, <1>T, LibHolds
<1>5. /\ contested \subseteq contested'
      /\ \A k \in Handlers \ {h} : ljob[k].file = file => file \in contested'
  BY <1>1 DEF Lib!Contest
<1>6. LibRows'
  BY <1>0, <1>T DEF LibRows, LibTable
<1>7. LibClaims(h)' /\ LibStored(h)' /\ LibDeletes(h)' /\ LibCreates(h)'
  BY <1>0, <1>1, <1>4, <1>5, <1>T
  DEF LibClaims, LibStored, LibDeletes, LibCreates, LibFiles, Lib!ConfigKept
<1>8. LibFiles'
  BY <1>0, <1>4, <1>5, <1>7, <1>T, LibFilesStep
<1>9. LibGroups'
  BY <1>0, <1>4, <1>7, <1>T, LibGroupsStep DEF LibNaming
<1> QED
  BY <1>4, <1>6, <1>8, <1>9 DEF LibInv

\* A name that is imported is free, if not reserved: one numbered form is.
LEMMA LibUniqueName ==
    ASSUME LibRows, NEW upload \in Uploads
    PROVE  Lib!UniqueName(<<upload>>) \in LibNames
<1> DEFINE ids == 1 .. MaxProfiles
           held == [id \in ids |-> profiles[id].name]
           base == <<upload>>
           taken == Lib!NamesOf(profiles)
<1>1. IsFiniteSet(ids) /\ Cardinality(ids) = MaxProfiles
  <2>1. 1 \in Int /\ MaxProfiles \in Int /\ MaxProfiles \in Nat
    BY TablesAssumption
  <2>2. IsFiniteSet(ids) /\ Cardinality(ids) = IF 1 > MaxProfiles THEN 0 ELSE MaxProfiles - 1 + 1
    BY <2>1, FS_Interval
  <2>3. (IF 1 > MaxProfiles THEN 0 ELSE MaxProfiles - 1 + 1) = MaxProfiles
    BY <2>1
  <2> QED
    BY <2>2, <2>3
<1>2. \A t \in taken : \E id \in ids : held[id] = t
  BY DEF LibRows, LibTable, Lib!NamesOf
<1>3. base \in Seq(Uploads)
  OBVIOUS
<1>4. \E n \in Nat \ {0} : Lib!FirstFree(base, taken, MaxProfiles) = Lib!Numbered(base, n)
  <2> HIDE DEF ids, held, base, taken
  <2> QED
    BY <1>1, <1>2, <1>3, FirstFreeIsFree
<1>5. ASSUME NEW n \in Nat \ {0} PROVE Lib!Numbered(base, n) \in LibNames
  <2>1. base \in LibNames
    BY DEF LibNames
  <2>2. n \in FormNames \cup Uploads \cup Nat
    OBVIOUS
  <2> HIDE DEF base
  <2>3. Append(base, n) \in LibNames
    BY <2>1, <2>2 DEF LibNames
  <2> QED
    BY <2>1, <2>3 DEF Lib!Numbered
<1> QED
  BY <1>4, <1>5 DEF Lib!UniqueName

LEMMA LibImportInv == ASSUME LibInv, NEW h \in Handlers, Lib!Import(h) PROVE LibInv'
<1>T. LibRows /\ LibThreads /\ LibFiles /\ LibGroups
  BY DEF LibInv
<1>0. lpc[h] = "idle" /\ UNCHANGED <<profiles, groups, crossed>>
  BY DEF Lib!Import, Lib!Arrive, Lib!Idle
<1>1. PICK upload \in Uploads, grouped \in BOOLEAN :
        LET name == Lib!UniqueName(<<upload>>)
            file == <<name, upload>> IN
        IF file \in files
        THEN /\ files' = files \ {file}
             /\ contested' = contested \cup {file}
             /\ UNCHANGED <<lpc, ljob>>
        ELSE /\ Lib!Hold(h, "write", [name |-> name, file |-> file, group |-> grouped, import |-> TRUE])
             /\ Lib!Contest(h, file)
             /\ UNCHANGED files
  BY DEF Lib!Import
<1> DEFINE name == Lib!UniqueName(<<upload>>)
           file == <<name, upload>>
           held == [name |-> name, file |-> file, group |-> grouped, import |-> TRUE]
<1>2. Lib!Load(held).file = file /\ Lib!Load(held).name = name
  BY LibLoad
<1>3. file[2] \in Uploads /\ name \in LibNames
  BY <1>T, LibUniqueName
<1>4. CASE file \in files
  <2>1. files' = files \ {file} /\ contested' = contested \cup {file} /\ UNCHANGED <<lpc, ljob>>
    BY <1>1, <1>4
  <2>2. LibRows' /\ LibThreads'
    BY <1>0, <2>1, <1>T DEF LibRows, LibTable, LibThreads
  <2>3. LibClaims(h)' /\ LibStored(h)' /\ LibDeletes(h)' /\ LibCreates(h)'
    BY <1>0, <2>1 DEF LibClaims, LibStored, LibDeletes, LibCreates, LibHolding
  <2> HIDE DEF file, name
  <2>4. LibFiles'
    BY <1>0, <2>1, <2>3, <1>T, LibFilesStep DEF LibHolding
  <2>5. LibGroups'
    BY <1>0, <2>1, <2>3, <1>T, LibGroupsStep DEF LibNaming
  <2> QED
    BY <2>2, <2>4, <2>5 DEF LibInv
<1>5. CASE file \notin files
  <2>0. Lib!Hold(h, "write", held) /\ Lib!Contest(h, file) /\ UNCHANGED files
    BY <1>1, <1>5
  <2> HIDE DEF file, name, held
  <2>1. /\ LibThreads' /\ lpc'[h] = "write" /\ ljob'[h].file = file
        /\ \A k \in Handlers \ {h} : lpc'[k] = lpc[k] /\ ljob'[k] = ljob[k]
    <3>1. "write" \in LibSteps
      BY DEF LibSteps
    <3> QED
      BY <3>1, <2>0, <1>2, <1>3, <1>T, LibHolds
  <2>2. /\ contested \subseteq contested'
        /\ \A k \in Handlers \ {h} : ljob[k].file = file => file \in contested'
    BY <2>0 DEF Lib!Contest
  <2>3. LibRows'
    BY <1>0, <2>0, <1>T DEF LibRows, LibTable
  <2>4. LibClaims(h)' /\ LibStored(h)' /\ LibDeletes(h)' /\ LibCreates(h)'
    BY <1>0, <2>0, <2>1, <2>2, <1>5, <1>T
    DEF LibClaims, LibStored, LibDeletes, LibCreates, LibFiles, Lib!ConfigKept
  <2>5. LibFiles'
    BY <1>0, <2>0, <2>1, <2>2, <2>4, <1>T, LibFilesStep
  <2>6. LibGroups'
    BY <1>0, <2>1, <2>4, <1>T, LibGroupsStep DEF LibNaming
  <2> QED
    BY <2>1, <2>3, <2>5, <2>6 DEF LibInv
<1> QED
  BY <1>4, <1>5

LEMMA LibWriteInv == ASSUME LibInv, NEW h \in Handlers, Lib!Write(h) PROVE LibInv'
<1>T. LibRows /\ LibThreads /\ LibFiles /\ LibGroups
  BY DEF LibInv
<1>1. /\ lpc[h] = "write" /\ Lib!Goto(h, "commit") /\ files' = files \cup {ljob[h].file}
      /\ UNCHANGED <<profiles, groups, ljob, contested, crossed>>
  BY DEF Lib!Write, Lib!history
<1>2. /\ LibThreads' /\ lpc'[h] = "commit" /\ ljob'[h] = ljob[h]
      /\ \A k \in Handlers \ {h} : lpc'[k] = lpc[k] /\ ljob'[k] = ljob[k]
  BY <1>1, <1>T, LibGoto DEF LibSteps
<1>3. LibRows'
  BY <1>1, <1>T DEF LibRows, LibTable, LibThreads
<1>4. LibClaims(h)' /\ LibStored(h)' /\ LibDeletes(h)' /\ LibCreates(h)'
  BY <1>1, <1>2, <1>T DEF LibClaims, LibStored, LibDeletes, LibCreates, LibFiles, LibHolding
<1>5. \A k \in Handlers \ {h} :
        lpc[k] \in LibHolding /\ ljob[k].file = ljob[h].file => ljob[h].file \in contested
  BY <1>1, <1>T DEF LibFiles, LibApart, LibHolding
<1>6. LibFiles'
  BY <1>1, <1>2, <1>4, <1>5, <1>T, LibFilesStep
<1>7. LibGroups'
  BY <1>1, <1>2, <1>4, <1>T, LibGroupsStep DEF LibNaming
<1> QED
  BY <1>2, <1>3, <1>6, <1>7 DEF LibInv

\* A request that ends removes its file only if that is nobody's.
LEMMA LibEnds ==
    ASSUME LibInv, NEW h \in Handlers, lpc[h] \in LibHolding \ {"delete"}, Lib!Finish(h),
           UNCHANGED <<profiles, groups, contested, crossed>>,
           files' \in {files, files \ {ljob[h].file}, files \cup {ljob[h].file}},
           \A f \in files' : f[2] \in Uploads
    PROVE  LibInv'
<1>T. LibRows /\ LibThreads /\ LibFiles /\ LibGroups
  BY DEF LibInv
<1>2. /\ LibThreads' /\ lpc'[h] = "idle"
      /\ \A k \in Handlers \ {h} : lpc'[k] = lpc[k] /\ ljob'[k] = ljob[k]
  BY <1>T, LibFinish
<1>3. LibRows'
  BY <1>T DEF LibRows, LibTable
<1>4. LibClaims(h)' /\ LibStored(h)' /\ LibDeletes(h)' /\ LibCreates(h)'
  BY <1>2 DEF LibClaims, LibStored, LibDeletes, LibCreates, LibHolding
<1>5. /\ \A k \in Handlers \ {h} :
           lpc[k] \in LibHolding /\ ljob[k].file = ljob[h].file => ljob[h].file \in contested
      /\ \A id \in DOMAIN profiles : profiles[id].file = ljob[h].file => ljob[h].file \in contested
  BY <1>T DEF LibFiles, LibApart, LibClaims
<1>6. \A f \in files \ files' :
        \/ f \in contested'
        \/ /\ \A id \in DOMAIN profiles' : profiles[id].file # f
           /\ \A k \in Handlers \ {h} : lpc[k] = "commit" => ljob[k].file # f
  BY <1>5 DEF LibHolding
<1>7. LibFiles'
  BY <1>2, <1>4, <1>6, <1>T, LibFilesStep DEF LibHolding
<1>8. LibGroups'
  BY <1>2, <1>4, <1>T, LibGroupsStep DEF LibNaming
<1> QED
  BY <1>2, <1>3, <1>7, <1>8 DEF LibInv

LEMMA LibWriteFailsInv == ASSUME LibInv, NEW h \in Handlers, Lib!WriteFails(h) PROVE LibInv'
<1>1. /\ lpc[h] \in LibHolding \ {"delete"} /\ Lib!Finish(h)
      /\ UNCHANGED <<profiles, groups, contested, crossed>>
      /\ files' \in {files, files \ {ljob[h].file}, files \cup {ljob[h].file}}
  BY DEF Lib!WriteFails, Lib!history, LibHolding
<1>2. \A f \in files' : f[2] \in Uploads
  BY <1>1 DEF LibInv, LibRows, LibThreads, Lib!WriteFails
<1> QED
  BY <1>1, <1>2, LibEnds

LEMMA LibUnlinkInv == ASSUME LibInv, NEW h \in Handlers, Lib!Unlink(h) PROVE LibInv'
<1>1. /\ lpc[h] \in LibHolding \ {"delete"} /\ Lib!Finish(h)
      /\ UNCHANGED <<profiles, groups, contested, crossed>>
      /\ files' \in {files, files \ {ljob[h].file}}
  BY DEF Lib!Unlink, Lib!history, LibHolding
<1>2. \A f \in files' : f[2] \in Uploads
  BY <1>1 DEF LibInv, LibRows
<1> QED
  BY <1>1, <1>2, LibEnds

\* The new row's id is free, its name taken by nobody, its file claimed by
\* others only if it is contested.
LEMMA LibCommitInv == ASSUME LibInv, NEW h \in Handlers, Lib!Commit(h) PROVE LibInv'
<1>T. LibRows /\ LibThreads /\ LibFiles /\ LibGroups
  BY DEF LibInv
<1>0. lpc[h] = "commit" /\ UNCHANGED <<groups, contested, crossed>>
  BY DEF Lib!Commit, Lib!history
<1> DEFINE name == ljob[h].name
           file == ljob[h].file
           id == Lib!NextId(profiles)
           row == [name |-> name, file |-> file]
           held == [id |-> id, name |-> name]
<1>1. CASE name \in Lib!NamesOf(profiles)
  <2>1. files' = files \ {file} /\ Lib!Finish(h) /\ UNCHANGED profiles
    BY <1>1 DEF Lib!Commit
  <2>2. \A f \in files' : f[2] \in Uploads
    BY <2>1, <1>T DEF LibRows
  <2> QED
    BY <1>0, <2>1, <2>2, LibEnds DEF LibHolding
<1>2. CASE name \notin Lib!NamesOf(profiles)
  <2>1. /\ id <= MaxProfiles /\ profiles' = Lib!With(profiles, id, row) /\ UNCHANGED files
        /\ IF ljob[h].group THEN Lib!Hold(h, "group", held) ELSE Lib!Finish(h)
    BY <1>2 DEF Lib!Commit
  <2>2. id \in Nat \ {0} /\ id \notin DOMAIN profiles
    <3>1. MaxProfiles \in Nat /\ DOMAIN profiles \subseteq 1 .. MaxProfiles
      BY <1>T, TablesAssumption DEF LibRows, LibTable
    <3>2. id = NextId(profiles)
      BY DEF Lib!NextId, NextId, Lib!Largest, Largest
    <3> QED
      BY <3>1, <3>2, NextIdFresh
  <2>3. /\ DOMAIN profiles' = DOMAIN profiles \cup {id} /\ profiles'[id] = row
        /\ \A k \in DOMAIN profiles : profiles'[k] = profiles[k]
        /\ profiles' = [k \in DOMAIN profiles' |-> profiles'[k]]
    BY <2>1, <2>2 DEF Lib!With
  <2>4. /\ Lib!Load(held).id = id
    BY LibLoad
  <2>5. /\ LibThreads' /\ lpc'[h] \in {"idle", "group"} /\ (lpc'[h] = "group" => ljob'[h].id = id)
        /\ \A k \in Handlers \ {h} : lpc'[k] = lpc[k] /\ ljob'[k] = ljob[k]
    <3>1. CASE Lib!Finish(h)
      BY <3>1, <1>T, LibFinish
    <3>2. CASE Lib!Hold(h, "group", held)
      <4>1. "group" \in LibSteps
        BY DEF LibSteps
      <4> HIDE DEF held
      <4> QED
        BY <3>2, <4>1, <2>4, <1>T, LibHolds
    <3> QED
      BY <2>1, <3>1, <3>2
  <2> HIDE DEF id, held
  <2>6. LibRows'
    <3>1. file[2] \in Uploads /\ name \in LibNames
      BY <1>0, <1>T DEF LibThreads
    <3>2. LibTable(profiles, MaxProfiles, "file")' 
      <4>1. DOMAIN profiles' \subseteq 1 .. MaxProfiles
        BY <2>1, <2>2, <2>3, <1>T, TablesAssumption DEF LibRows, LibTable
      <4>2. \A k \in DOMAIN profiles' : profiles'[k] = [c \in {"name", "file"} |-> profiles'[k][c]]
        BY <2>3, <1>T DEF LibRows, LibTable
      <4>3. \A i, k \in DOMAIN profiles' : profiles'[i].name = profiles'[k].name => i = k
        BY <2>3, <1>2, <1>T DEF LibRows, LibTable, Lib!NamesOf
      <4> QED
        BY <2>3, <4>1, <4>2, <4>3 DEF LibTable
    <3>3. LibTable(groups, MaxGroups, "profile")'
      BY <1>0, <1>T DEF LibRows, LibTable
    <3>4. \A k \in DOMAIN profiles' : profiles'[k].file[2] \in Uploads /\ profiles'[k].name \in LibNames
      BY <2>3, <3>1, <1>T DEF LibRows
    <3> QED
      BY <2>1, <3>2, <3>3, <3>4, <1>T DEF LibRows
  <2>7. /\ Lib!ConfigKept /\ LibAlone /\ LibApart
        /\ \A k \in Handlers : LibClaims(k) /\ LibStored(k)
    BY <1>T DEF LibFiles
  <2>8. /\ file \in files \cup contested
        /\ \A k \in DOMAIN profiles : profiles[k].file = file => file \in contested
        /\ \A k \in Handlers \ {h} : lpc[k] \in LibHolding /\ ljob[k].file = file => file \in contested
    BY <1>0, <2>7 DEF LibClaims, LibStored, LibApart, LibHolding
  <2>9. profiles'[id].file = file /\ \A k \in DOMAIN profiles : profiles'[k].file = profiles[k].file
    BY <2>3
  <2>10. LibFiles'
    <3>1. Lib!ConfigKept'
      BY <1>0, <2>1, <2>3, <2>7, <2>8, <2>9 DEF Lib!ConfigKept
    <3>2. LibAlone'
      BY <1>0, <2>3, <2>7, <2>8, <2>9 DEF LibAlone
    <3>3. LibApart'
      BY <1>0, <2>5, <2>7 DEF LibApart, LibHolding
    <3>4. ASSUME NEW k \in Handlers PROVE LibClaims(k)' /\ LibStored(k)'
      BY <1>0, <2>1, <2>3, <2>5, <2>7, <2>8, <2>9 DEF LibClaims, LibStored, LibHolding
    <3> QED
      BY <3>1, <3>2, <3>3, <3>4 DEF LibFiles
  <2>11. LibGroups'
    <3>1. \A k \in Handlers : LibDeletes(k) /\ LibCreates(k)
      BY <1>T DEF LibGroups
    <3>2. \A g \in DOMAIN groups : groups[g].profile = id => id \in crossed \cup {Lib!WAN}
      BY <2>2, <1>T DEF LibGroups, Lib!GroupsBacked
    <3>3. LibDeletes(h)' /\ LibCreates(h)'
      BY <2>3, <2>5 DEF LibDeletes, LibCreates
    <3>4. \A k \in Handlers \ {h} :
            lpc[k] \in LibNaming /\ ljob[k].id = id => id \in crossed \cup {Lib!WAN}
      BY <2>2, <3>1 DEF LibDeletes, LibCreates, LibNaming
    <3> QED
      BY <1>0, <2>3, <2>5, <3>3, <3>4, <1>T, LibGroupsStep DEF LibNaming
  <2> QED
    BY <2>5, <2>6, <2>10, <2>11 DEF LibInv
<1> QED
  BY <1>1, <1>2

LEMMA LibRenameInv == ASSUME LibInv, NEW h \in Handlers, Lib!Rename(h) PROVE LibInv'
<1>T. LibRows /\ LibThreads /\ LibFiles /\ LibGroups
  BY DEF LibInv
<1>0. lpc[h] = "idle" /\ UNCHANGED <<files, groups, lpc, ljob, contested, crossed>>
  BY DEF Lib!Rename, Lib!Arrive, Lib!Idle, Lib!threads, Lib!history
<1>1. PICK id \in DOMAIN profiles, stem \in FormNames :
        /\ <<stem>> \notin Lib!NamesOf(profiles)
        /\ profiles' = [profiles EXCEPT ![id].name = <<stem>>]
  BY DEF Lib!Rename
<1>2. /\ DOMAIN profiles' = DOMAIN profiles
      /\ profiles'[id] = [profiles[id] EXCEPT !.name = <<stem>>]
      /\ \A k \in DOMAIN profiles \ {id} : profiles'[k] = profiles[k]
      /\ profiles' = [k \in DOMAIN profiles' |-> profiles'[k]]
  BY <1>1
<1>3. /\ profiles'[id].file = profiles[id].file /\ profiles'[id].name = <<stem>>
      /\ profiles'[id] = [c \in {"name", "file"} |-> profiles'[id][c]]
  <2>1. profiles[id] = [c \in {"name", "file"} |-> profiles[id][c]]
    BY <1>T DEF LibRows, LibTable
  <2> QED
    BY <1>2, <2>1
<1>4. LibTable(profiles, MaxProfiles, "file")'
  <2>1. \A i, k \in DOMAIN profiles' : profiles'[i].name = profiles'[k].name => i = k
    BY <1>1, <1>2, <1>3, <1>T DEF LibRows, LibTable, Lib!NamesOf
  <2>2. DOMAIN profiles' \subseteq 1 .. MaxProfiles
    BY <1>2, <1>T DEF LibRows, LibTable
  <2>3. \A k \in DOMAIN profiles' : profiles'[k] = [c \in {"name", "file"} |-> profiles'[k][c]]
    BY <1>2, <1>3, <1>T DEF LibRows, LibTable
  <2> QED
    BY <1>2, <2>1, <2>2, <2>3 DEF LibTable
<1>5. LibRows'
  <2>1. <<stem>> \in LibNames
    BY DEF LibNames
  <2>2. LibTable(groups, MaxGroups, "profile")'
    BY <1>0, <1>T DEF LibRows, LibTable
  <2>3. \A k \in DOMAIN profiles' : profiles'[k].file[2] \in Uploads /\ profiles'[k].name \in LibNames
    BY <1>2, <1>3, <2>1, <1>T DEF LibRows
  <2> QED
    BY <1>0, <1>4, <2>2, <2>3, <1>T DEF LibRows
<1>6. LibThreads'
  BY <1>0, <1>T DEF LibThreads
<1>7. LibClaims(h)' /\ LibStored(h)' /\ LibDeletes(h)' /\ LibCreates(h)'
  BY <1>0 DEF LibClaims, LibStored, LibDeletes, LibCreates, LibHolding
<1>8. \A k \in DOMAIN profiles' : k \in DOMAIN profiles /\ profiles'[k].file = profiles[k].file
  BY <1>2, <1>3
<1>9. LibFiles'
  BY <1>0, <1>7, <1>8, <1>T, LibFilesStep DEF LibHolding
<1>10. LibGroups'
  BY <1>0, <1>2, <1>7, <1>T, LibGroupsStep DEF LibNaming
<1> QED
  BY <1>5, <1>6, <1>9, <1>10 DEF LibInv

LEMMA LibDeleteInv == ASSUME LibInv, NEW h \in Handlers, Lib!Delete(h) PROVE LibInv'
<1>T. LibRows /\ LibThreads /\ LibFiles /\ LibGroups
  BY DEF LibInv
<1>0. UNCHANGED <<profiles, files, groups>>
  BY DEF Lib!Delete, Lib!tables
<1>1. PICK id \in DOMAIN profiles :
        /\ ~Lib!InUse(id)
        /\ Lib!Hold(h, "delete", [id |-> id, file |-> profiles[id].file])
        /\ Lib!Contest(h, profiles[id].file) /\ Lib!Cross(h, id)
  BY DEF Lib!Delete
<1> DEFINE file == profiles[id].file
           held == [id |-> id, file |-> file]
<1>2. Lib!Load(held).file = file /\ Lib!Load(held).id = id
  BY LibLoad
<1>3. /\ LibThreads' /\ lpc'[h] = "delete" /\ ljob'[h].file = file /\ ljob'[h].id = id
      /\ \A k \in Handlers \ {h} : lpc'[k] = lpc[k] /\ ljob'[k] = ljob[k]
  <2>1. Lib!Hold(h, "delete", held) /\ "delete" \in LibSteps
    BY <1>1 DEF LibSteps
  <2> HIDE DEF held, file
  <2> QED
    BY <2>1, <1>2, <1>T, LibHolds
<1>4. /\ contested \subseteq contested'
      /\ \A k \in Handlers \ {h} : ljob[k].file = file => file \in contested'
  BY <1>1 DEF Lib!Contest
<1>5. id # Lib!WAN
  BY <1>T, TablesAssumption DEF LibRows, LibTable, Lib!WAN
<1>6. /\ crossed \subseteq crossed'
      /\ \A k \in Handlers \ {h} : ljob[k].id = id => id \in crossed'
  BY <1>1, <1>5 DEF Lib!Cross
<1>7. LibRows'
  BY <1>0, <1>T DEF LibRows, LibTable
<1>8. LibClaims(h)' /\ LibStored(h)'
  <2>1. \A k \in DOMAIN profiles : profiles[k].file = file => file \in contested \/ k = id
    BY <1>T DEF LibFiles, LibAlone
  <2> QED
    BY <1>0, <1>3, <1>4, <2>1 DEF LibClaims, LibStored
<1>9. LibDeletes(h)' /\ LibCreates(h)'
  BY <1>0, <1>1, <1>3, <1>5 DEF LibDeletes, LibCreates, Lib!InUse, Lib!WAN
<1>10. LibFiles'
  BY <1>0, <1>3, <1>4, <1>8, <1>T, LibFilesStep
<1>11. LibGroups'
  BY <1>0, <1>3, <1>6, <1>9, <1>T, LibGroupsStep DEF LibNaming
<1> QED
  BY <1>3, <1>7, <1>10, <1>11 DEF LibInv

LEMMA LibDeleteFailsInv == ASSUME LibInv, NEW h \in Handlers, Lib!DeleteFails(h) PROVE LibInv'
<1>T. LibRows /\ LibThreads /\ LibFiles /\ LibGroups
  BY DEF LibInv
<1>1. Lib!Finish(h) /\ UNCHANGED <<profiles, files, groups, contested, crossed>>
  BY DEF Lib!DeleteFails, Lib!tables, Lib!history
<1>2. /\ LibThreads' /\ lpc'[h] = "idle"
      /\ \A k \in Handlers \ {h} : lpc'[k] = lpc[k] /\ ljob'[k] = ljob[k]
  BY <1>1, <1>T, LibFinish
<1>3. LibRows'
  BY <1>1, <1>T DEF LibRows, LibTable
<1>4. LibClaims(h)' /\ LibStored(h)' /\ LibDeletes(h)' /\ LibCreates(h)'
  BY <1>2 DEF LibClaims, LibStored, LibDeletes, LibCreates, LibHolding
<1>5. LibFiles'
  BY <1>1, <1>2, <1>4, <1>T, LibFilesStep DEF LibHolding
<1>6. LibGroups'
  BY <1>1, <1>2, <1>4, <1>T, LibGroupsStep DEF LibNaming
<1> QED
  BY <1>2, <1>3, <1>5, <1>6 DEF LibInv

\* No group and no other request has the deleted profile, unless it is crossed.
LEMMA LibDeleteRowInv == ASSUME LibInv, NEW h \in Handlers, Lib!DeleteRow(h) PROVE LibInv'
<1>T. LibRows /\ LibThreads /\ LibFiles /\ LibGroups
  BY DEF LibInv
<1> DEFINE id == ljob[h].id
<1>0. /\ lpc[h] = "delete" /\ profiles' = Lib!Without(profiles, id)
      /\ Lib!Goto(h, "unlink") /\ UNCHANGED <<files, groups, ljob, contested, crossed>>
  BY DEF Lib!DeleteRow, Lib!history
<1>1. /\ DOMAIN profiles' = DOMAIN profiles \ {id}
      /\ \A k \in DOMAIN profiles' : profiles'[k] = profiles[k]
      /\ profiles' = [k \in DOMAIN profiles' |-> profiles'[k]]
  BY <1>0 DEF Lib!Without
<1>2. /\ LibThreads' /\ lpc'[h] = "unlink" /\ ljob'[h] = ljob[h]
      /\ \A k \in Handlers \ {h} : lpc'[k] = lpc[k] /\ ljob'[k] = ljob[k]
  BY <1>0, <1>T, LibGoto DEF LibSteps
<1>3. LibRows'
  <2>1. LibTable(profiles, MaxProfiles, "file")'
    BY <1>1, <1>T DEF LibRows, LibTable
  <2>2. LibTable(groups, MaxGroups, "profile")'
    BY <1>0, <1>T DEF LibRows, LibTable
  <2> QED
    BY <1>0, <1>1, <2>1, <2>2, <1>T DEF LibRows
<1>4. LibClaims(h)' /\ LibStored(h)'
  BY <1>0, <1>1, <1>2, <1>T DEF LibClaims, LibStored, LibFiles, LibHolding
<1>5. \A k \in Handlers \ {h} :
        lpc[k] \in LibHolding /\ ljob[k].file = ljob[h].file => ljob[h].file \in contested
  BY <1>0, <1>T DEF LibFiles, LibApart, LibHolding
<1>6. LibFiles'
  BY <1>0, <1>1, <1>2, <1>4, <1>5, <1>T, LibFilesStep
<1>7. /\ Lib!GroupsBacked /\ LibPairs
      /\ \A k \in Handlers : LibDeletes(k) /\ LibCreates(k)
  BY <1>T DEF LibGroups
<1>8. id # Lib!WAN /\ \A g \in DOMAIN groups : groups[g].profile = id => id \in crossed
  BY <1>0, <1>7 DEF LibDeletes
<1>9. \A k \in Handlers \ {h} : lpc[k] \in LibNaming /\ ljob[k].id = id => id \in crossed
  BY <1>0, <1>7, <1>8 DEF LibPairs, LibNaming, Lib!WAN
<1>10. Lib!GroupsBacked'
  BY <1>0, <1>1, <1>7, <1>8 DEF Lib!GroupsBacked, Lib!WAN
<1>11. LibPairs'
  BY <1>0, <1>2, <1>7 DEF LibPairs, LibNaming, Lib!WAN
<1>12. ASSUME NEW k \in Handlers PROVE LibDeletes(k)' /\ LibCreates(k)'
  BY <1>0, <1>1, <1>2, <1>7, <1>9 DEF LibDeletes, LibCreates, LibNaming, Lib!WAN
<1> QED
  BY <1>2, <1>3, <1>6, <1>10, <1>11, <1>12 DEF LibInv, LibGroups

LEMMA LibNewGroupInv == ASSUME LibInv, NEW h \in Handlers, Lib!NewGroup(h) PROVE LibInv'
<1>T. LibRows /\ LibThreads /\ LibFiles /\ LibGroups
  BY DEF LibInv
<1>0. UNCHANGED <<profiles, files, groups, contested>>
  BY DEF Lib!NewGroup, Lib!tables
<1>1. PICK stem \in FormNames, id \in DOMAIN profiles \cup {Lib!WAN} :
        Lib!Hold(h, "group", [id |-> id, name |-> <<stem>>]) /\ Lib!Cross(h, id)
  BY DEF Lib!NewGroup, Lib!WAN
<1> DEFINE held == [id |-> id, name |-> <<stem>>]
<1>2. Lib!Load(held).id = id
  BY LibLoad
<1>3. /\ LibThreads' /\ lpc'[h] = "group" /\ ljob'[h].id = id
      /\ \A k \in Handlers \ {h} : lpc'[k] = lpc[k] /\ ljob'[k] = ljob[k]
  <2>1. Lib!Hold(h, "group", held) /\ "group" \in LibSteps
    BY <1>1 DEF LibSteps
  <2> HIDE DEF held
  <2> QED
    BY <2>1, <1>2, <1>T, LibHolds
<1>4. /\ crossed \subseteq crossed'
      /\ \A k \in Handlers \ {h} : ljob[k].id = id => id \in crossed' \cup {Lib!WAN}
  BY <1>1 DEF Lib!Cross, Lib!WAN
<1>5. LibRows'
  BY <1>0, <1>T DEF LibRows, LibTable
<1>6. LibClaims(h)' /\ LibStored(h)' /\ LibDeletes(h)' /\ LibCreates(h)'
  BY <1>0, <1>3 DEF LibClaims, LibStored, LibDeletes, LibCreates, LibHolding, Lib!WAN
<1>7. LibFiles'
  BY <1>0, <1>3, <1>6, <1>T, LibFilesStep DEF LibHolding
<1>8. LibGroups'
  BY <1>0, <1>3, <1>4, <1>6, <1>T, LibGroupsStep DEF LibNaming
<1> QED
  BY <1>3, <1>5, <1>7, <1>8 DEF LibInv

\* The profile exists, or its deletion crossed this request; another request
\* that is deleting it makes it crossed as well.
LEMMA LibCreateGroupInv == ASSUME LibInv, NEW h \in Handlers, Lib!CreateGroup(h) PROVE LibInv'
<1>T. LibRows /\ LibThreads /\ LibFiles /\ LibGroups
  BY DEF LibInv
<1> DEFINE id == ljob[h].id
           name == ljob[h].name
           new == Lib!NextId(groups)
           row == [name |-> name, profile |-> id]
<1>0. lpc[h] = "group" /\ Lib!Finish(h) /\ UNCHANGED <<profiles, files, contested, crossed>>
  BY DEF Lib!CreateGroup, Lib!history
<1>1. /\ LibThreads' /\ lpc'[h] = "idle"
      /\ \A k \in Handlers \ {h} : lpc'[k] = lpc[k] /\ ljob'[k] = ljob[k]
  BY <1>0, <1>T, LibFinish
<1>2. LibClaims(h)' /\ LibStored(h)' /\ LibDeletes(h)' /\ LibCreates(h)'
  BY <1>1 DEF LibClaims, LibStored, LibDeletes, LibCreates, LibHolding
<1>3. LibFiles'
  BY <1>0, <1>1, <1>2, <1>T, LibFilesStep DEF LibHolding
<1>4. CASE UNCHANGED groups
  <2>1. LibRows'
    BY <1>0, <1>4, <1>T DEF LibRows, LibTable
  <2>2. LibGroups'
    BY <1>0, <1>1, <1>2, <1>4, <1>T, LibGroupsStep DEF LibNaming
  <2> QED
    BY <1>1, <1>3, <2>1, <2>2 DEF LibInv
<1>5. CASE name \notin Lib!NamesOf(groups) /\ new <= MaxGroups /\ groups' = Lib!With(groups, new, row)
  <2>1. new \in Nat \ {0} /\ new \notin DOMAIN groups
    <3>1. MaxGroups \in Nat /\ DOMAIN groups \subseteq 1 .. MaxGroups
      BY <1>T, TablesAssumption DEF LibRows, LibTable
    <3>2. new = NextId(groups)
      BY DEF Lib!NextId, NextId, Lib!Largest, Largest
    <3> QED
      BY <3>1, <3>2, NextIdFresh
  <2>2. /\ DOMAIN groups' = DOMAIN groups \cup {new} /\ groups'[new] = row
        /\ \A g \in DOMAIN groups : groups'[g] = groups[g]
        /\ groups' = [g \in DOMAIN groups' |-> groups'[g]]
    BY <1>5, <2>1 DEF Lib!With
  <2> HIDE DEF new
  <2>3. LibTable(groups, MaxGroups, "profile")'
    <3>1. DOMAIN groups' \subseteq 1 .. MaxGroups
      BY <1>5, <2>1, <2>2, <1>T, TablesAssumption DEF LibRows, LibTable
    <3>2. \A g \in DOMAIN groups' : groups'[g] = [c \in {"name", "profile"} |-> groups'[g][c]]
      BY <2>2, <1>T DEF LibRows, LibTable
    <3>3. \A i, k \in DOMAIN groups' : groups'[i].name = groups'[k].name => i = k
      BY <2>2, <1>5, <1>T DEF LibRows, LibTable, Lib!NamesOf
    <3> QED
      BY <2>2, <3>1, <3>2, <3>3 DEF LibTable
  <2>4. LibRows'
    BY <1>0, <2>3, <1>T DEF LibRows, LibTable
  <2>5. /\ Lib!GroupsBacked /\ LibPairs
        /\ \A k \in Handlers : LibDeletes(k) /\ LibCreates(k)
    BY <1>T DEF LibGroups
  <2>6. id \in DOMAIN profiles \cup crossed \cup {Lib!WAN}
    BY <1>0, <2>5 DEF LibCreates
  <2>7. groups'[new].profile = id /\ \A g \in DOMAIN groups : groups'[g].profile = groups[g].profile
    BY <2>2
  <2>8. \A k \in Handlers \ {h} : lpc[k] = "delete" /\ ljob[k].id = id => id \in crossed
    BY <1>0, <2>5 DEF LibPairs, LibNaming, LibDeletes, Lib!WAN
  <2>9. Lib!GroupsBacked'
    BY <1>0, <2>2, <2>5, <2>6, <2>7 DEF Lib!GroupsBacked, Lib!WAN
  <2>10. LibPairs'
    BY <1>0, <1>1, <2>5 DEF LibPairs, LibNaming, Lib!WAN
  <2>11. ASSUME NEW k \in Handlers PROVE LibDeletes(k)' /\ LibCreates(k)'
    <3>1. CASE k = h
      BY <3>1, <1>2
    <3>2. CASE k # h
      BY <3>2, <1>0, <1>1, <2>2, <2>5, <2>7, <2>8 DEF LibDeletes, LibCreates, Lib!WAN
    <3> QED
      BY <3>1, <3>2
  <2>12. LibGroups'
    BY <2>9, <2>10, <2>11 DEF LibGroups
  <2> QED
    BY <1>1, <1>3, <2>4, <2>12 DEF LibInv
<1> QED
  BY <1>4, <1>5 DEF Lib!CreateGroup

LEMMA LibEditGroupInv == ASSUME LibInv, NEW h \in Handlers, Lib!EditGroup(h) PROVE LibInv'
<1>T. LibRows /\ LibThreads /\ LibFiles /\ LibGroups
  BY DEF LibInv
<1>0. UNCHANGED <<profiles, files, groups, contested>>
  BY DEF Lib!EditGroup, Lib!tables
<1>1. PICK g \in DOMAIN groups, id \in DOMAIN profiles \cup {Lib!WAN} :
        \E name \in {<<stem>> : stem \in FormNames} \cup {groups[g].name} :
            LET row == [name |-> name, profile |-> id]
                columns == {c \in DOMAIN row : row[c] # groups[g][c]}
                target == IF "profile" \in columns THEN id ELSE Lib!WAN IN
            /\ Lib!Hold(h, "edit",
                        [edited |-> g, id |-> target, name |-> name, columns |-> columns])
            /\ Lib!Cross(h, target)
  BY DEF Lib!EditGroup, Lib!WAN
<1>2. PICK name \in {<<stem>> : stem \in FormNames} \cup {groups[g].name},
           target \in {id, Lib!WAN} :
        LET columns == {c \in {"name", "profile"} :
                           [name |-> name, profile |-> id][c] # groups[g][c]} IN
        /\ Lib!Hold(h, "edit", [edited |-> g, id |-> target, name |-> name, columns |-> columns])
        /\ Lib!Cross(h, target)
  BY <1>1
<1> DEFINE columns == {c \in {"name", "profile"} :
                          [name |-> name, profile |-> id][c] # groups[g][c]}
           held == [edited |-> g, id |-> target, name |-> name, columns |-> columns]
<1> HIDE DEF columns
<1>3. Lib!Load(held).id = target
  BY LibLoad
<1>4. /\ LibThreads' /\ lpc'[h] = "edit" /\ ljob'[h].id = target
      /\ \A k \in Handlers \ {h} : lpc'[k] = lpc[k] /\ ljob'[k] = ljob[k]
  <2>1. Lib!Hold(h, "edit", held) /\ "edit" \in LibSteps
    BY <1>2 DEF LibSteps, columns
  <2> HIDE DEF held
  <2> QED
    BY <2>1, <1>3, <1>T, LibHolds
<1>5. /\ crossed \subseteq crossed'
      /\ \A k \in Handlers \ {h} : ljob[k].id = target => target \in crossed' \cup {Lib!WAN}
  BY <1>2 DEF Lib!Cross, Lib!WAN
<1>6. LibRows'
  BY <1>0, <1>T DEF LibRows, LibTable
<1>7. LibClaims(h)' /\ LibStored(h)' /\ LibDeletes(h)' /\ LibCreates(h)'
  BY <1>0, <1>4 DEF LibClaims, LibStored, LibDeletes, LibCreates, LibHolding, Lib!WAN
<1>8. LibFiles'
  BY <1>0, <1>4, <1>7, <1>T, LibFilesStep DEF LibHolding
<1>9. LibGroups'
  BY <1>0, <1>4, <1>5, <1>7, <1>T, LibGroupsStep DEF LibNaming
<1> QED
  BY <1>4, <1>6, <1>8, <1>9 DEF LibInv

\* What an edit's commit writes is the profile of the request, or leaves the
\* group's own.
LEMMA LibUpdateGroupInv == ASSUME LibInv, NEW h \in Handlers, Lib!UpdateGroup(h) PROVE LibInv'
<1>T. LibRows /\ LibThreads /\ LibFiles /\ LibGroups
  BY DEF LibInv
<1> DEFINE id == ljob[h].id
           g == ljob[h].edited
<1>0. lpc[h] = "edit" /\ Lib!Finish(h) /\ UNCHANGED <<profiles, files, contested, crossed>>
  BY DEF Lib!UpdateGroup, Lib!history
<1>1. /\ LibThreads' /\ lpc'[h] = "idle"
      /\ \A k \in Handlers \ {h} : lpc'[k] = lpc[k] /\ ljob'[k] = ljob[k]
  BY <1>0, <1>T, LibFinish
<1>2. LibClaims(h)' /\ LibStored(h)' /\ LibDeletes(h)' /\ LibCreates(h)'
  BY <1>1 DEF LibClaims, LibStored, LibDeletes, LibCreates, LibHolding
<1>3. LibFiles'
  BY <1>0, <1>1, <1>2, <1>T, LibFilesStep DEF LibHolding
<1>4. CASE UNCHANGED groups
  <2>1. LibRows'
    BY <1>0, <1>4, <1>T DEF LibRows, LibTable
  <2>2. LibGroups'
    BY <1>0, <1>1, <1>2, <1>4, <1>T, LibGroupsStep DEF LibNaming
  <2> QED
    BY <1>1, <1>3, <2>1, <2>2 DEF LibInv
<1>5. ASSUME NEW name, NEW target \in {id, groups[g].profile},
             g \in DOMAIN groups, \A k \in DOMAIN groups \ {g} : groups[k].name # name,
             groups' = Lib!With(groups, g, [name |-> name, profile |-> target])
      PROVE  LibInv'
  <2>1. /\ DOMAIN groups' = DOMAIN groups
        /\ groups'[g] = [name |-> name, profile |-> target]
        /\ \A k \in DOMAIN groups \ {g} : groups'[k] = groups[k]
        /\ groups' = [k \in DOMAIN groups' |-> groups'[k]]
    BY <1>5 DEF Lib!With
  <2> HIDE DEF g
  <2>2. LibTable(groups, MaxGroups, "profile")'
    <3>1. DOMAIN groups' \subseteq 1 .. MaxGroups
      BY <2>1, <1>T DEF LibRows, LibTable
    <3>2. \A k \in DOMAIN groups' : groups'[k] = [c \in {"name", "profile"} |-> groups'[k][c]]
      BY <2>1, <1>T DEF LibRows, LibTable
    <3>3. \A i, k \in DOMAIN groups' : groups'[i].name = groups'[k].name => i = k
      BY <2>1, <1>5, <1>T DEF LibRows, LibTable
    <3> QED
      BY <2>1, <3>1, <3>2, <3>3 DEF LibTable
  <2>3. LibRows'
    BY <1>0, <2>2, <1>T DEF LibRows, LibTable
  <2>4. /\ Lib!GroupsBacked /\ LibPairs
        /\ \A k \in Handlers : LibDeletes(k) /\ LibCreates(k)
    BY <1>T DEF LibGroups
  <2>5. id \in DOMAIN profiles \cup crossed \cup {Lib!WAN}
    BY <1>0, <2>4 DEF LibCreates
  <2>6. \A k \in Handlers \ {h} : lpc[k] = "delete" /\ ljob[k].id = id => id \in crossed
    BY <1>0, <2>4 DEF LibPairs, LibNaming, LibDeletes, Lib!WAN
  <2>7. \A k \in DOMAIN groups :
            \/ groups'[k].profile = groups[k].profile
            \/ k = g /\ groups'[k].profile \in {id, groups[g].profile}
    BY <2>1
  <2>8. Lib!GroupsBacked'
    BY <1>0, <1>5, <2>1, <2>4, <2>5, <2>7 DEF Lib!GroupsBacked, Lib!WAN
  <2>9. LibPairs'
    BY <1>0, <1>1, <2>4 DEF LibPairs, LibNaming, Lib!WAN
  <2>10. ASSUME NEW k \in Handlers PROVE LibDeletes(k)' /\ LibCreates(k)'
    <3>1. CASE k = h
      BY <3>1, <1>2
    <3>2. CASE k # h
      BY <3>2, <1>0, <1>1, <1>5, <2>1, <2>4, <2>6, <2>7 DEF LibDeletes, LibCreates, Lib!WAN
    <3> QED
      BY <3>1, <3>2
  <2>11. LibGroups'
    BY <2>8, <2>9, <2>10 DEF LibGroups
  <2> QED
    BY <1>1, <1>3, <2>3, <2>11 DEF LibInv
<1> QED
  BY <1>4, <1>5 DEF Lib!UpdateGroup

LEMMA LibDeleteGroupInv == ASSUME LibInv, NEW h \in Handlers, Lib!DeleteGroup(h) PROVE LibInv'
<1>T. LibRows /\ LibThreads /\ LibFiles /\ LibGroups
  BY DEF LibInv
<1>0. lpc[h] = "idle" /\ UNCHANGED <<profiles, files, lpc, ljob, contested, crossed>>
  BY DEF Lib!DeleteGroup, Lib!Arrive, Lib!Idle, Lib!threads, Lib!history
<1>1. PICK g \in DOMAIN groups : groups' = Lib!Without(groups, g)
  BY DEF Lib!DeleteGroup
<1>2. /\ DOMAIN groups' = DOMAIN groups \ {g} /\ groups' = [k \in DOMAIN groups' |-> groups'[k]]
      /\ \A k \in DOMAIN groups' : groups'[k] = groups[k]
  BY <1>1 DEF Lib!Without
<1>3. LibRows'
  <2>1. LibTable(groups, MaxGroups, "profile")'
    BY <1>2, <1>T DEF LibRows, LibTable
  <2>2. LibTable(profiles, MaxProfiles, "file")'
    BY <1>0, <1>T DEF LibRows, LibTable
  <2> QED
    BY <1>0, <2>1, <2>2, <1>T DEF LibRows
<1>4. LibThreads'
  BY <1>0, <1>T DEF LibThreads
<1>5. LibClaims(h)' /\ LibStored(h)' /\ LibDeletes(h)' /\ LibCreates(h)'
  BY <1>0 DEF LibClaims, LibStored, LibDeletes, LibCreates, LibHolding
<1>6. LibFiles'
  BY <1>0, <1>5, <1>T, LibFilesStep DEF LibHolding
<1>7. LibGroups'
  BY <1>0, <1>2, <1>5, <1>T, LibGroupsStep DEF LibNaming
<1> QED
  BY <1>3, <1>4, <1>6, <1>7 DEF LibInv

LEMMA LibRestartInv == ASSUME LibInv, Lib!Restart PROVE LibInv'
<1>T. LibRows /\ LibThreads /\ LibFiles /\ LibGroups
  BY DEF LibInv
<1>1. /\ UNCHANGED <<profiles, files, groups, contested, crossed>>
      /\ lpc' = [h \in Handlers |-> "idle"] /\ ljob' = [h \in Handlers |-> Lib!NoJob]
  BY DEF Lib!Restart, Lib!tables, Lib!history, Lib!NoJob
<1>2. LibRows'
  BY <1>1, <1>T DEF LibRows, LibTable
<1>3. LibThreads'
  BY <1>1 DEF LibThreads, LibSteps
<1>4. LibFiles'
  BY <1>1, <1>T DEF LibFiles, Lib!ConfigKept, LibAlone, LibApart, LibClaims, LibStored, LibHolding
<1>5. LibGroups'
  BY <1>1, <1>T DEF LibGroups, Lib!GroupsBacked, LibPairs, LibNaming, LibDeletes, LibCreates, Lib!WAN
<1> QED
  BY <1>2, <1>3, <1>4, <1>5 DEF LibInv

\* The libraries that earlier requests have left.
LEMMA LibInitInv == ASSUME Lib!Init PROVE LibInv
<1>1. PICK n \in 0 .. MaxProfiles, m \in 0 .. MaxGroups :
        profiles \in Lib!Libraries(n) /\ groups \in Lib!GroupTables(m, n)
  BY DEF Lib!Init
<1>2. /\ files = {profiles[id].file : id \in DOMAIN profiles} /\ contested = {} /\ crossed = {}
      /\ lpc = [h \in Handlers |-> "idle"] /\ ljob = [h \in Handlers |-> Lib!NoJob]
  BY DEF Lib!Init, Lib!NoJob
<1> DEFINE stems == {<<s>> : s \in FormNames}
           uploaded == {<<<<s>>, u>> : s \in FormNames, u \in Uploads}
<1>3. /\ profiles \in [1 .. n -> [name : stems, file : uploaded]]
      /\ \A i, k \in 1 .. n :
           i # k => profiles[i].name # profiles[k].name /\ profiles[i].file # profiles[k].file
  <2>1. profiles \in [1 .. n -> [name : stems, file : uploaded]]
    BY <1>1 DEF Lib!Libraries
  <2> HIDE DEF stems, uploaded
  <2>2. \A i, k \in 1 .. n :
           i # k => profiles[i].name # profiles[k].name /\ profiles[i].file # profiles[k].file
    BY <1>1 DEF Lib!Libraries
  <2> QED
    BY ONLY <2>1, <2>2
<1>4. /\ groups \in [1 .. m -> [name : stems, profile : 0 .. n]]
      /\ \A i, k \in 1 .. m : i # k => groups[i].name # groups[k].name
  BY <1>1 DEF Lib!GroupTables
<1>5. n \in Nat /\ n <= MaxProfiles /\ m \in Nat /\ m <= MaxGroups
  BY TablesAssumption
<1>6. stems \subseteq LibNames /\ \A f \in uploaded : f[2] \in Uploads
  <2>1. \A s \in FormNames : <<s>> \in LibNames
    BY DEF LibNames
  <2>2. \A s \in FormNames, u \in Uploads : <<<<s>>, u>>[2] \in Uploads
    OBVIOUS
  <2> QED
    BY <2>1, <2>2
<1> HIDE DEF stems, uploaded
<1>7. LibRows
  <2>1. LibTable(profiles, MaxProfiles, "file")
    <3>1. \A id \in 1 .. n : profiles[id] = [c \in {"name", "file"} |-> profiles[id][c]]
      BY <1>3
    <3>2. 1 .. n \subseteq 1 .. MaxProfiles
      BY <1>5, TablesAssumption
    <3> QED
      BY <1>3, <3>1, <3>2 DEF LibTable
  <2>2. LibTable(groups, MaxGroups, "profile")
    <3>1. \A g \in 1 .. m : groups[g] = [c \in {"name", "profile"} |-> groups[g][c]]
      BY <1>4
    <3>2. 1 .. m \subseteq 1 .. MaxGroups
      BY <1>5, TablesAssumption
    <3> QED
      BY <1>4, <3>1, <3>2 DEF LibTable
  <2> QED
    BY <1>2, <1>3, <1>6, <2>1, <2>2 DEF LibRows
<1>8. LibThreads
  BY <1>2 DEF LibThreads, LibSteps
<1>9. LibFiles
  BY <1>2, <1>3 DEF LibFiles, Lib!ConfigKept, LibAlone, LibApart, LibClaims, LibStored, LibHolding
<1>10. LibGroups
  <2>1. \A g \in DOMAIN groups : groups[g].profile \in DOMAIN profiles \cup {Lib!WAN}
    BY <1>3, <1>4, <1>5 DEF Lib!WAN
  <2> QED
    BY <1>2, <2>1 DEF LibGroups, Lib!GroupsBacked, LibPairs, LibNaming, LibDeletes, LibCreates, Lib!WAN
<1> QED
  BY <1>7, <1>8, <1>9, <1>10 DEF LibInv

\* The instance has a copy of Cardinality.
LEMMA LibCardinality == ASSUME NEW S PROVE Lib!Cardinality(S) = Cardinality(S)
BY DEF Lib!Cardinality, Cardinality

\* What sync-names computes solves its loop.
LEMMA TargetsProposed ==
    LibRows => Proposed(Lib!Targets, Lib!Backed,
                        [g \in Lib!Backed |-> profiles[groups[g].profile].name],
                        Lib!WanNames, Cardinality(DOMAIN groups))
<1> SUFFICES ASSUME LibRows
             PROVE  Proposed(Lib!Targets, Lib!Backed,
                             [g \in Lib!Backed |-> profiles[groups[g].profile].name],
                             Lib!WanNames, Cardinality(DOMAIN groups))
  OBVIOUS
<1> DEFINE B == Lib!Backed
           base == [g \in B |-> profiles[groups[g].profile].name]
           room == Cardinality(DOMAIN groups)
           target == CHOOSE target : target =
               [g \in B |-> Lib!FirstFree(profiles[groups[g].profile].name,
                                Lib!WanNames \cup {target[k] : k \in {b \in B : b < g}}, room)]
<1>1. Lib!Targets = target
  BY LibCardinality DEF Lib!Targets
<1>2. B \in SUBSET (1 .. MaxGroups) /\ MaxGroups \in Nat
  BY TablesAssumption DEF LibRows, LibTable, Lib!Backed
<1>3. PICK t : Proposed(t, B, base, Lib!WanNames, room)
  <2> HIDE DEF B, base, room
  <2> QED
    BY <1>2, ProposalsExist
<1>4. ASSUME NEW u
      PROVE  [g \in B |-> Proposal(u, g, B, base, Lib!WanNames, room)]
               = [g \in B |-> Lib!FirstFree(profiles[groups[g].profile].name,
                                Lib!WanNames \cup {u[k] : k \in {b \in B : b < g}}, room)]
  <2>1. ASSUME NEW g \in B
        PROVE  Proposal(u, g, B, base, Lib!WanNames, room)
                 = Lib!FirstFree(profiles[groups[g].profile].name,
                                Lib!WanNames \cup {u[k] : k \in {b \in B : b < g}}, room)
    BY DEF Proposal
  <2> HIDE DEF B, base, room
  <2> QED
    BY <2>1
<1>5. t = [g \in B |-> Lib!FirstFree(profiles[groups[g].profile].name,
                                Lib!WanNames \cup {t[k] : k \in {b \in B : b < g}}, room)]
  BY <1>3, <1>4 DEF Proposed
<1>6. target = [g \in B |-> Lib!FirstFree(profiles[groups[g].profile].name,
                                Lib!WanNames \cup {target[k] : k \in {b \in B : b < g}}, room)]
  <2> HIDE DEF B, base, room
  <2> QED
    BY <1>5
<1>7. Proposed(target, B, base, Lib!WanNames, room)
  BY <1>6, <1>4 DEF Proposed
<1> QED
  BY <1>1, <1>7

\* The names are distinct, and none is that of a group that keeps its own.
LEMMA LibTargets ==
    ASSUME LibRows
    PROVE  /\ \A g \in Lib!Backed : Lib!Targets[g] \notin Lib!WanNames
           /\ \A g, k \in Lib!Backed : Lib!Targets[g] = Lib!Targets[k] => g = k
<1> DEFINE S == FormNames \cup Uploads \cup Nat
           D == DOMAIN groups
           B == Lib!Backed
           base == [g \in B |-> profiles[groups[g].profile].name]
           reserved == Lib!WanNames
           t == Lib!Targets
<1>1. IsFiniteSet(D) /\ D \subseteq Nat
  <2>1. D \subseteq 1 .. MaxGroups
    BY DEF LibRows, LibTable
  <2>2. IsFiniteSet(1 .. MaxGroups) /\ 1 .. MaxGroups \subseteq Nat
    <3>1. 1 \in Int /\ MaxGroups \in Int
      BY TablesAssumption
    <3>2. IsFiniteSet(1 .. MaxGroups)
      BY <3>1, FS_Interval
    <3> QED
      BY <3>1, <3>2
  <2> HIDE DEF D
  <2> QED
    BY <2>1, <2>2, FS_Subset
<1>2. B \in SUBSET D /\ B \subseteq Nat
  BY <1>1 DEF Lib!Backed
<1>3. \A g \in B : base[g] \in Seq(S)
  BY DEF LibRows, LibNames, Lib!Backed
<1>4. Proposed(t, B, base, reserved, Cardinality(D))
  BY TargetsProposed
<1> DEFINE taken(g) == reserved \cup {t[k] : k \in {b \in B : b < g}}
           source == [d \in D |-> IF d \in B THEN t[d] ELSE groups[d].name]
<1>5. \A r \in reserved : \E d \in D \ B : groups[d].name = r
  BY DEF Lib!WanNames
<1> HIDE DEF S, D, B, base, reserved, t
<1>6. ASSUME NEW g \in B PROVE t[g] \notin taken(g)
  <2>1. \A r \in taken(g) : \E d \in D : source[d] = r
    BY <1>2, <1>5
  <2>2. t[g] = Lib!FirstFree(base[g], taken(g), Cardinality(D))
    BY <1>4 DEF Proposed, Proposal
  <2>3. base[g] \in Seq(S)
    BY <1>3
  <2> HIDE DEF taken, source
  <2>4. Lib!FirstFree(base[g], taken(g), Cardinality(D)) \notin taken(g)
    BY <1>1, <2>1, <2>3, FirstFreeIsFree
  <2> QED
    BY <2>2, <2>4
<1>7. ASSUME NEW g \in B, NEW k \in B, k < g PROVE t[g] # t[k]
  BY <1>6, <1>7
<1>8. /\ \A g \in B : t[g] \notin reserved
      /\ \A g, k \in B : t[g] = t[k] => g = k
  <2>1. \A g, k \in B : g < k \/ k < g \/ g = k
    <3>1. \A g, k \in Nat : g < k \/ k < g \/ g = k
      OBVIOUS
    <3> QED
      BY <1>2, <3>1
  <2>2. \A g \in B : t[g] \notin reserved
    BY <1>6
  <2>3. \A g, k \in B : k < g => t[g] # t[k]
    BY <1>7
  <2> HIDE DEF taken, source
  <2> QED
    BY <2>1, <2>2, <2>3
<1> QED
  BY <1>8 DEF B, t, reserved

LEMMA LibSyncPlanInv == ASSUME LibInv, NEW h \in Handlers, Lib!SyncPlan(h) PROVE LibInv'
<1>T. LibRows /\ LibThreads /\ LibFiles /\ LibGroups
  BY DEF LibInv
<1>0. /\ Lib!Hold(h, "sync", [plan |-> Lib!Renames])
      /\ UNCHANGED <<profiles, files, groups, contested, crossed>>
  BY DEF Lib!SyncPlan, Lib!tables, Lib!history
<1> DEFINE plan == Lib!Renames
           held == [plan |-> plan]
<1>1. Lib!Load(held).plan = plan
  BY LibLoad
<1>2. \A i, k \in DOMAIN plan : plan[i] = plan[k] => i = k
  BY <1>T, LibTargets DEF Lib!Renames, Lib!Changes
<1>3. /\ LibThreads' /\ lpc'[h] = "sync"
      /\ \A k \in Handlers \ {h} : lpc'[k] = lpc[k] /\ ljob'[k] = ljob[k]
  <2>1. "sync" \in LibSteps
    BY DEF LibSteps
  <2> HIDE DEF held, plan
  <2>2. Lib!Hold(h, "sync", held)
    BY <1>0 DEF held, plan
  <2> QED
    BY <2>1, <2>2, <1>1, <1>2, <1>T, LibHolds
<1>4. LibRows'
  BY <1>0, <1>T DEF LibRows, LibTable
<1>5. LibClaims(h)' /\ LibStored(h)' /\ LibDeletes(h)' /\ LibCreates(h)'
  BY <1>3 DEF LibClaims, LibStored, LibDeletes, LibCreates, LibHolding
<1>6. LibFiles'
  BY <1>0, <1>3, <1>5, <1>T, LibFilesStep DEF LibHolding
<1>7. LibGroups'
  BY <1>0, <1>3, <1>5, <1>T, LibGroupsStep DEF LibNaming
<1> QED
  BY <1>3, <1>4, <1>6, <1>7 DEF LibInv

\* What the writes of sync-names leave: the groups, other names.
LEMMA LibSynced ==
    ASSUME LibRows, NEW h \in Handlers, Lib!Sync(h), ~Lib!Collides(ljob[h].plan)
    PROVE  /\ groups' = [g \in DOMAIN groups' |-> groups'[g]] /\ DOMAIN groups' = DOMAIN groups
           /\ \A g \in DOMAIN groups :
                /\ groups'[g].profile = groups[g].profile
                /\ groups'[g].name =
                     IF g \in DOMAIN ljob[h].plan THEN ljob[h].plan[g] ELSE groups[g].name
                /\ groups'[g] = [c \in {"name", "profile"} |-> groups'[g][c]]
<1> DEFINE plan == ljob[h].plan
<1>1. groups' = [g \in DOMAIN groups |->
                    IF g \in DOMAIN plan THEN [groups[g] EXCEPT !.name = plan[g]] ELSE groups[g]]
  BY DEF Lib!Sync
<1> HIDE DEF plan
<1>2. ASSUME NEW g \in DOMAIN groups
      PROVE  /\ groups'[g].profile = groups[g].profile
             /\ groups'[g].name = IF g \in DOMAIN plan THEN plan[g] ELSE groups[g].name
             /\ groups'[g] = [c \in {"name", "profile"} |-> groups'[g][c]]
  <2>1. groups[g] = [c \in {"name", "profile"} |-> groups[g][c]]
    BY DEF LibRows, LibTable
  <2>2. groups'[g] = IF g \in DOMAIN plan THEN [groups[g] EXCEPT !.name = plan[g]] ELSE groups[g]
    BY <1>1
  <2> QED
    BY <2>1, <2>2
<1> QED
  BY <1>1, <1>2 DEF plan

LEMMA LibSyncInv == ASSUME LibInv, NEW h \in Handlers, Lib!Sync(h) PROVE LibInv'
<1>T. LibRows /\ LibThreads /\ LibFiles /\ LibGroups
  BY DEF LibInv
<1> DEFINE plan == ljob[h].plan
<1>0. lpc[h] = "sync" /\ Lib!Finish(h) /\ UNCHANGED <<profiles, files, contested, crossed>>
  BY DEF Lib!Sync, Lib!history
<1>1. /\ LibThreads' /\ lpc'[h] = "idle"
      /\ \A k \in Handlers \ {h} : lpc'[k] = lpc[k] /\ ljob'[k] = ljob[k]
  BY <1>0, <1>T, LibFinish
<1>2. LibClaims(h)' /\ LibStored(h)' /\ LibDeletes(h)' /\ LibCreates(h)'
  BY <1>1 DEF LibClaims, LibStored, LibDeletes, LibCreates, LibHolding
<1>3. LibFiles'
  BY <1>0, <1>1, <1>2, <1>T, LibFilesStep DEF LibHolding
<1>4. CASE UNCHANGED groups
  <2>1. LibRows'
    BY <1>0, <1>4, <1>T DEF LibRows, LibTable
  <2>2. LibGroups'
    BY <1>0, <1>1, <1>2, <1>4, <1>T, LibGroupsStep DEF LibNaming
  <2> QED
    BY <1>1, <1>3, <2>1, <2>2 DEF LibInv
<1>5. CASE ~Lib!Collides(plan)
  <2>1. /\ groups' = [g \in DOMAIN groups' |-> groups'[g]] /\ DOMAIN groups' = DOMAIN groups
        /\ \A g \in DOMAIN groups :
             /\ groups'[g].profile = groups[g].profile
             /\ groups'[g].name = IF g \in DOMAIN plan THEN plan[g] ELSE groups[g].name
             /\ groups'[g] = [c \in {"name", "profile"} |-> groups'[g][c]]
    BY <1>5, <1>T, LibSynced
  <2>2. \A i, k \in DOMAIN plan : plan[i] = plan[k] => i = k
    BY <1>0, <1>T DEF LibThreads
  <2>3. \A g \in DOMAIN groups \ DOMAIN plan, k \in DOMAIN plan : groups[g].name # plan[k]
    BY <1>5 DEF Lib!Collides
  <2> HIDE DEF plan
  <2>4. \A i, k \in DOMAIN groups' : groups'[i].name = groups'[k].name => i = k
    BY <2>1, <2>2, <2>3, <1>T DEF LibRows, LibTable
  <2>5. LibTable(groups, MaxGroups, "profile")'
    BY <2>1, <2>4, <1>T DEF LibRows, LibTable
  <2>6. LibRows'
    BY <1>0, <2>5, <1>T DEF LibRows, LibTable
  <2>7. LibGroups'
    BY <1>0, <1>1, <1>2, <2>1, <1>T, LibGroupsStep DEF LibNaming
  <2> QED
    BY <1>1, <1>3, <2>6, <2>7 DEF LibInv
<1> QED
  BY <1>4, <1>5 DEF Lib!Sync

LEMMA LibInvNext == LibInv /\ [Lib!Next]_(Lib!vars) => LibInv'
<1> SUFFICES ASSUME LibInv, [Lib!Next]_(Lib!vars) PROVE LibInv'
  OBVIOUS
<1>1. CASE UNCHANGED Lib!vars
  BY <1>1 DEF LibInv, LibRows, LibTable, LibThreads, LibFiles, LibGroups, Lib!ConfigKept,
              Lib!GroupsBacked,
              LibAlone, LibApart, LibClaims, LibStored, LibPairs, LibDeletes, LibCreates,
              Lib!vars, Lib!tables, Lib!threads, Lib!history
<1>2. CASE Lib!Restart
  BY <1>2, LibRestartInv
<1>3. ASSUME NEW h \in Handlers,
             \/ Lib!New(h) \/ Lib!Import(h) \/ Lib!Write(h) \/ Lib!WriteFails(h) \/ Lib!Commit(h)
             \/ Lib!Rename(h) \/ Lib!Delete(h) \/ Lib!DeleteFails(h) \/ Lib!DeleteRow(h) \/ Lib!Unlink(h)
             \/ Lib!NewGroup(h) \/ Lib!CreateGroup(h) \/ Lib!EditGroup(h) \/ Lib!UpdateGroup(h)
             \/ Lib!DeleteGroup(h) \/ Lib!SyncPlan(h) \/ Lib!Sync(h)
      PROVE  LibInv'
  BY <1>3, LibNewInv, LibImportInv, LibWriteInv, LibWriteFailsInv, LibCommitInv, LibRenameInv,
     LibDeleteInv, LibDeleteFailsInv, LibDeleteRowInv, LibUnlinkInv, LibNewGroupInv, LibCreateGroupInv,
     LibEditGroupInv, LibUpdateGroupInv, LibDeleteGroupInv, LibSyncPlanInv, LibSyncInv
<1> QED
  BY <1>1, <1>2, <1>3 DEF Lib!Next

\* The names of a table are as many as its rows.
LEMMA NamesCounted ==
    ASSUME NEW table, NEW last \in Nat, NEW other, LibTable(table, last, other)
    PROVE  Lib!Cardinality(Lib!NamesOf(table)) = Lib!Cardinality(DOMAIN table)
<1> DEFINE D == DOMAIN table
           N == Lib!NamesOf(table)
           f == [id \in D |-> table[id].name]
<1>1. IsFiniteSet(D)
  <2>1. D \subseteq 1 .. last
    BY DEF LibTable
  <2>2. IsFiniteSet(1 .. last)
    <3>1. 1 \in Int /\ last \in Int
      OBVIOUS
    <3> QED
      BY <3>1, FS_Interval
  <2> HIDE DEF D
  <2> QED
    BY <2>1, <2>2, FS_Subset
<1>2. f \in Bijection(D, N)
  <2>1. f \in [D -> N] /\ \A n \in N : \E id \in D : f[id] = n
    BY DEF Lib!NamesOf
  <2>2. \A i, k \in D : f[i] = f[k] => i = k
    BY DEF LibTable
  <2> HIDE DEF D, N, f
  <2> QED
    BY <2>1, <2>2 DEF Bijection, Injection, Surjection, IsInjective
<1> HIDE DEF D, N, f
<1>3. Cardinality(D) = Cardinality(N)
  BY <1>1, <1>2, FS_Bijection DEF ExistsBijection
<1>4. Lib!Cardinality(N) = Lib!Cardinality(D)
  BY <1>3, LibCardinality
<1> QED
  BY <1>4 DEF N, D

LEMMA LibTypes == LibInv => Lib!TypeOK
<1> SUFFICES ASSUME LibInv PROVE Lib!TypeOK
  OBVIOUS
<1>1. LibRows /\ LibThreads
  BY DEF LibInv
<1>2. /\ Lib!Cardinality(Lib!NamesOf(profiles)) = Lib!Cardinality(DOMAIN profiles)
      /\ Lib!Cardinality(Lib!NamesOf(groups)) = Lib!Cardinality(DOMAIN groups)
  BY <1>1, NamesCounted, TablesAssumption DEF LibRows
<1> QED
  BY <1>1, <1>2 DEF Lib!TypeOK, LibRows, LibTable, LibThreads, LibSteps

\* With the names it has just planned, sync-names settles: no other group has
\* one, and computed again the names are the same.
LEMMA LibSettles ==
    ASSUME LibInv, LibInv', NEW h \in Handlers, Lib!Sync(h), ljob[h].plan = Lib!Renames
    PROVE  Lib!Changes' = {}
<1>T. LibRows /\ LibRows'
  BY DEF LibInv
<1> DEFINE plan == ljob[h].plan
           t == Lib!Targets
<1>1. /\ DOMAIN plan = Lib!Changes /\ \A g \in Lib!Changes : plan[g] = t[g]
      /\ Lib!Changes \subseteq Lib!Backed /\ Lib!Backed \subseteq DOMAIN groups
      /\ \A g \in Lib!Backed \ Lib!Changes : groups[g].name = t[g]
  BY DEF Lib!Renames, Lib!Changes, Lib!Backed
<1>2. ~Lib!Collides(plan)
  <2>1. \A g \in DOMAIN groups \ Lib!Backed : groups[g].name \in Lib!WanNames
    BY DEF Lib!WanNames
  <2>2. /\ \A g \in Lib!Backed : t[g] \notin Lib!WanNames
        /\ \A g, k \in Lib!Backed : t[g] = t[k] => g = k
    BY <1>T, LibTargets
  <2> HIDE DEF plan, t
  <2> QED
    BY <1>1, <2>1, <2>2 DEF Lib!Collides
<1>3. /\ UNCHANGED profiles /\ DOMAIN groups' = DOMAIN groups
      /\ \A g \in DOMAIN groups :
           /\ groups'[g].profile = groups[g].profile
           /\ groups'[g].name = IF g \in DOMAIN plan THEN plan[g] ELSE groups[g].name
  BY <1>2, <1>T, LibSynced DEF Lib!Sync
<1>4. Lib!Backed' = Lib!Backed
  BY <1>3 DEF Lib!Backed
<1>5. Lib!WanNames' = Lib!WanNames
  BY <1>1, <1>3, <1>4 DEF Lib!WanNames
<1>6. \A g \in Lib!Backed : groups'[g].name = t[g]
  BY <1>1, <1>3
<1> DEFINE B == Lib!Backed
           base == [g \in B |-> profiles[groups[g].profile].name]
           reserved == Lib!WanNames
           room == Cardinality(DOMAIN groups)
<1>7. Proposed(t, B, base, reserved, room)
  BY <1>T, TargetsProposed
<1>8. Proposed(Lib!Targets', B, base, reserved, room)
  <2>1. (LibRows => Proposed(Lib!Targets, B, base, reserved, room))'
    BY TargetsProposed, PTL
  <2>2. B' = B /\ base' = base /\ reserved' = reserved /\ room' = room
    BY <1>1, <1>3, <1>4, <1>5
  <2> QED
    BY <2>1, <2>2, <1>T
<1>9. Lib!Targets' = t
  <2>1. B \in SUBSET Nat
    BY <1>T, TablesAssumption DEF LibRows, LibTable, Lib!Backed
  <2> HIDE DEF B, base, reserved, room, t
  <2> QED
    BY <1>7, <1>8, <2>1, ProposalsUnique
<1> QED
  BY <1>4, <1>6, <1>9 DEF Lib!Changes

-----------------------------------------------------------------------------
(* The services together: each invariant holds while its component moves.  *)

MCInv ==
    /\ part \in {"library", "users", "refreshes", "verdicts"}
    /\ part = "library" => LibInv
    /\ part = "users" => IInv
    /\ part = "refreshes" => RefInv
    /\ part = "verdicts" => ObsInv

LEMMA MCInitInv == MCInit => MCInv
BY LibInitInv, InitInv, RefInitInv, ObsInitInv DEF MCInit, MCInv

LEMMA MCInvNext == MCInv /\ [MCNext]_services => MCInv'
<1> SUFFICES ASSUME MCInv, [MCNext]_services PROVE MCInv'
  OBVIOUS
<1>0. part' = part
  BY DEF MCNext, LibraryStep, UsersStep, RefreshesStep, VerdictsStep, services
<1>1. part = "library" => [Lib!Next]_(Lib!vars)
  BY DEF MCNext, LibraryStep, UsersStep, RefreshesStep, VerdictsStep, services, lvars,
         Lib!vars, Lib!tables, Lib!threads, Lib!history
<1>2. part = "users" => [Next]_vars
  BY DEF MCNext, LibraryStep, UsersStep, RefreshesStep, VerdictsStep, services
<1>3. part = "refreshes" => [Ref!Next]_(Ref!vars)
  BY DEF MCNext, LibraryStep, UsersStep, RefreshesStep, VerdictsStep, services, rvars,
         Ref!vars, Ref!rows, Ref!threads, Ref!bounds, Ref!history
<1>4. part = "verdicts" => [Obs!Next]_(Obs!vars)
  BY DEF MCNext, LibraryStep, UsersStep, RefreshesStep, VerdictsStep, services, ovars,
         Obs!vars, Obs!rows, Obs!caches, Obs!threads, Obs!bounds
<1>5. part = "library" => LibInv'
  BY <1>1, LibInvNext DEF MCInv
<1>6. part = "users" => IInv'
  BY <1>2, InvNext DEF MCInv
<1>7. part = "refreshes" => RefInv'
  BY <1>3, RefInvNext DEF MCInv
<1>8. part = "verdicts" => ObsInv'
  BY <1>4, ObsInvNext DEF MCInv
<1> QED
  BY <1>0, <1>5, <1>6, <1>7, <1>8 DEF MCInv

LEMMA MCInvariant == MCSpec => []MCInv
BY MCInitInv, MCInvNext, PTL DEF MCSpec

\* Rows, caches, names and threads keep their types in all four components.
THEOREM ServicesTypeCorrect == MCSpec => []MCTypeOK
<1>1. MCInv => MCTypeOK
  BY LibTypes, RefTypes, ObsTypes DEF MCInv, MCTypeOK, IInv
<1> QED
  BY <1>1, MCInvariant, PTL

\* A profile's configuration file is there, whichever requests interleave and
\* wherever the process stops, unless two requests wanted that file at once.
THEOREM FilesAreKept == MCSpec => []ConfigKept
<1>1. MCInv => ConfigKept
  BY DEF MCInv, LibInv, LibFiles, ConfigKept
<1> QED
  BY <1>1, MCInvariant, PTL

\* No group is left with a deleted profile, whose id would come back, unless
\* its creation overlapped the deletion.
THEOREM GroupsStayBacked == MCSpec => []GroupsBacked
<1>1. MCInv => GroupsBacked
  BY DEF MCInv, LibInv, LibGroups, GroupsBacked
<1> QED
  BY <1>1, MCInvariant, PTL

\* sync-names settles in one run, for any number of groups and any names:
\* swapped, numbered, or taken by a WAN group.
THEOREM NamesSettle == MCSpec => SyncSettles
<1>1. ASSUME MCInv, MCInv', [MCNext]_services
      PROVE  [\A h \in Handlers :
                 Lib!Sync(h) /\ ljob[h].plan = Lib!Renames => Lib!Changes' = {}]_(Lib!vars)
  <2>0. UNCHANGED Lib!vars \/ (part = "library" /\ part' = "library")
    BY <1>1 DEF MCInv, MCNext, LibraryStep, UsersStep, RefreshesStep, VerdictsStep, services, lvars,
                Lib!vars, Lib!tables, Lib!threads, Lib!history
  <2>1. CASE part = "library" /\ part' = "library"
    <3>1. LibInv /\ LibInv'
      BY <1>1, <2>1 DEF MCInv
    <3> QED
      BY <3>1, LibSettles
  <2> QED
    BY <2>0, <2>1
<1> QED
  BY <1>1, MCInvariant, PTL DEF MCSpec, SyncSettles, Lib!SyncSettles

\* When all threads are done the sets follow the rows, for any number of
\* requests, addresses and faults, unless the last refresh failed or was
\* overtaken.
THEOREM QuietIsApplied == MCSpec => []QuietMeansApplied
<1>1. MCInv => QuietMeansApplied
  BY DEF MCInv, QuietMeansApplied, RefInv, Ref!QuietMeansApplied, Ref!Quiet, RefSettled, RefPending
<1> QED
  BY <1>1, MCInvariant, PTL

\* Expiry takes no override that is not past, unless it was changed after
\* expire_once had selected it.
THEOREM OverridesStay == MCSpec => LiveOverridesStay
<1>1. ASSUME MCInv, [MCNext]_services
      PROVE  [\A a \in Ref!Actors : Ref!Expire(a) /\ Ref!Live => a \in moved]_(Ref!vars)
  <2>0. UNCHANGED Ref!vars \/ part = "refreshes"
    BY <1>1 DEF MCInv, MCNext, LibraryStep, UsersStep, RefreshesStep, VerdictsStep, services, rvars,
                Ref!vars, Ref!rows, Ref!threads, Ref!bounds, Ref!history
  <2>1. CASE part = "refreshes"
    BY <1>1, <2>1 DEF MCInv, RefInv, RefSelected, Ref!Expire, Ref!Live
  <2> QED
    BY <2>0, <2>1
<1> QED
  BY <1>1, MCInvariant, PTL DEF MCSpec, LiveOverridesStay, Ref!LiveOverridesStay

\* What pages show of tunnels and DNS is so, for any number of looks, unless
\* something changed after the last one.
THEOREM VerdictsAreSound == MCSpec => []VerdictsSound
<1>1. MCInv => VerdictsSound
  BY ObsVerdicts DEF MCInv, VerdictsSound
<1> QED
  BY <1>1, MCInvariant, PTL
=============================================================================

--------------------------- MODULE LifecycleProofs ---------------------------
(***************************************************************************)
(* Theorems about Lifecycle for any number of request threads, any times   *)
(* and any bounds: types, the grace period and the backoff.                *)
(*                                                                         *)
(* Delay is used only by what DelayAssumption says of it.                  *)
(***************************************************************************)
EXTENDS Lifecycle, TLAPS

\* No demand has been noticed since the idle time began, unless it was dated
\* back past some.
Waited == idle # Never /\ ~backdated => idle <= unused \/ unused = Grace

\* Nor since a pass has looked at the clock, or has decided to stop, unless it
\* was overtaken.
PassWaited ==
    \A a \in Actors \ overtaken :
        /\ pc[a] \in Waiting => seen[a].ago <= unused \/ unused = Grace
        /\ pc[a] = "od_stop" => unused = Grace

\* Timeouts are failures, and a manager that goes on has failures left.
Counted ==
    /\ hangs <= failures
    /\ MaxFailures > 0 /\ ~gaveUp => failures < MaxFailures

\* The time that next_retry_at still asks for.
Left == IF retryIn > 0 THEN retryIn ELSE 0

\* Since the last timeout the delay after it has passed, but for what is left.
Delayed == hangs > 0 /\ ~gaveUp => sinceHang + Left >= Delay(hangs)

\* Nothing is left when the manager has decided to start.
Due == pc[Resilience] = "rs_start" => ~gaveUp /\ retryIn <= 0

Decided == Due /\ PassWaited

Backoff == Counted /\ Delayed /\ Decided

IInv == TypeOK /\ Waited /\ Backoff

-----------------------------------------------------------------------------
\* The constants as numbers.
LEMMA Constants ==
    /\ Grace \in Nat /\ Timeout \in Nat /\ MaxDelay \in Nat
    /\ MaxFailures \in Nat /\ FailureCap \in Nat /\ FailureCap # 0
    /\ MaxFailures <= FailureCap
    /\ MaxRequests \in Nat /\ MaxRestarts \in Nat /\ MaxBad \in Nat /\ MaxDrops \in Nat
    /\ MaxPass \in Nat /\ MaxPass # 0
BY TimesAssumption, BoundsAssumption

\* A thread that has read nothing.
LEMMA RowType ==
    NoRow \in [enabled : BOOLEAN, policy : {"always", "on_demand"}, required : BOOLEAN,
              joined : BOOLEAN, ago : 0 .. MaxPass]
<1>1. 0 \in 0 .. MaxPass
  BY Constants
<1> QED
  BY <1>1 DEF NoRow

LEMMA InitInv == Init => IInv
<1> SUFFICES ASSUME Init PROVE IInv
  OBVIOUS
<1>0. FlagsType
  BY DEF Init, FlagsType
<1>1. RowsType /\ TunnelType
  BY RequestsAssumption, Constants DEF Init, RowsType, TunnelType
<1>2. TimersType
  <2>1. backdated \in BOOLEAN /\ overtaken \subseteq Actors /\ idle = Never /\ retryIn = Never
    BY DEF Init
  <2>2. failures = 0 /\ hangs = 0 /\ sinceHang = MaxDelay /\ unused = 0
    BY DEF Init
  <2> QED
    BY <2>1, <2>2, Constants DEF TimersType
<1>3. ThreadsType
  BY RowType DEF Init, ThreadsType, Steps
<1>4. BoundsType
  BY Constants DEF Init, BoundsType
<1>5. Waited /\ Counted /\ Delayed
  BY Constants DEF Init, Waited, Counted, Delayed, Never
<1>6. Decided
  BY ActorsAssumption DEF Init, Decided, Due, PassWaited, Waiting, Actors, Managers
<1> QED
  BY <1>0, <1>1, <1>2, <1>3, <1>4, <1>5, <1>6 DEF IInv, TypeOK, Backoff

-----------------------------------------------------------------------------
(* What the steps have in common.                                          *)

\* A thread goes on to another step.
LEMMA GotoType ==
    ASSUME ThreadsType, NEW a \in Actors, NEW step \in Steps, Goto(a, step), UNCHANGED <<seen, after>>
    PROVE  ThreadsType'
BY DEF ThreadsType, Goto

\* A thread returns.
LEMMA ReturnType ==
    ASSUME ThreadsType, NEW a \in Actors, Return(a)
    PROVE  ThreadsType'
BY RowType DEF ThreadsType, Return, Steps

\* A thread that is in no pass afterwards leaves the passes of others alone.
LEMMA OthersPass ==
    ASSUME ThreadsType, PassWaited, NEW a \in Actors, pc'[a] \notin Passing,
           \A b \in Actors \ {a} : pc'[b] = pc[b] /\ seen'[b] = seen[b],
           unused' = unused, overtaken \ {a} \subseteq overtaken'
    PROVE  PassWaited'
BY DEF PassWaited, Passing, Waiting

\* Steps of other threads leave the decision of the retry manager alone.
LEMMA OthersDue ==
    ASSUME ThreadsType, Decided, NEW a \in Actors \ {Resilience}, NEW step \in Steps \ Passing,
           Goto(a, step), UNCHANGED <<seen, retryIn, gaveUp, history>>
    PROVE  Decided'
<1>1. Due'
  BY DEF ThreadsType, Decided, Due, Goto, Actors, Managers
<1>2. pc'[a] = step /\ \A b \in Actors \ {a} : pc'[b] = pc[b] /\ seen'[b] = seen[b]
  BY DEF ThreadsType, Goto
<1>3. PassWaited'
  BY <1>2, OthersPass DEF Decided, history
<1> QED
  BY <1>1, <1>3 DEF Decided

LEMMA OthersReturnDue ==
    ASSUME ThreadsType, Decided, NEW a \in Actors \ {Resilience},
           Return(a), UNCHANGED <<retryIn, gaveUp>>,
           unused' = unused, overtaken \ {a} \subseteq overtaken'
    PROVE  Decided'
<1>1. Due'
  BY DEF ThreadsType, Decided, Due, Return, Actors, Managers
<1>2. pc'[a] = "idle" /\ \A b \in Actors \ {a} : pc'[b] = pc[b] /\ seen'[b] = seen[b]
  BY DEF ThreadsType, Return
<1>3. PassWaited'
  BY <1>2, OthersPass DEF Decided, Passing, Waiting
<1> QED
  BY <1>1, <1>3 DEF Decided

\* A step that leaves the timers and the retry state alone.
LEMMA Steady ==
    ASSUME IInv, FlagsType', RowsType', TunnelType', ThreadsType', BoundsType', Decided',
           UNCHANGED <<idle, retry, history>>
    PROVE  IInv'
BY DEF IInv, TypeOK, TimersType, Waited, Backoff, Counted, Delayed, Left, retry, history

\* A step that moves one thread and nothing else.
LEMMA Unmoved ==
    ASSUME IInv, ThreadsType', Decided',
           UNCHANGED <<rows, tunnel, idle, retry, booted, bounds, history>>
    PROVE  IInv'
<1>1. FlagsType' /\ RowsType' /\ TunnelType' /\ BoundsType'
  BY DEF IInv, TypeOK, FlagsType, RowsType, TunnelType, BoundsType, rows, tunnel, retry, bounds
<1> QED
  BY <1>1, Steady

\* An attempt, whether it works or not, and a stop leave a tunnel.
LEMMA TunnelSteps ==
    ASSUME TunnelType, hung \in BOOLEAN, bad \in 0 .. MaxBad,
           \/ StartWorks \/ StartFails
           \/ Stop /\ UNCHANGED bad
           \/ bad < MaxBad /\ bad' = bad + 1 /\ UNCHANGED tunnel
           \/ UNCHANGED <<tunnel, bad>>
    PROVE  TunnelType' /\ hung' \in BOOLEAN /\ bad' \in 0 .. MaxBad
<1>1. CASE StartWorks
  <2>1. TunnelType' /\ bad' \in 0 .. MaxBad
    BY <1>1, Constants DEF StartWorks, Spawned, TunnelType
  <2>2. hung' \in BOOLEAN
    BY <1>1 DEF StartWorks, Spawned
  <2> QED
    BY <2>1, <2>2
<1>2. CASE Stop /\ UNCHANGED bad
  <2>1. TunnelType'
    BY <1>2, Constants DEF Stop, TunnelType
  <2> QED
    BY <2>1, <1>2 DEF Stop
<1>3. CASE UNCHANGED tunnel
  <2>1. TunnelType' /\ hung' \in BOOLEAN
    BY <1>3 DEF tunnel, TunnelType
  <2>2. \/ bad' = bad
        \/ bad < MaxBad /\ bad' = bad + 1
        \/ StartWorks
    BY DEF StartFails
  <2>3. CASE StartWorks
    BY <2>3, <1>1
  <2>4. bad' = bad \/ (bad < MaxBad /\ bad' = bad + 1) => bad' \in 0 .. MaxBad
    BY Constants
  <2> QED
    BY <2>1, <2>2, <2>3, <2>4, <1>2
<1> QED
  BY <1>1, <1>2, <1>3 DEF StartFails

\* A step of no thread.
LEMMA Unthreaded ==
    ASSUME ThreadsType, Decided, UNCHANGED <<threads, retry, history>>
    PROVE  ThreadsType' /\ Decided'
BY DEF ThreadsType, Decided, Due, PassWaited, threads, retry, history

\* The counters and the times of the retry manager when neither changes.
LEMMA SameBackoff ==
    ASSUME Counted, Delayed, UNCHANGED <<retry, hangs, sinceHang>>
    PROVE  Counted' /\ Delayed'
BY DEF Counted, Delayed, Left, retry

\* Whoever clears the retry state forgets the timeouts.
LEMMA ResetInv ==
    ASSUME IInv, Reset, Forgiven, ThreadsType', PassWaited', enabled' \in BOOLEAN,
           requests' \in 0 .. MaxRequests,
           UNCHANGED <<policy, assigned, override, tunnel, idle, booted, restarts, bad, drops>>
    PROVE  IInv'
<1>1. FlagsType'
  BY DEF Reset, Forgiven, IInv, TypeOK, FlagsType, tunnel
<1>2. RowsType' /\ TunnelType' /\ BoundsType'
  BY DEF IInv, TypeOK, RowsType, TunnelType, BoundsType, tunnel
<1>3. TimersType' /\ Waited' /\ Counted' /\ Delayed'
  BY Constants
  DEF Reset, Forgiven, IInv, TypeOK, TimersType, Waited, Counted, Delayed, Never
<1>4. Decided'
  BY DEF Reset, Decided, Due, Never
<1> QED
  BY <1>1, <1>2, <1>3, <1>4 DEF IInv, TypeOK, Backoff

\* A failure counts up to the cap and leaves at least the delay of a timeout.
LEMMA FailureBackoff ==
    ASSUME TimersType, RecordFailure
    PROVE  /\ failures' \in 0 .. FailureCap /\ failures' >= failures
           /\ failures < FailureCap => failures' = failures + 1
           /\ retryIn' \in {Never} \cup 0 .. MaxDelay /\ gaveUp' \in BOOLEAN
           /\ ~gaveUp' => retryIn' = Delay(failures')
           /\ MaxFailures > 0 /\ ~gaveUp' => failures' < MaxFailures
<1>1. failures' \in 0 .. FailureCap /\ failures' >= failures
      /\ (failures < FailureCap => failures' = failures + 1)
  BY Constants DEF TimersType, RecordFailure, Smaller
<1>2. Delay(failures') \in 0 .. MaxDelay
  BY <1>1, DelayAssumption
<1>3. gaveUp' \in BOOLEAN /\ retryIn' = IF gaveUp' THEN Never ELSE Delay(failures')
  BY DEF RecordFailure
<1>4. MaxFailures > 0 /\ ~gaveUp' => failures' < MaxFailures
  <2>1. ~gaveUp' => ~(MaxFailures > 0 /\ failures + 1 >= MaxFailures)
    BY Zenon DEF RecordFailure
  <2>2. failures' <= failures + 1
    BY Constants DEF TimersType, RecordFailure, Smaller
  <2> QED
    BY <1>1, <2>1, <2>2, Constants DEF TimersType
<1> QED
  BY <1>1, <1>2, <1>3, <1>4

-----------------------------------------------------------------------------
(* The passes of the on-demand manager, by the loop, boot and requests.    *)

\* A step within a pass that leaves the idle time alone.
LEMMA PassInv ==
    ASSUME IInv, ThreadsType', Decided', overtaken' \subseteq Actors,
           UNCHANGED <<rows, tunnel, idle, retry, booted, bounds, hangs, sinceHang, unused,
                       backdated>>
    PROVE  IInv'
<1>1. FlagsType' /\ RowsType' /\ TunnelType' /\ BoundsType'
  BY DEF IInv, TypeOK, FlagsType, RowsType, TunnelType, BoundsType, rows, tunnel, retry, bounds
<1>2. TimersType' /\ Waited'
  BY DEF IInv, TypeOK, TimersType, Waited, retry
<1>3. Counted' /\ Delayed'
  BY SameBackoff DEF IInv, Backoff
<1> QED
  BY <1>1, <1>2, <1>3 DEF IInv, TypeOK, Backoff

\* The end of a pass.
LEMMA OdReturnInv ==
    ASSUME IInv, NEW a \in Handlers \cup {OnDemand}, OdReturn(a),
           TunnelType', hung' \in BOOLEAN, bad' \in 0 .. MaxBad,
           idle' \in {Never} \cup 0 .. Grace + MaxPass, backdated' \in BOOLEAN, Waited'
    PROVE  IInv'
<1>1. a \in Actors \ {Resilience}
  BY ActorsAssumption DEF Actors, Managers
<1>2. Return(a) /\ UNCHANGED <<rows, retry, requests, restarts, drops, hangs, sinceHang, unused>>
      /\ overtaken' = overtaken \ {a}
  BY DEF OdReturn
<1>3. booted' \in BOOLEAN
  BY DEF OdReturn, IInv, TypeOK, FlagsType
<1>4. FlagsType' /\ RowsType' /\ BoundsType'
  BY <1>2, <1>3 DEF IInv, TypeOK, FlagsType, RowsType, BoundsType, rows, retry
<1>6. TimersType'
  BY <1>2 DEF IInv, TypeOK, TimersType, retry
<1>7. ThreadsType' /\ Decided'
  BY <1>1, <1>2, ReturnType, OthersReturnDue DEF IInv, TypeOK, Backoff, retry
<1>8. Counted' /\ Delayed'
  BY <1>2, SameBackoff DEF IInv, Backoff
<1> QED
  BY <1>4, <1>6, <1>7, <1>8 DEF IInv, TypeOK, Backoff

\* A pass goes on: the decision of the retry manager stands, and so does what
\* is known of the passes of others.
LEMMA PassGoes ==
    ASSUME ThreadsType, Decided, NEW a \in Actors \ {Resilience}, NEW step \in Passing,
           Goto(a, step), \A b \in Actors \ {a} : seen'[b] = seen[b],
           overtaken \ {a} \subseteq overtaken', UNCHANGED <<retryIn, gaveUp, unused>>,
           a \in overtaken' \/ (/\ step \in Waiting => seen'[a].ago <= unused \/ unused = Grace
                                /\ step = "od_stop" => unused = Grace)
    PROVE  Decided'
<1>1. Due'
  BY DEF ThreadsType, Decided, Due, Goto, Actors, Managers
<1>2. pc'[a] = step /\ \A b \in Actors \ {a} : pc'[b] = pc[b]
  BY DEF ThreadsType, Goto
<1>3. ASSUME NEW b \in Actors \ overtaken'
      PROVE  /\ pc'[b] \in Waiting => seen'[b].ago <= unused' \/ unused' = Grace
             /\ pc'[b] = "od_stop" => unused' = Grace
  <2>1. CASE b = a
    BY <2>1, <1>2, <1>3
  <2>2. CASE b # a
    BY <2>2, <1>2, <1>3 DEF Decided, PassWaited
  <2> QED
    BY <2>1, <2>2
<1> QED
  BY <1>1, <1>3 DEF Decided, PassWaited

LEMMA OdWalkInv ==
    ASSUME IInv, NEW a \in Handlers \cup {OnDemand},
           OdRead(a) \/ OdRows(a) \/ OdUnused(a) \/ OdDecide(a)
    PROVE  IInv'
<1>0. a \in Actors \ {Resilience}
  BY ActorsAssumption DEF Actors, Managers
<1>T. FlagsType /\ RowsType /\ TimersType /\ ThreadsType /\ Waited /\ Decided
  BY DEF IInv, TypeOK, Backoff
<1>P. a \notin overtaken => /\ pc[a] \in Waiting => seen[a].ago <= unused \/ unused = Grace
                            /\ pc[a] = "od_stop" => unused = Grace
  BY <1>0, <1>T DEF Decided, PassWaited
<1>1. CASE OdRead(a)
  <2>1. /\ seen' = [seen EXCEPT ![a] = [NoRow EXCEPT !.required = Required]]
        /\ overtaken' = overtaken \ {a} /\ Goto(a, "od_rows")
        /\ UNCHANGED <<rows, tunnel, idle, retry, after, booted, bounds, hangs, sinceHang, unused,
                       backdated>>
    BY <1>1 DEF OdRead
  <2>R. Required \in BOOLEAN
    BY <1>T DEF Required, FlagsType
  <2>2. [NoRow EXCEPT !.required = Required]
        \in [enabled : BOOLEAN, policy : {"always", "on_demand"}, required : BOOLEAN,
             joined : BOOLEAN, ago : 0 .. MaxPass]
    BY <2>R, RowType
  <2>3. ThreadsType'
    BY <2>1, <2>2, <1>0, <1>T DEF ThreadsType, Goto, Steps, Passing, Waiting
  <2>4. seen'[a].ago = 0 /\ \A b \in Actors \ {a} : seen'[b] = seen[b]
    BY <2>1, <1>0, <1>T DEF ThreadsType, NoRow
  <2>5. 0 <= unused
    BY <1>T, Constants DEF TimersType
  <2>6. Decided'
    BY <2>1, <2>4, <2>5, <1>0, <1>T, PassGoes DEF Passing, Waiting, retry
  <2>7. overtaken' \subseteq Actors
    BY <2>1, <1>T DEF TimersType
  <2> QED
    BY <2>1, <2>3, <2>6, <2>7, PassInv
<1>2. CASE OdRows(a)
  <2>1. /\ seen' = [seen EXCEPT ![a].enabled = enabled, ![a].policy = policy]
        /\ Goto(a, "od_act") /\ pc[a] = "od_rows"
        /\ UNCHANGED <<rows, tunnel, idle, retry, after, booted, bounds, history>>
    BY <1>2 DEF OdRows
  <2>2. [seen[a] EXCEPT !.enabled = enabled, !.policy = policy]
        \in [enabled : BOOLEAN, policy : {"always", "on_demand"}, required : BOOLEAN,
             joined : BOOLEAN, ago : 0 .. MaxPass]
    BY <1>0, <1>T DEF ThreadsType, FlagsType, RowsType
  <2>8. seen' = [seen EXCEPT ![a] = [seen[a] EXCEPT !.enabled = enabled, !.policy = policy]]
    BY <2>1, <1>0, <1>T DEF ThreadsType
  <2>3. ThreadsType'
    BY <2>1, <2>2, <2>8, <1>0, <1>T DEF ThreadsType, Goto, Steps, Passing, Waiting
  <2>4. seen'[a].ago = seen[a].ago /\ \A b \in Actors \ {a} : seen'[b] = seen[b]
    BY <2>8, <1>0, <1>T DEF ThreadsType
  <2>5. UNCHANGED <<overtaken, unused, hangs, sinceHang, backdated>>
    BY <2>1 DEF history
  <2>6. Decided'
    BY <2>1, <2>4, <2>5, <1>0, <1>T, <1>P, PassGoes DEF Passing, Waiting, retry
  <2>7. overtaken' \subseteq Actors
    BY <2>5, <1>T DEF TimersType
  <2> QED
    BY <2>1, <2>3, <2>5, <2>6, <2>7, PassInv
<1>3. CASE OdUnused(a)
  <2>1. /\ Goto(a, "od_check") /\ pc[a] = "od_act"
        /\ UNCHANGED <<rows, tunnel, idle, retry, seen, after, booted, bounds, history>>
    BY <1>3 DEF OdUnused
  <2>3. ThreadsType'
    BY <2>1, <1>0, <1>T, GotoType DEF Steps, Passing, Waiting
  <2>5. UNCHANGED <<overtaken, unused, hangs, sinceHang, backdated>>
    BY <2>1 DEF history
  <2>6. Decided'
    BY <2>1, <2>5, <1>0, <1>T, <1>P, PassGoes DEF Passing, Waiting, retry
  <2>7. overtaken' \subseteq Actors
    BY <2>5, <1>T DEF TimersType
  <2> QED
    BY <2>1, <2>3, <2>5, <2>6, <2>7, PassInv
<1>4. CASE OdDecide(a)
  <2>1. /\ overtaken' = IF backdated THEN overtaken \cup {a} ELSE overtaken \ {a}
        /\ Goto(a, "od_stop") /\ GraceOver(a)
        /\ UNCHANGED <<rows, tunnel, idle, retry, seen, after, booted, bounds, hangs, sinceHang,
                       unused, backdated>>
    BY <1>4 DEF OdDecide
  <2>3. ThreadsType'
    BY <2>1, <1>0, <1>T, GotoType DEF Steps, Passing
  <2>4. a \in overtaken' \/ unused = Grace
    <3> SUFFICES ASSUME ~backdated PROVE unused = Grace
      BY <2>1
    <3>1. seen[a].ago \in Nat
      BY <1>0, <1>T, Constants DEF ThreadsType
    <3>2. idle # Never /\ idle >= Grace
      BY <2>1, <3>1, <1>T, Constants DEF GraceOver, TimersType, Never
    <3> QED
      BY <3>2, <1>T, Constants DEF Waited, TimersType, Never
  <2>5. overtaken \ {a} \subseteq overtaken' /\ overtaken' \subseteq Actors
    BY <2>1, <1>0, <1>T DEF TimersType
  <2>6. Decided'
    BY <2>1, <2>4, <2>5, <1>0, <1>T, PassGoes DEF Passing, Waiting, retry
  <2> QED
    BY <2>1, <2>3, <2>5, <2>6, PassInv
<1> QED
  BY <1>1, <1>2, <1>3, <1>4

\* Noticed demand ends the idle time and the wait of every pass under way.
LEMMA NoticeInv ==
    ASSUME IInv, NEW a \in Actors \ {Resilience}, Notice(a), NEW step \in Steps \ Passing,
           Goto(a, step),
           UNCHANGED <<rows, tunnel, retry, seen, after, booted, bounds, hangs, sinceHang>>
    PROVE  IInv'
<1>T. ThreadsType /\ TimersType /\ Counted /\ Delayed /\ Decided
  BY DEF IInv, TypeOK, Backoff
<1>1. /\ idle' = Never /\ unused' = 0 /\ backdated' = FALSE
      /\ overtaken' = overtaken \cup {b \in Actors \ {a} : pc[b] \in Passing}
  BY DEF Notice
<1>2. ThreadsType'
  BY <1>T, GotoType
<1>3. Due'
  BY <1>T DEF ThreadsType, Decided, Due, Goto, Actors, Managers, retry
<1>4. pc'[a] = step /\ \A b \in Actors \ {a} : pc'[b] = pc[b]
  BY <1>T DEF ThreadsType, Goto
<1>5. PassWaited'
  BY <1>1, <1>4 DEF PassWaited, Passing
<1>6. TimersType' /\ Waited'
  <2>1. overtaken' \subseteq Actors
    BY <1>1, <1>T DEF TimersType
  <2>5. unused' \in 0 .. Grace
    BY <1>1, Constants
  <2>2. idle' \in {Never} \cup 0 .. Grace + MaxPass /\ backdated' \in BOOLEAN
    BY <1>1, Zenon
  <2>4. failures' = failures /\ retryIn' = retryIn /\ hangs' = hangs /\ sinceHang' = sinceHang
    BY DEF retry
  <2>3. TimersType'
    BY <2>1, <2>2, <2>4, <2>5, <1>T, Zenon DEF TimersType
  <2> QED
    BY <1>1, <2>3 DEF Waited
<1>7. Counted' /\ Delayed'
  BY <1>T, SameBackoff
<1>8. FlagsType' /\ RowsType' /\ TunnelType' /\ BoundsType'
  BY DEF IInv, TypeOK, FlagsType, RowsType, TunnelType, BoundsType, rows, tunnel, retry, bounds
<1> QED
  BY <1>2, <1>3, <1>5, <1>6, <1>7, <1>8 DEF IInv, TypeOK, Backoff, Decided

LEMMA OdInv ==
    ASSUME IInv, NEW a \in Handlers \cup {OnDemand}, OdStep(a)
    PROVE  IInv'
<1>0. a \in Actors \ {Resilience}
  BY ActorsAssumption DEF Actors, Managers
<1>T. /\ FlagsType /\ RowsType /\ TunnelType /\ TimersType /\ ThreadsType /\ BoundsType
      /\ Waited /\ Decided
  BY DEF IInv, TypeOK, Backoff
<1>B. hung \in BOOLEAN /\ bad \in 0 .. MaxBad
  BY <1>T DEF FlagsType, BoundsType
\* The idle time runs on.
<1>K. ASSUME UNCHANGED <<idle, backdated>>, OdReturn(a)
      PROVE  /\ idle' \in {Never} \cup 0 .. Grace + MaxPass /\ backdated' \in BOOLEAN
             /\ Waited'
  <2>1. unused' = unused
    BY <1>K DEF OdReturn
  <2> QED
    BY <1>K, <2>1, <1>T DEF TimersType, Waited
\* It is forgotten.
<1>N. ASSUME idle' = Never, backdated' = FALSE
      PROVE  /\ idle' \in {Never} \cup 0 .. Grace + MaxPass /\ backdated' \in BOOLEAN
             /\ Waited'
  BY <1>N DEF Waited
<1>1. CASE OdRead(a) \/ OdRows(a) \/ OdUnused(a) \/ OdDecide(a)
  BY <1>1, OdWalkInv
<1>2. CASE OdLeave(a)
  <2>1. OdReturn(a) /\ idle' = Never /\ backdated' = FALSE /\ UNCHANGED <<tunnel, bad>>
    BY <1>2 DEF OdLeave
  <2>2. TunnelType' /\ hung' \in BOOLEAN /\ bad' \in 0 .. MaxBad
    BY <2>1, <1>T, <1>B, TunnelSteps
  <2> QED
    BY <2>1, <2>2, <1>N, OdReturnInv
<1>3. CASE OdNeeded(a)
  BY <1>3, <1>0, NoticeInv DEF OdNeeded, Steps, Passing, Waiting
<1>4. CASE OdStart(a)
  <2>1. /\ OdReturn(a) /\ UNCHANGED <<idle, backdated>>
        /\ StartWorks \/ StartFails \/ UNCHANGED <<tunnel, bad>>
    BY <1>4 DEF OdStart
  <2>2. TunnelType' /\ hung' \in BOOLEAN /\ bad' \in 0 .. MaxBad
    BY <2>1, <1>T, <1>B, TunnelSteps
  <2> QED
    BY <2>1, <2>2, <1>K, OdReturnInv
<1>5. CASE OdIdle(a)
  <2>1. OdReturn(a) /\ UNCHANGED <<tunnel, bad>> /\ pc[a] = "od_check"
    BY <1>5 DEF OdIdle
  <2>2. TunnelType' /\ hung' \in BOOLEAN /\ bad' \in 0 .. MaxBad
    BY <2>1, <1>T, <1>B, TunnelSteps
  <2>3. CASE UNCHANGED <<idle, backdated>>
    BY <2>1, <2>2, <2>3, <1>K, OdReturnInv
  <2>4. CASE idle' = seen[a].ago /\ backdated' = (a \in overtaken)
    <3>1. seen[a].ago \in 0 .. MaxPass
      BY <1>0, <1>T DEF ThreadsType
    <3>2. idle' \in {Never} \cup 0 .. Grace + MaxPass /\ backdated' \in BOOLEAN
      BY <2>4, <3>1, Constants
    <3>3. a \notin overtaken => seen[a].ago <= unused \/ unused = Grace
      BY <2>1, <1>0, <1>T DEF Decided, PassWaited, Waiting
    <3>4. unused' = unused
      BY <2>1 DEF OdReturn
    <3>5. Waited'
      BY <2>4, <3>3, <3>4 DEF Waited
    <3> QED
      BY <2>1, <2>2, <3>2, <3>5, OdReturnInv
  <2> QED
    BY <1>5, <2>3, <2>4 DEF OdIdle
<1>6. CASE OdStop(a)
  <2>1. /\ Stop /\ Goto(a, "od_forget")
        /\ UNCHANGED <<rows, idle, retry, seen, after, booted, bounds, history>>
    BY <1>6 DEF OdStop
  <2>2. TunnelType' /\ hung' \in BOOLEAN /\ bad' \in 0 .. MaxBad
    BY <2>1, <1>T, <1>B, TunnelSteps DEF bounds
  <2>3. ThreadsType' /\ Decided'
    BY <2>1, <1>0, <1>T, GotoType, OthersDue DEF Steps, Passing, Waiting, retry
  <2>4. FlagsType' /\ RowsType' /\ BoundsType'
    BY <2>1, <2>2, <1>T DEF FlagsType, RowsType, BoundsType, rows, retry, bounds
  <2> QED
    BY <2>1, <2>2, <2>3, <2>4, Steady
<1>7. CASE OdStopFails(a)
  <2>1. OdReturn(a) /\ UNCHANGED <<tunnel, idle, backdated>>
    BY <1>7 DEF OdStopFails
  <2>2. bad < MaxBad /\ bad' = bad + 1
    BY <1>7 DEF OdStopFails
  <2>3. TunnelType' /\ hung' \in BOOLEAN /\ bad' \in 0 .. MaxBad
    BY <2>1, <2>2, <1>T, <1>B, TunnelSteps
  <2> QED
    BY <2>1, <2>3, <1>K, OdReturnInv
<1>8. CASE OdForget(a)
  <2>1. OdReturn(a) /\ UNCHANGED <<tunnel, bad>>
    BY <1>8 DEF OdForget
  <2>2. TunnelType' /\ hung' \in BOOLEAN /\ bad' \in 0 .. MaxBad
    BY <2>1, <1>T, <1>B, TunnelSteps
  <2>3. UNCHANGED <<idle, backdated>> \/ (idle' = Never /\ backdated' = FALSE)
    BY <1>8 DEF OdForget
  <2> QED
    BY <2>1, <2>2, <2>3, <1>K, <1>N, OdReturnInv
<1> QED
  BY <1>1, <1>2, <1>3, <1>4, <1>5, <1>6, <1>7, <1>8 DEF OdStep

-----------------------------------------------------------------------------
(* The retry manager.                                                      *)

LEMMA RsInv == ASSUME IInv, RsStep PROVE IInv'
<1>0. Resilience \in Actors
  BY DEF Actors, Managers
<1>T. /\ FlagsType /\ RowsType /\ TunnelType /\ TimersType /\ ThreadsType /\ BoundsType
      /\ Waited /\ Counted /\ Delayed /\ Decided
  BY DEF IInv, TypeOK, Backoff
<1>B. hung \in BOOLEAN /\ bad \in 0 .. MaxBad
  BY <1>T DEF FlagsType, BoundsType
\* It is about to start only after RsDue.
<1>P. ASSUME NEW step \in Steps \ Passing, pc'[Resilience] = step,
             \A b \in Actors \ {Resilience} : pc'[b] = pc[b] /\ seen'[b] = seen[b],
             UNCHANGED <<unused, overtaken>>
      PROVE  PassWaited'
  BY <1>P, <1>0, <1>T, OthersPass DEF Decided
<1>G. ASSUME NEW step \in Steps \ Passing, step # "rs_start", Goto(Resilience, step),
             \A b \in Actors \ {Resilience} : seen'[b] = seen[b], UNCHANGED <<unused, overtaken>>
      PROVE  Decided'
  <2>1. pc'[Resilience] = step /\ \A b \in Actors \ {Resilience} : pc'[b] = pc[b]
    BY <1>G, <1>0, <1>T DEF Goto, ThreadsType
  <2>2. PassWaited'
    BY <2>1, <1>G, <1>P
  <2> QED
    BY <2>1, <2>2, <1>G DEF Decided, Due
<1>R. ASSUME Return(Resilience), UNCHANGED <<unused, overtaken>> PROVE ThreadsType' /\ Decided'
  <2>1. ThreadsType'
    BY <1>R, <1>0, <1>T, ReturnType
  <2>2. Decided'
    <3>1. /\ pc'[Resilience] = "idle"
          /\ \A b \in Actors \ {Resilience} : pc'[b] = pc[b] /\ seen'[b] = seen[b]
      BY <1>R, <1>0, <1>T DEF Return, ThreadsType
    <3>2. PassWaited'
      BY <3>1, <1>R, <1>P DEF Steps, Passing, Waiting
    <3> QED
      BY <3>1, <3>2 DEF Decided, Due
  <2> QED
    BY <2>1, <2>2
<1>1. CASE RsBegin
  <2>1. /\ seen' = [seen EXCEPT ![Resilience] =
               [enabled |-> enabled, policy |-> policy, required |-> Required,
                joined |-> assigned, ago |-> 0]]
        /\ Goto(Resilience, "rs_status")
        /\ UNCHANGED <<rows, tunnel, idle, retry, after, booted, bounds, history>>
    BY <1>1 DEF RsBegin
  <2>2. [enabled |-> enabled, policy |-> policy, required |-> Required, joined |-> assigned,
         ago |-> 0]
        \in [enabled : BOOLEAN, policy : {"always", "on_demand"}, required : BOOLEAN,
             joined : BOOLEAN, ago : 0 .. MaxPass]
    BY <1>T, Constants DEF Required, FlagsType, RowsType
  <2>3. ThreadsType'
    BY <2>1, <2>2, <1>0, <1>T DEF ThreadsType, Goto, Steps
  <2>4. Decided'
    BY <2>1, <1>G, <1>0, <1>T DEF Steps, Passing, Waiting, ThreadsType, history
  <2> QED
    BY <2>1, <2>3, <2>4, Unmoved
<1>2. CASE RsReset
  <2>1. Reset /\ Forgiven /\ UNCHANGED <<rows, tunnel, idle, booted, bounds>>
    BY <1>2 DEF RsReset
  <2>2. ThreadsType' /\ PassWaited'
    BY <1>2, <2>1, <1>R DEF RsReset, Forgiven, Decided
  <2>3. enabled' \in BOOLEAN
    BY <2>1, <1>T DEF FlagsType, rows
  <2>4. requests' \in 0 .. MaxRequests
    BY <2>1, <1>T DEF BoundsType, bounds
  <2> QED
    BY <2>1, <2>2, <2>3, <2>4, ResetInv DEF rows, bounds
<1>3. CASE RsWait
  BY <1>3, <1>R, Unmoved DEF RsWait, history
<1>4. CASE RsTimeout
  <2>1. ThreadsType'
    BY <1>4, <1>0, <1>T, GotoType DEF RsTimeout, Steps
  <2>2. Decided'
    BY <1>4, <1>G DEF RsTimeout, Steps, Passing, Waiting, history
  <2> QED
    BY <1>4, <2>1, <2>2, Unmoved DEF RsTimeout
<1>5. CASE RsRecycle
  <2>1. ThreadsType' /\ Decided'
    BY <1>5, <1>R DEF RsRecycle
  <2>2. TunnelType' /\ hung' \in BOOLEAN /\ bad' \in 0 .. MaxBad
    BY <1>5, <1>T, <1>B, TunnelSteps DEF RsRecycle
  <2>3. RecordFailure /\ hangs' = Smaller(FailureCap, hangs + 1) /\ sinceHang' = 0
        /\ UNCHANGED <<rows, idle, booted, requests, restarts, drops, unused, overtaken, backdated>>
    BY <1>5 DEF RsRecycle
  <2>4. hangs' \in 0 .. FailureCap /\ hangs' <= failures'
    BY <2>3, <1>T, Constants, FailureBackoff DEF TimersType, Counted, Smaller
  <2>5. Counted'
    BY <2>3, <2>4, <1>T, FailureBackoff DEF Counted
  <2>6. Delayed'
    <3> SUFFICES ASSUME hangs' > 0, ~gaveUp' PROVE sinceHang' + Left' >= Delay(hangs')
      BY DEF Delayed
    <3>1. retryIn' = Delay(failures') /\ failures' \in 0 .. FailureCap
      BY <2>3, <1>T, FailureBackoff
    <3>2. Delay(failures') \in 0 .. MaxDelay /\ Delay(hangs') <= Delay(failures')
          /\ Delay(hangs') \in 0 .. MaxDelay
      BY <3>1, <2>4, DelayAssumption
    <3> QED
      BY <2>3, <3>1, <3>2, Constants DEF Left
  <2>7. TimersType' /\ Waited'
    BY <2>3, <2>4, <1>T, Constants, FailureBackoff DEF TimersType, Waited
  <2>8. FlagsType' /\ RowsType' /\ BoundsType'
    BY <2>2, <2>3, <1>T, FailureBackoff DEF FlagsType, RowsType, BoundsType, rows
  <2> QED
    BY <2>1, <2>2, <2>5, <2>6, <2>7, <2>8 DEF IInv, TypeOK, Backoff
<1>6. CASE RsDue
  <2>1. ThreadsType'
    BY <1>6, <1>0, <1>T, GotoType DEF RsDue, Steps
  <2>2. Decided'
    <3>1. Due'
      BY <1>6 DEF RsDue, Due
    <3>2. Goto(Resilience, "rs_start") /\ UNCHANGED <<seen, history>>
      BY <1>6 DEF RsDue
    <3>3. /\ pc'[Resilience] = "rs_start"
          /\ \A b \in Actors \ {Resilience} : pc'[b] = pc[b] /\ seen'[b] = seen[b]
      BY <3>2, <1>0, <1>T DEF Goto, ThreadsType
    <3>4. PassWaited'
      BY <3>2, <3>3, <1>P DEF Steps, Passing, Waiting, history
    <3> QED
      BY <3>1, <3>4 DEF Decided
  <2>3. retryIn <= 0 /\ retryIn' = 0
        /\ UNCHANGED <<rows, tunnel, idle, failures, gaveUp, booted, bounds, history>>
    BY <1>6 DEF RsDue
  <2>4. TimersType' /\ Waited' /\ Counted'
    BY <2>3, <1>T, Constants DEF TimersType, Waited, Counted, history
  <2>6. Delayed'
    <3>1. Left' = Left
      BY <2>3, <1>T DEF Left, TimersType, Never
    <3> QED
      BY <2>3, <3>1, <1>T DEF Delayed, history
  <2>5. FlagsType' /\ RowsType' /\ TunnelType' /\ BoundsType'
    BY <2>3, <1>T DEF FlagsType, RowsType, TunnelType, BoundsType, rows, tunnel, bounds
  <2> QED
    BY <2>1, <2>2, <2>4, <2>5, <2>6 DEF IInv, TypeOK, Backoff
<1>7. CASE RsStart
  <2>1. ThreadsType' /\ Decided'
    BY <1>7, <1>R DEF RsStart, history
  <2>2. TunnelType' /\ hung' \in BOOLEAN /\ bad' \in 0 .. MaxBad
    BY <1>7, <1>T, <1>B, TunnelSteps DEF RsStart
  <2>3. retryIn' = Never /\ gaveUp' = FALSE
        /\ UNCHANGED <<rows, idle, failures, booted, requests, restarts, drops, history>>
    BY <1>7 DEF RsStart
  <2>4. ~gaveUp /\ retryIn <= 0
    BY <1>7, <1>T DEF RsStart, Decided, Due
  <2>5. TimersType' /\ Waited' /\ Counted' /\ Delayed'
    BY <2>3, <2>4, <1>T, Constants DEF TimersType, Waited, Counted, Delayed, Left, history, Never
  <2>6. FlagsType' /\ RowsType' /\ BoundsType'
    BY <2>2, <2>3, <1>T DEF FlagsType, RowsType, BoundsType, rows
  <2> QED
    BY <2>1, <2>2, <2>5, <2>6 DEF IInv, TypeOK, Backoff
<1>8. CASE RsStartRaises
  <2>1. ThreadsType' /\ Decided'
    BY <1>8, <1>R DEF RsStartRaises
  <2>2. TunnelType' /\ hung' \in BOOLEAN /\ bad' \in 0 .. MaxBad
    BY <1>8, <1>T, <1>B, TunnelSteps DEF RsStartRaises
  <2>3. RecordFailure
        /\ UNCHANGED <<rows, idle, booted, requests, restarts, drops, hangs, sinceHang, unused,
                       overtaken, backdated>>
    BY <1>8 DEF RsStartRaises
  <2>4. ~gaveUp /\ retryIn <= 0
    BY <1>8, <1>T DEF RsStartRaises, Decided, Due
  <2>5. Counted'
    BY <2>3, <1>T, Constants, FailureBackoff DEF Counted, TimersType
  <2>6. Delayed'
    <3> SUFFICES ASSUME hangs' > 0, ~gaveUp' PROVE sinceHang' + Left' >= Delay(hangs')
      BY DEF Delayed
    <3>1. retryIn' \in {Never} \cup 0 .. MaxDelay
      BY <2>3, <1>T, FailureBackoff
    <3>2. sinceHang + Left >= Delay(hangs)
      BY <2>3, <2>4, <1>T DEF Delayed
    <3>4. Left = 0
      BY <2>4, <1>T DEF Left, TimersType, Never
    <3>3. Delay(hangs) \in 0 .. MaxDelay
      BY <1>T, DelayAssumption DEF TimersType
    <3> QED
      BY <2>3, <3>1, <3>2, <3>3, <3>4, <1>T, Constants DEF Left, TimersType, Never
  <2>7. TimersType' /\ Waited'
    BY <2>3, <1>T, Constants, FailureBackoff DEF TimersType, Waited
  <2>8. FlagsType' /\ RowsType' /\ BoundsType'
    BY <2>2, <2>3, <1>T, FailureBackoff DEF FlagsType, RowsType, BoundsType, rows
  <2> QED
    BY <2>1, <2>2, <2>5, <2>6, <2>7, <2>8 DEF IInv, TypeOK, Backoff
<1> QED
  BY <1>1, <1>2, <1>3, <1>4, <1>5, <1>6, <1>7, <1>8 DEF RsStep

-----------------------------------------------------------------------------
(* Requests.                                                               *)

LEMMA HandlerActs == ASSUME NEW h \in Handlers PROVE h \in Actors \ {Resilience}
BY ActorsAssumption DEF Actors, Managers

\* A request that arrives leaves the timers alone.
LEMMA RequestInv ==
    ASSUME IInv, NEW h \in Handlers, NEW kind, Request(h, kind),
           enabled' \in BOOLEAN, assigned' \in BOOLEAN, hung' \in BOOLEAN,
           RowsType', TunnelType', ThreadsType', Decided', bad' \in 0 .. MaxBad,
           UNCHANGED <<retry, history>>
    PROVE  IInv'
<1>1. UNCHANGED <<idle, booted, restarts, drops>> /\ requests < MaxRequests /\ requests' = requests + 1
  BY DEF Request
<1>2. BoundsType'
  BY <1>1, Constants DEF IInv, TypeOK, BoundsType
<1>3. FlagsType'
  BY <1>1 DEF IInv, TypeOK, FlagsType, retry
<1> QED
  BY <1>1, <1>2, <1>3, Steady

\* A request in progress that moves only its thread, the tunnel and the rows.
LEMMA ProgressInv ==
    ASSUME IInv, RowsType', TunnelType', ThreadsType', Decided', assigned' \in BOOLEAN,
           hung' \in BOOLEAN, bad' \in 0 .. MaxBad,
           UNCHANGED <<enabled, idle, retry, booted, requests, restarts, drops, history>>
    PROVE  IInv'
<1>1. BoundsType' /\ FlagsType'
  BY DEF IInv, TypeOK, BoundsType, FlagsType, retry
<1> QED
  BY <1>1, Steady

LEMMA ArrivalInv == ASSUME IInv, NEW h \in Handlers, Arrival(h) PROVE IInv'
<1>0. h \in Actors \ {Resilience}
  BY HandlerActs
<1>T. /\ FlagsType /\ RowsType /\ TunnelType /\ TimersType /\ ThreadsType /\ BoundsType /\ Decided
  BY DEF IInv, TypeOK, Backoff
<1>B. /\ enabled \in BOOLEAN /\ assigned \in BOOLEAN
      /\ hung \in BOOLEAN /\ bad \in 0 .. MaxBad
  BY <1>T DEF FlagsType, BoundsType
\* Its thread goes on, or stays.
<1>G. ASSUME NEW step \in Steps \ Passing, Goto(h, step), UNCHANGED <<seen, after, retry, history>>
      PROVE  ThreadsType' /\ Decided'
  BY <1>G, <1>0, <1>T, GotoType, OthersDue DEF retry
<1>S. ASSUME UNCHANGED <<threads, retry, history>> PROVE ThreadsType' /\ Decided'
  BY <1>S, <1>T, Unthreaded
<1>R. ASSUME UNCHANGED rows PROVE RowsType' /\ enabled' \in BOOLEAN /\ assigned' \in BOOLEAN
  BY <1>R, <1>T, <1>B DEF RowsType, rows
<1>U. ASSUME UNCHANGED <<tunnel, bad>> PROVE TunnelType' /\ hung' \in BOOLEAN /\ bad' \in 0 .. MaxBad
  BY <1>U, <1>T, <1>B, TunnelSteps
<1>1. CASE Connect(h)
  <2>1. TunnelType' /\ hung' \in BOOLEAN /\ bad' \in 0 .. MaxBad
    BY <1>1, <1>T, <1>B, TunnelSteps DEF Connect
  <2> QED
    BY <1>1, <2>1, <1>G, <1>R, RequestInv DEF Connect, Steps, Passing, Waiting
<1>2. CASE Disconnect(h)
  <2>1. TunnelType' /\ hung' \in BOOLEAN /\ bad' \in 0 .. MaxBad
    BY <1>2, <1>T, <1>B, TunnelSteps DEF Disconnect
  <2> QED
    BY <1>2, <2>1, <1>G, <1>R, RequestInv DEF Disconnect, Steps, Passing, Waiting
<1>3. CASE Autoconnect(h)
  <2>1. Reset /\ Forgiven /\ enabled' = ~enabled
        /\ UNCHANGED <<policy, assigned, override, tunnel, threads, bad>>
    BY <1>3 DEF Autoconnect
  <2>2. UNCHANGED <<idle, booted, restarts, drops>> /\ requests' \in 0 .. MaxRequests
    BY <1>3, <1>T, Constants DEF Autoconnect, Request, BoundsType
  <2>3. ThreadsType' /\ PassWaited'
    BY <2>1, <1>T DEF ThreadsType, threads, Decided, PassWaited, Forgiven
  <2>4. enabled' \in BOOLEAN
    BY <2>1, <1>B
  <2> QED
    BY <2>1, <2>2, <2>3, <2>4, ResetInv
<1>4. CASE EditPolicy(h)
  <2>1. /\ UNCHANGED <<enabled, assigned, override, tunnel, retry, threads, bad, history>>
        /\ Request(h, "policy") /\ policy' \in {"always", "on_demand"}
    BY <1>4 DEF EditPolicy
  <2>2. RowsType' /\ enabled' \in BOOLEAN /\ assigned' \in BOOLEAN
    BY <2>1, <1>T, <1>B DEF RowsType
  <2> QED
    BY <2>1, <2>2, <1>S, <1>U, RequestInv
<1>5. CASE Bulk(h)
  <2>1. RowsType' /\ enabled' \in BOOLEAN /\ assigned' \in BOOLEAN
    BY <1>5, <1>T, <1>B DEF Bulk, RowsType
  <2> QED
    BY <1>5, <2>1, <1>G, <1>U, RequestInv DEF Bulk, Steps, Passing, Waiting
<1>6. CASE Demand(h)
  <2>1. PICK kind \in {"assign", "override_to"} :
          /\ Request(h, kind)
          /\ after' = [after EXCEPT ![h] = kind]
          /\ Goto(h, IF kind = "assign" /\ policy = "always" THEN "commit" ELSE "ready_start")
    BY <1>6 DEF Demand
  <2>2. UNCHANGED <<rows, tunnel, retry, seen, bad, history>>
    BY <1>6 DEF Demand
  <2>3. ThreadsType'
    BY <2>1, <2>2, <1>0, <1>T DEF ThreadsType, Goto, Steps
  <2>4. Decided'
    BY <2>1, <2>2, <1>0, <1>T, OthersDue DEF retry, Steps, Passing, Waiting
  <2> QED
    BY <2>1, <2>2, <2>3, <2>4, <1>R, <1>U, RequestInv
<1>7. CASE Release(h)
  <2>1. RowsType' /\ enabled' \in BOOLEAN /\ assigned' \in BOOLEAN
    BY <1>7, <1>T, <1>B DEF Release, RowsType
  <2>2. \E kind : Request(h, kind)
    BY <1>7 DEF Release
  <2> QED
    BY <1>7, <2>1, <2>2, <1>G, <1>U, RequestInv DEF Release, Steps, Passing, Waiting
<1>8. CASE Preflight(h)
  BY <1>8, <1>G, <1>R, <1>U, RequestInv
     DEF Preflight, Steps, PreflightSteps, Passing, Waiting
<1> QED
  BY <1>1, <1>2, <1>3, <1>4, <1>5, <1>6, <1>7, <1>8 DEF Arrival

\* The end of connect and disconnect.
LEMMA CommitInv ==
    ASSUME IInv, NEW h \in Handlers, Reset, Forgiven, Return(h), enabled' \in BOOLEAN,
           UNCHANGED <<policy, assigned, override, tunnel, idle, booted, bounds>>
    PROVE  IInv'
<1>0. ThreadsType /\ Decided /\ h \in Actors
  BY HandlerActs DEF IInv, TypeOK, Backoff
<1>1. ThreadsType'
  BY <1>0, ReturnType
<1>3. PassWaited'
  <2>1. pc'[h] = "idle" /\ \A b \in Actors \ {h} : pc'[b] = pc[b] /\ seen'[b] = seen[b]
    BY <1>0 DEF ThreadsType, Return
  <2> QED
    BY <1>0, <2>1, OthersPass DEF Decided, Forgiven, Passing, Waiting
<1>2. requests' \in 0 .. MaxRequests
  BY DEF IInv, TypeOK, BoundsType, bounds
<1> QED
  BY <1>1, <1>2, <1>3, ResetInv DEF bounds

LEMMA PreflightInv == ASSUME IInv, NEW h \in Handlers, PreflightStep(h) PROVE IInv'
<1>0. h \in Actors \ {Resilience}
  BY HandlerActs
<1>T. /\ FlagsType /\ RowsType /\ TunnelType /\ ThreadsType /\ BoundsType /\ Decided
  BY DEF IInv, TypeOK, Backoff
<1>B. assigned \in BOOLEAN /\ hung \in BOOLEAN /\ bad \in 0 .. MaxBad
  BY <1>T DEF FlagsType, BoundsType
<1>G. ASSUME NEW step \in PreflightSteps, Goto(h, step), UNCHANGED <<seen, after, retry, history>>
      PROVE  ThreadsType' /\ Decided'
  <2>1. step \in Steps \ Passing
    BY <1>G DEF Steps, PreflightSteps, Passing, Waiting
  <2> QED
    BY <1>G, <2>1, <1>0, <1>T, GotoType, OthersDue DEF retry
<1>R. ASSUME Return(h), UNCHANGED <<retry, history>> PROVE ThreadsType' /\ Decided'
  BY <1>R, <1>0, <1>T, ReturnType, OthersReturnDue DEF retry, history
<1>K. ASSUME ThreadsType' /\ Decided', TunnelType' /\ hung' \in BOOLEAN /\ bad' \in 0 .. MaxBad,
             UNCHANGED <<rows, idle, retry, booted, requests, restarts, drops, history>>
      PROVE  IInv'
  <2>1. RowsType' /\ assigned' \in BOOLEAN /\ enabled' = enabled
    BY <1>K, <1>T, <1>B DEF RowsType, rows
  <2> QED
    BY <1>K, <2>1, ProgressInv
<1>1. CASE PfStatus(h)
  <2>1. ThreadsType' /\ Decided'
    BY <1>1, <1>G, <1>R DEF PfStatus, PreflightSteps
  <2> QED
    BY <1>1, <2>1, Unmoved DEF PfStatus
<1>2. CASE PfClear(h)
  <2>1. TunnelType' /\ hung' \in BOOLEAN /\ bad' \in 0 .. MaxBad
    BY <1>2, <1>T, <1>B, TunnelSteps DEF PfClear
  <2>2. ThreadsType' /\ Decided'
    BY <1>2, <1>G DEF PfClear, PreflightSteps
  <2> QED
    BY <1>2, <2>1, <2>2, <1>K DEF PfClear
<1>3. CASE PfStart(h)
  <2>1. TunnelType' /\ hung' \in BOOLEAN /\ bad' \in 0 .. MaxBad
    BY <1>3, <1>T, <1>B, TunnelSteps DEF PfStart
  <2>2. ThreadsType' /\ Decided'
    BY <1>3, <1>G DEF PfStart, PreflightSteps
  <2> QED
    BY <1>3, <2>1, <2>2, <1>K DEF PfStart
<1>4. CASE PfPark(h)
  <2>1. TunnelType' /\ hung' \in BOOLEAN /\ bad' \in 0 .. MaxBad
    BY <1>4, <1>T, <1>B, TunnelSteps DEF PfPark
  <2>2. ThreadsType' /\ Decided'
    BY <1>4, <1>R DEF PfPark
  <2> QED
    BY <1>4, <2>1, <2>2, <1>K DEF PfPark
<1> QED
  BY <1>1, <1>2, <1>3, <1>4 DEF PreflightStep

LEMMA ProgressStepInv == ASSUME IInv, NEW h \in Handlers, Progress(h) PROVE IInv'
<1>0. h \in Actors \ {Resilience}
  BY HandlerActs
<1>T. /\ FlagsType /\ RowsType /\ TunnelType /\ TimersType /\ ThreadsType /\ BoundsType
      /\ Waited /\ Counted /\ Delayed /\ Decided
  BY DEF IInv, TypeOK, Backoff
<1>B. assigned \in BOOLEAN /\ hung \in BOOLEAN /\ bad \in 0 .. MaxBad
  BY <1>T DEF FlagsType, BoundsType
<1>G. ASSUME NEW step \in Steps \ Passing, Goto(h, step), UNCHANGED <<seen, after, retry, history>>
      PROVE  ThreadsType' /\ Decided'
  BY <1>G, <1>0, <1>T, GotoType, OthersDue DEF retry
<1>R. ASSUME Return(h), UNCHANGED <<retry, history>> PROVE ThreadsType' /\ Decided'
  BY <1>R, <1>0, <1>T, ReturnType, OthersReturnDue DEF retry, history
<1>1. CASE ConnectCommit(h)
  BY <1>1, CommitInv DEF ConnectCommit
<1>2. CASE DisconnectCommit(h)
  BY <1>2, CommitInv DEF DisconnectCommit
<1>3. CASE ReadyStart(h)
  <2>1. TunnelType' /\ hung' \in BOOLEAN /\ bad' \in 0 .. MaxBad
    BY <1>3, <1>T, <1>B, TunnelSteps DEF ReadyStart
  <2>2. ThreadsType' /\ Decided'
    BY <1>3, <1>G, <1>R DEF ReadyStart, Steps, Passing, Waiting
  <2>3. UNCHANGED <<rows, idle, retry, booted, requests, restarts, drops, history>>
    BY <1>3 DEF ReadyStart
  <2>4. RowsType' /\ assigned' \in BOOLEAN /\ enabled' = enabled
    BY <2>3, <1>T, <1>B DEF RowsType, rows
  <2> QED
    BY <2>1, <2>2, <2>3, <2>4, ProgressInv
<1>4. CASE Ready(h)
  BY <1>4, <1>0, NoticeInv DEF Ready, Steps, Passing, Waiting
<1>5. CASE NotReady(h)
  BY <1>5, <1>R, Unmoved DEF NotReady
<1>6. CASE Commit(h)
  <2>1. /\ after' = [after EXCEPT ![h] = "none"] /\ Goto(h, "od_read")
        /\ UNCHANGED <<enabled, policy, tunnel, idle, retry, seen, booted, bounds, history>>
    BY <1>6 DEF Commit
  <2>2. ThreadsType'
    BY <2>1, <1>0, <1>T DEF ThreadsType, Goto, Steps
  <2>3. Decided'
    BY <2>1, <1>0, <1>T, OthersDue DEF retry, Steps, Passing, Waiting
  <2>4. RowsType' /\ assigned' \in BOOLEAN
    BY <1>6, <1>T, <1>B DEF Commit, RowsType
  <2>5. TunnelType' /\ hung' \in BOOLEAN /\ bad' \in 0 .. MaxBad
    BY <2>1, <1>T, <1>B, TunnelSteps DEF bounds
  <2> QED
    BY <2>1, <2>2, <2>3, <2>4, <2>5, ProgressInv DEF bounds
<1>7. CASE OdStep(h)
  BY <1>7, OdInv
<1>8. CASE PreflightStep(h)
  BY <1>8, PreflightInv
<1> QED
  BY <1>1, <1>2, <1>3, <1>4, <1>5, <1>6, <1>7, <1>8 DEF Progress

-----------------------------------------------------------------------------
(* Boot, the tunnel, time and the process.                                 *)

LEMMA ManagerInv == ASSUME IInv, ManagerStep PROVE IInv'
<1>0. OnDemand \in Actors \ {Resilience}
  BY ActorsAssumption DEF Actors, Managers
<1>T. /\ FlagsType /\ RowsType /\ TunnelType /\ ThreadsType /\ BoundsType /\ Decided
  BY DEF IInv, TypeOK, Backoff
<1>B. assigned \in BOOLEAN /\ hung \in BOOLEAN /\ bad \in 0 .. MaxBad
  BY <1>T DEF FlagsType, BoundsType
<1>G. ASSUME Goto(OnDemand, "od_read"), UNCHANGED <<seen, after, retry, history>>
      PROVE  ThreadsType' /\ Decided'
  BY <1>G, <1>0, <1>T, GotoType, OthersDue DEF retry, Steps, Passing, Waiting
<1>1. CASE Restore
  <2>1. TunnelType' /\ hung' \in BOOLEAN /\ bad' \in 0 .. MaxBad
    BY <1>1, <1>T, <1>B, TunnelSteps DEF Restore
  <2>2. ThreadsType' /\ Decided'
    BY <1>1, <1>G DEF Restore
  <2>3. UNCHANGED <<rows, idle, retry, booted, requests, restarts, drops, history>>
    BY <1>1 DEF Restore
  <2>4. RowsType' /\ assigned' \in BOOLEAN /\ enabled' = enabled
    BY <2>3, <1>T, <1>B DEF RowsType, rows
  <2> QED
    BY <2>1, <2>2, <2>3, <2>4, ProgressInv
<1>2. CASE OdBegin
  BY <1>2, <1>G, Unmoved DEF OdBegin
<1>3. CASE OdStep(OnDemand)
  BY <1>3, OdInv
<1> QED
  BY <1>1, <1>2, <1>3 DEF ManagerStep

LEMMA EnvironmentInv == ASSUME IInv, Environment PROVE IInv'
<1>T. /\ FlagsType /\ RowsType /\ TunnelType /\ TimersType /\ ThreadsType /\ BoundsType
      /\ Waited /\ Counted /\ Delayed /\ Decided
  BY DEF IInv, TypeOK, Backoff
<1>B. hung \in BOOLEAN /\ bad \in 0 .. MaxBad
  BY <1>T DEF FlagsType, BoundsType
\* What befalls the tunnel leaves everything else alone.
<1>K. ASSUME TunnelType', hung' \in BOOLEAN, drops' \in 0 .. MaxDrops,
             UNCHANGED <<rows, idle, retry, threads, booted, requests, restarts, bad, history>>
      PROVE  IInv'
  <2>1. ThreadsType' /\ Decided'
    BY <1>K, <1>T, Unthreaded
  <2>2. FlagsType' /\ RowsType' /\ BoundsType'
    BY <1>K, <1>T DEF FlagsType, RowsType, BoundsType, rows, retry
  <2> QED
    BY <1>K, <2>1, <2>2, Steady
<1>1. CASE Establish
  <2>1. TunnelType' /\ hung' = FALSE
    BY <1>1, Constants DEF Establish, TunnelType
  <2> QED
    BY <1>1, <2>1, <1>T, <1>K DEF Establish, bounds, BoundsType
<1>2. CASE ExitsLate
  <2>1. TunnelType' /\ hung' = FALSE
    BY <1>2, Constants DEF ExitsLate, TunnelType
  <2> QED
    BY <1>2, <2>1, <1>T, <1>K DEF ExitsLate, bounds, BoundsType
<1>3. CASE Drop
  <2>1. TunnelType'
    BY <1>3, <1>T, Constants DEF Drop, TunnelType
  <2>2. drops' \in 0 .. MaxDrops
    BY <1>3, <1>T, Constants DEF Drop, BoundsType
  <2> QED
    BY <1>3, <2>1, <2>2, <1>B, <1>K DEF Drop
<1>4. CASE Restart
  <2>1. /\ idle' = Never /\ booted' = FALSE /\ overtaken' = {} /\ backdated' = FALSE
        /\ pc' = [a \in Actors |-> IF a = OnDemand THEN "restore" ELSE "idle"]
        /\ seen' = [a \in Actors |-> NoRow] /\ after' = [a \in Actors |-> "none"]
        /\ UNCHANGED <<rows, failures, gaveUp, requests, bad, drops, hangs, unused>>
        /\ restarts < MaxRestarts /\ restarts' = restarts + 1
        /\ Stop \/ UNCHANGED tunnel
    BY <1>4 DEF Restart
  <2>D. PICK down \in 0 .. MaxDelay :
          /\ retryIn' = IF retryIn = Never THEN Never ELSE Larger(0, retryIn - down)
          /\ sinceHang' = Smaller(MaxDelay, sinceHang + down)
    BY <1>4 DEF Restart
  <2>2. retryIn' \in {Never} \cup 0 .. MaxDelay /\ sinceHang' \in 0 .. MaxDelay
    BY <2>D, <1>T, Constants DEF TimersType, Never, Larger, Smaller
  <2>3. TunnelType' /\ hung' \in BOOLEAN
    BY <2>1, <1>T, <1>B, TunnelSteps
  <2>4. TimersType' /\ Waited' /\ Counted'
    BY <2>1, <2>2, <1>T, Constants DEF TimersType, Waited, Counted, Never
  <2>5. Delayed'
    <3> SUFFICES ASSUME hangs' > 0, ~gaveUp' PROVE sinceHang' + Left' >= Delay(hangs')
      BY DEF Delayed
    <3>1. Delay(hangs) \in 0 .. MaxDelay /\ Delay(hangs') = Delay(hangs)
      BY <2>1, <1>T, DelayAssumption DEF TimersType
    <3>2. sinceHang + Left >= Delay(hangs)
      BY <2>1, <1>T DEF Delayed
    <3>3. Left \in Nat /\ Left' \in Nat /\ Left' >= Left - down
      BY <2>D, <1>T, Constants DEF TimersType, Left, Never, Larger
    <3>4. sinceHang' = MaxDelay \/ sinceHang' = sinceHang + down
      BY <2>D DEF Smaller
    <3>5. sinceHang \in Nat
      BY <1>T, Constants DEF TimersType
    <3> QED
      BY <3>1, <3>2, <3>3, <3>4, <3>5, Constants
  <2>6. ThreadsType' /\ Decided'
    BY <2>1, ActorsAssumption, Constants
    DEF ThreadsType, Decided, Due, PassWaited, Passing, Waiting, NoRow, Steps, Actors, Managers
  <2>7. FlagsType' /\ RowsType'
    BY <2>1, <2>3, <1>T DEF FlagsType, RowsType, rows
  <2>8. BoundsType'
    BY <2>1, <1>T, Constants DEF BoundsType
  <2> QED
    BY <2>3, <2>4, <2>5, <2>6, <2>7, <2>8 DEF IInv, TypeOK, Backoff
<1> QED
  BY <1>1, <1>2, <1>3, <1>4 DEF Environment

\* Time takes from what is left as much as it adds to what has passed.
LEMMA TickInv == ASSUME IInv, Tick PROVE IInv'
<1>T. /\ FlagsType /\ RowsType /\ TunnelType /\ TimersType /\ ThreadsType /\ BoundsType
      /\ Waited /\ Counted /\ Delayed /\ Decided
  BY DEF IInv, TypeOK, Backoff
<1>1. /\ age' = IF tun = "connecting" THEN Smaller(Timeout, age + 1) ELSE age
      /\ idle' = IF idle = Never THEN Never ELSE Smaller(Grace + MaxPass, idle + 1)
      /\ seen' = [a \in Actors |->
             IF pc[a] \in Passing THEN [seen[a] EXCEPT !.ago = @ + 1] ELSE seen[a]]
      /\ \A a \in Actors : pc[a] \in Passing => seen[a].ago < MaxPass
      /\ retryIn' = IF retryIn > 0 THEN retryIn - 1 ELSE retryIn
      /\ sinceHang' = Smaller(MaxDelay, sinceHang + 1)
      /\ unused' = Smaller(Grace, unused + 1)
      /\ UNCHANGED <<rows, tun, hung, failures, gaveUp, pc, after, booted, bounds, hangs,
                     overtaken, backdated>>
  BY DEF Tick
<1>2. FlagsType' /\ RowsType' /\ BoundsType'
  BY <1>1, <1>T DEF FlagsType, RowsType, BoundsType, rows, bounds
<1>3. TunnelType'
  BY <1>1, <1>T, Constants DEF TunnelType, Smaller
<1>4. TimersType' /\ Waited'
  BY <1>1, <1>T, Constants DEF TimersType, Waited, Smaller, Never
<1>5. Counted'
  BY <1>1, <1>T DEF Counted
<1>6. Delayed'
  <2> SUFFICES ASSUME hangs' > 0, ~gaveUp' PROVE sinceHang' + Left' >= Delay(hangs')
    BY DEF Delayed
  <2>1. sinceHang + Left >= Delay(hangs)
    BY <1>1, <1>T DEF Delayed
  <2>2. Delay(hangs) \in 0 .. MaxDelay
    BY <1>T, DelayAssumption DEF TimersType
  <2>3. hangs' = hangs
    BY <1>1
  <2>4. sinceHang' = MaxDelay \/ sinceHang' = sinceHang + 1
    BY <1>1, <1>T, Constants DEF TimersType, Smaller
  <2>5. Left' >= 0 /\ Left' + 1 >= Left /\ Left \in Nat /\ Left' \in Nat
    BY <1>1, <1>T, Constants DEF TimersType, Left, Never
  <2>6. Delay(hangs') = Delay(hangs)
    BY <2>3
  <2>7. CASE sinceHang' = MaxDelay
    BY <2>2, <2>5, <2>6, <2>7, Constants
  <2>8. CASE sinceHang' = sinceHang + 1
    <3>1. sinceHang \in Int /\ Delay(hangs) \in Int
      BY <2>2, <1>T, Constants DEF TimersType
    <3>2. retryIn \in Int /\ retryIn' = IF retryIn > 0 THEN retryIn - 1 ELSE retryIn
      BY <1>1, <1>T, Constants DEF TimersType, Never
    <3> QED
      BY <2>1, <2>6, <2>8, <3>1, <3>2 DEF Left
  <2> QED
    BY <2>4, <2>7, <2>8
<1>7. ThreadsType'
  <2>1. ASSUME NEW a \in Actors
        PROVE  seen'[a] \in [enabled : BOOLEAN, policy : {"always", "on_demand"},
                             required : BOOLEAN, joined : BOOLEAN, ago : 0 .. MaxPass]
    <3>1. CASE pc[a] \in Passing
      <4>1. seen[a].ago < MaxPass /\ seen'[a] = [seen[a] EXCEPT !.ago = @ + 1]
        BY <1>1, <3>1
      <4>2. seen[a].ago + 1 \in 0 .. MaxPass
        BY <4>1, <1>T, Constants DEF ThreadsType
      <4> QED
        BY <4>1, <4>2, <1>T DEF ThreadsType
    <3>2. CASE pc[a] \notin Passing
      BY <1>1, <3>2, <1>T DEF ThreadsType
    <3> QED
      BY <3>1, <3>2
  <2>2. seen' \in [Actors -> [enabled : BOOLEAN, policy : {"always", "on_demand"},
                              required : BOOLEAN, joined : BOOLEAN, ago : 0 .. MaxPass]]
    <3>1. DOMAIN seen' = Actors /\ seen' = [a \in Actors |-> seen'[a]]
      BY <1>1
    <3> QED
      BY <2>1, <3>1
  <2> QED
    BY <1>1, <2>2, <1>T DEF ThreadsType
<1>8. Decided'
  <2>1. UNCHANGED <<pc, gaveUp, overtaken>>
    BY <1>1
  <2>2. retryIn <= 0 => retryIn' <= 0
    BY <1>1, <1>T, Constants DEF TimersType, Never
  <2>3. Due'
    BY <2>1, <2>2, <1>T DEF Decided, Due
  <2>4. ASSUME NEW a \in Actors \ overtaken
        PROVE  /\ pc[a] \in Waiting => seen'[a].ago <= unused' \/ unused' = Grace
               /\ pc[a] = "od_stop" => unused' = Grace
    <3>1. /\ pc[a] \in Waiting => seen[a].ago <= unused \/ unused = Grace
          /\ pc[a] = "od_stop" => unused = Grace
      BY <1>T DEF Decided, PassWaited
    <3>2. pc[a] \in Waiting => seen'[a].ago = seen[a].ago + 1
      BY <1>1, <1>T DEF ThreadsType, Passing
    <3>3. unused' = Grace \/ (unused # Grace /\ unused' = unused + 1)
      BY <1>1, <1>T, Constants DEF TimersType, Smaller
    <3>4. seen[a].ago \in Nat /\ unused \in Nat
      BY <1>T, Constants DEF ThreadsType, TimersType
    <3> QED
      BY <3>1, <3>2, <3>3, <3>4
  <2>5. PassWaited'
    BY <2>1, <2>4 DEF PassWaited
  <2> QED
    BY <2>3, <2>5 DEF Decided
<1> QED
  BY <1>2, <1>3, <1>4, <1>5, <1>6, <1>7, <1>8 DEF IInv, TypeOK, Backoff

-----------------------------------------------------------------------------
LEMMA InvNext == ASSUME IInv, [Next]_vars PROVE IInv'
<1>1. CASE ManagerStep
  BY <1>1, ManagerInv
<1>2. CASE RsStep
  BY <1>2, RsInv
<1>3. ASSUME NEW h \in Handlers, Arrival(h) \/ Progress(h) PROVE IInv'
  BY <1>3, ArrivalInv, ProgressStepInv
<1>4. CASE Environment
  BY <1>4, EnvironmentInv
<1>5. CASE Tick
  BY <1>5, TickInv
<1>6. CASE UNCHANGED vars
  <2>1. ThreadsType' /\ Decided'
    BY <1>6, Unthreaded DEF IInv, TypeOK, Backoff, vars
  <2> QED
    BY <1>6, <2>1, Unmoved DEF vars
<1> QED
  BY <1>1, <1>2, <1>3, <1>4, <1>5, <1>6 DEF Next

LEMMA Invariant == Spec => []IInv
<1> QED
  BY InitInv, InvNext, PTL DEF Spec

\* Rows, timers and threads stay well typed, and only an attempt that is under
\* way hangs or has an age, for any number of handlers and any bounds.
THEOREM TypeCorrect == Spec => []TypeOK
<1>1. IInv => TypeOK
  BY DEF IInv
<1> QED
  BY <1>1, Invariant, PTL

-----------------------------------------------------------------------------
(* The grace period.                                                       *)

\* A pass that stops a tunnel without having been overtaken by demand does so a
\* whole grace period after demand was last noticed, for any grace period, any
\* duration of a pass and any number of threads that share the idle times.
THEOREM GraceIsKept == Spec => GraceKept
<1>1. ASSUME IInv, NEW a \in Actors, pc[a] = "od_stop", a \notin overtaken PROVE unused >= Grace
  <2>1. unused = Grace
    BY <1>1 DEF IInv, Backoff, Decided, PassWaited
  <2> QED
    BY <2>1, Constants
<1>2. IInv /\ [Next]_vars =>
        [\A a \in Actors :
            pc[a] = "od_stop" /\ pc'[a] = "od_forget" /\ tun # "down" /\ a \notin overtaken
            => unused >= Grace]_vars
  BY <1>1
<1> QED
  BY <1>2, Invariant, PTL DEF Spec, GraceKept

-----------------------------------------------------------------------------
\* Every start by the retry manager comes at least the exponential delay after
\* the last timeout, and only while failures are left.
THEOREM BackoffIsKept == Spec => BackoffKept
<1>1. ASSUME IInv, Retried, hangs > 0
      PROVE  sinceHang >= Delay(hangs) /\ (MaxFailures > 0 => hangs < MaxFailures)
  <2>T. TimersType /\ Counted /\ Delayed /\ Decided
    BY <1>1 DEF IInv, TypeOK, Backoff
  <2>1. ~gaveUp /\ retryIn <= 0
    BY <1>1, <2>T DEF Retried, Decided, Due
  <2>2. Left = 0
    BY <2>1, <2>T, Constants DEF Left, TimersType, Never
  <2>3. sinceHang + Left >= Delay(hangs)
    BY <1>1, <2>1, <2>T DEF Delayed
  <2>4. Delay(hangs) \in 0 .. MaxDelay
    BY <2>T, DelayAssumption DEF TimersType
  <2>5. sinceHang \in Int
    BY <2>T, Constants DEF TimersType
  <2>6. MaxFailures > 0 => failures < MaxFailures /\ hangs <= failures
    BY <2>1, <2>T DEF Counted
  <2>7. MaxFailures > 0 => hangs < MaxFailures
    BY <2>6, <2>T, Constants DEF TimersType
  <2> QED
    BY <2>2, <2>3, <2>4, <2>5, <2>7, Constants
<1>2. IInv /\ [Next]_vars =>
        [Retried /\ hangs > 0 =>
            /\ sinceHang >= Delay(hangs)
            /\ MaxFailures > 0 => hangs < MaxFailures]_vars
  BY <1>1
<1> QED
  BY <1>2, Invariant, PTL DEF Spec, BackoffKept
=============================================================================

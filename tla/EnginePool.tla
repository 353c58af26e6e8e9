------------------------------ MODULE EnginePool ------------------------------
(***************************************************************************)
(* A pool of engine workers (pool.ts) with the search state machine of     *)
(* each worker (instance.ts), as EngineManager uses them.  An action is    *)
(* one turn of the event loop: the callback that starts it and every       *)
(* promise reaction it sets off, in order.  The pool is one record, and    *)
(* its methods are operators on that record.                               *)
(*                                                                         *)
(* All jobs are of one priority class, so the scheduler is first in, first *)
(* out here; PriorityScheduler models classes and aging.                   *)
(***************************************************************************)
EXTENDS Integers, FiniteSetsExt, SequencesExt

CONSTANTS Play, Analysis,         \* the jobs: play(), and analyze() after ensureCapabilities()
          Worker,                 \* bound: the processes that may exist at one time
          NoJob,
          MinWorkers, MaxWorkers, Capacity, MaxAttempts, FailureThreshold,
          MaxFaults               \* bound: crashes, refusals and silences of engines

Job == Play \cup Analysis

Assumptions ==
  /\ IsFiniteSet(Worker)
  /\ Play \cap Analysis = {} /\ NoJob \notin Job
  /\ MinWorkers \in Nat /\ MaxWorkers \in Nat /\ MinWorkers <= MaxWorkers /\ MaxWorkers > 0
  /\ {Capacity, MaxAttempts, FailureThreshold} \subseteq Nat \ {0}
  /\ MaxFaults \in Nat

VARIABLES pool,     \* the EnginePool and its workers
          call,     \* call[j]: where the caller of j is
          outcome,  \* outcome[j]: how its promise settled
          aborted,  \* the jobs whose signal has aborted
          drain,    \* the call of drain()
          faults    \* faults so far

vars == <<pool, call, outcome, aborted, drain, faults>>

\* A process: "init" is the handshake, "setup" and "search" the two parts of a
\* search, "orphan" a process the pool has no record of any more.
NoProcess == [st |-> "none", job |-> NoJob, stop |-> FALSE, killed |-> FALSE, quit |-> FALSE]
ProcessRecord ==
  [st : {"none", "init", "ready", "setup", "search", "orphan"},
   job : Job \cup {NoJob}, stop : BOOLEAN, killed : BOOLEAN, quit : BOOLEAN]

Outcomes == {"pending", "value", "error", "crashed", "cancelled", "circuit_open",
             "queue_full", "shutting_down", "not_initialized"}

TypeOK ==
  /\ pool \in [queue : Seq(Job), inst : Seq(Worker), worker : [Worker -> ProcessRecord],
               tries : [Job -> 0..MaxAttempts], reap : SUBSET Worker,
               breaker : {"closed", "open", "half-open"}, fails : 0..FailureThreshold,
               cooled : BOOLEAN, caps : BOOLEAN, draining : BOOLEAN,
               warm : {"none", "pending", "done", "failed"}, warmers : SUBSET Worker]
  /\ call \in [Job -> {"new", "warming", "submitted"}]
  /\ outcome \in [Job -> Outcomes]
  /\ aborted \subseteq Job
  /\ drain \in {"no", "waiting", "done"}
  /\ faults \in 0..MaxFaults

Init ==
  /\ pool = [queue |-> <<>>, inst |-> <<>>, worker |-> [w \in Worker |-> NoProcess],
             tries |-> [j \in Job |-> 0], reap |-> {}, breaker |-> "closed", fails |-> 0,
             cooled |-> FALSE, caps |-> FALSE, draining |-> FALSE,
             warm |-> "none", warmers |-> {}]
  /\ call = [j \in Job |-> "new"]
  /\ outcome = [j \in Job |-> "pending"]
  /\ aborted = {}
  /\ drain = "no"
  /\ faults = 0

-------------------------------------------------------------------------------
(* The pool's methods, as operators on the pool p. *)

Spawning(p) == {w \in Worker : p.worker[w].st = "init"}
Busy(p) == {w \in Worker : p.worker[w].job # NoJob}
Without(s, e) == IF e \in Range(s) THEN RemoveAt(s, CHOOSE i \in DOMAIN s : s[i] = e) ELSE s

\* findIdle: alive and not busy.  The end of a search makes a worker ready again
\* even when its process was killed.
Idle(p) == {i \in DOMAIN p.inst : p.worker[p.inst[i]].st = "ready"}

\* The loop of dispatch: the idle workers, in the order of the instances, take the
\* next jobs and lose their reap timers.
AssignIdle(p) ==
  LET turn(i) == Cardinality({k \in Idle(p) : k <= i})
      takers == {i \in Idle(p) : turn(i) <= Len(p.queue)}
      n == Cardinality(takers)
      given(w) == p.queue[turn(CHOOSE i \in takers : p.inst[i] = w)]
      busy == {p.inst[i] : i \in takers}
  IN [p EXCEPT
        !.queue = SubSeq(@, n + 1, Len(@)),
        !.worker = [w \in Worker |-> IF w \notin busy THEN @[w]
                    ELSE [@[w] EXCEPT !.st = "setup", !.job = given(w), !.stop = FALSE]],
        !.tries = [j \in Job |-> @[j] + Cardinality({i \in 1..n : p.queue[i] = j})],
        !.reap = @ \ busy]

\* Mutant: a probe is allowed without waiting for the cooldown.
UpdateBreaker_AtOnce(p) == IF p.breaker = "open" THEN [p EXCEPT !.breaker = "half-open"] ELSE p

\* updateBreaker
UpdateBreaker(p) ==
  IF p.breaker = "open" /\ p.cooled THEN [p EXCEPT !.breaker = "half-open"] ELSE p

\* A slot is not used again in the turn in which its process ended.
Free(p) == {w \in Worker : p.worker[w] = NoProcess /\ pool.worker[w] = NoProcess}

\* The synchronous part of spawnWorker, n times.
Spawn(p, n) ==
  LET fresh == CHOOSE S \in SUBSET Free(p) : Cardinality(S) = Min({n, Cardinality(Free(p))})
  IN [p EXCEPT !.worker = [w \in Worker |-> IF w \in fresh THEN [NoProcess EXCEPT !.st = "init"]
                                            ELSE @[w]]]

\* Mutant: workers that are still starting are not counted.
Headroom_Started(p) == Max({0, MaxWorkers - Len(p.inst)})

Headroom(p) == Max({0, MaxWorkers - (Len(p.inst) + Cardinality(Spawning(p)))})

\* dispatch
Dispatch(p) ==
  IF p.draining THEN p
  ELSE LET a == AssignIdle(p)
           b == UpdateBreaker(a)
       IN IF a.queue = <<>> THEN a
          ELSE IF b.breaker = "open" THEN b
          ELSE Spawn(b, Min({Headroom(b), Len(b.queue)}))

\* recordFailure.  Of the earlier failures, all or none are still in the window.
Record(p, inWindow) ==
  LET fails == Min({FailureThreshold, 1 + IF inWindow THEN p.fails ELSE 0})
  IN IF fails < FailureThreshold THEN [p EXCEPT !.fails = fails]
     ELSE [p EXCEPT !.fails = fails, !.breaker = "open", !.cooled = FALSE]

\* replenish
Replenish(p) ==
  IF p.draining THEN p
  ELSE LET b == UpdateBreaker(p)
       IN IF b.breaker # "open" /\ Len(b.inst) + Cardinality(Spawning(b)) < MinWorkers
          THEN Spawn(b, 1) ELSE Dispatch(b)

\* handleDead
HandleDead(p, w, expected, inWindow) ==
  LET q == [p EXCEPT !.inst = Without(@, w), !.reap = @ \ {w}]
  IN IF expected \/ q.draining THEN q ELSE Replenish(Record(q, inWindow))

\* enqueueJob: Full is the scheduler's QueueFullError, thrown before anything changes.
Full(p) == Len(p.queue) >= Capacity
EnqueueJob(p, j) == Dispatch([p EXCEPT !.queue = Append(@, j)])

\* onSpawnSuccess
SpawnSucceeded(p) ==
  IF p.breaker = "closed" THEN p ELSE [p EXCEPT !.breaker = "closed", !.fails = 0, !.cooled = FALSE]

\* Mutant: a worker that becomes free does not look at the queue.
WorkerFree_Rests(p, w) ==
  IF p.draining \/ p.worker[w].st = "none" \/ Len(p.inst) <= MinWorkers THEN p
  ELSE [p EXCEPT !.reap = @ \cup {w}]

\* onWorkerFree, with scheduleReap
WorkerFree(p, w) ==
  IF p.draining \/ p.worker[w].st = "none" THEN p
  ELSE Dispatch(IF Len(p.inst) > MinWorkers THEN [p EXCEPT !.reap = @ \cup {w}] ELSE p)

\* The search of w is over: instance.search makes a living worker ready again.
EndSearch(p, w, alive) ==
  [p EXCEPT !.worker[w] = IF ~alive THEN NoProcess
                          ELSE [@ EXCEPT !.job = NoJob, !.stop = FALSE,
                                         !.st = IF w \in Range(p.inst) THEN "ready" ELSE "orphan"]]

\* The spawn of w is over: its process is gone, or lives on without a record.
EndSpawn(p, w, left) ==
  [p EXCEPT !.worker[w] = left, !.warmers = @ \ {w}]

\* The reactions after the spawn of w ended; a warm-up's spawns do not dispatch.
AfterSpawn(p, w) == IF w \in pool.warmers THEN p ELSE Dispatch(p)

-------------------------------------------------------------------------------
(* The callers. *)

Settle(j, how) == outcome' = [outcome EXCEPT ![j] = how]

\* enqueue: refused at once, or handed to the scheduler.
Submit(j) ==
  LET p == UpdateBreaker(pool)
  IN /\ call' = [call EXCEPT ![j] = "submitted"]
     /\ \/ /\ pool.draining
           /\ Settle(j, "shutting_down") /\ UNCHANGED pool
        \/ /\ ~pool.draining /\ pool' = p
           /\ \/ p.breaker = "open" /\ Settle(j, "circuit_open")
              \/ p.breaker # "open" /\ j \in aborted /\ Settle(j, "cancelled")
              \/ p.breaker # "open" /\ j \notin aborted /\ Full(p) /\ Settle(j, "queue_full")
        \/ /\ ~pool.draining /\ p.breaker # "open" /\ j \notin aborted /\ ~Full(p)
           /\ pool' = EnqueueJob(p, j) /\ UNCHANGED outcome

\* EngineManager.play
PlayCall(j) ==
  /\ call[j] = "new" /\ j \in Play
  /\ Submit(j)
  /\ UNCHANGED <<aborted, drain, faults>>

\* EngineManager.analyze up to its await: warm up unless capabilities are known
\* or a warm-up was ever made.
AnalyzeCall(j) ==
  /\ call[j] = "new" /\ j \in Analysis
  /\ IF j \in aborted
     THEN call' = [call EXCEPT ![j] = "submitted"] /\ Settle(j, "cancelled") /\ UNCHANGED pool
     ELSE IF pool.caps THEN Submit(j)
     ELSE /\ call' = [call EXCEPT ![j] = "warming"]
          /\ IF pool.warm # "none" THEN UNCHANGED pool
             ELSE LET p == Spawn(pool, Max({1, MinWorkers}))
                  IN pool' = [p EXCEPT !.warm = "pending",
                                       !.warmers = Spawning(p) \ Spawning(pool)]
          /\ UNCHANGED outcome
  /\ UNCHANGED <<aborted, drain, faults>>

\* The warm-up's spawns have all settled.
WarmupEnds ==
  /\ pool.warm = "pending" /\ pool.warmers = {}
  /\ pool' = [pool EXCEPT !.warm = IF pool.caps THEN "done" ELSE "failed"]
  /\ UNCHANGED <<call, outcome, aborted, drain, faults>>

\* analyze after its await: capabilities, or the warm-up's error.
AnalyzeResumes(j) ==
  /\ call[j] = "warming" /\ pool.warm \in {"done", "failed"} /\ outcome[j] = "pending"
  /\ IF pool.warm = "done" THEN Submit(j)
     ELSE /\ call' = [call EXCEPT ![j] = "submitted"]
          /\ Settle(j, "not_initialized") /\ UNCHANGED pool
  /\ UNCHANGED <<aborted, drain, faults>>

\* The caller's signal: it removes a queued job and stops a search that listens.
Abort(j) ==
  /\ outcome[j] = "pending" /\ j \notin aborted
  /\ aborted' = aborted \cup {j}
  /\ IF call[j] = "warming" \/ j \in Range(pool.queue)
     THEN /\ Settle(j, "cancelled")
          /\ pool' = [pool EXCEPT !.queue = Without(@, j)]
          /\ call' = [call EXCEPT ![j] = "submitted"]
     ELSE /\ pool' = [pool EXCEPT !.worker = [w \in Worker |->
                        IF @[w].job = j /\ @[w].st = "search" THEN [@[w] EXCEPT !.stop = TRUE]
                        ELSE @[w]]]
          /\ UNCHANGED <<outcome, call>>
  /\ UNCHANGED <<drain, faults>>

-------------------------------------------------------------------------------
(* The engines. *)

\* Mutant: one attempt too many.
JobFails_OneMore(p, w, j, alive) ==
  LET q == EndSearch(p, w, alive)
      retried == q.tries[j] <= MaxAttempts /\ j \notin aborted /\ ~q.draining
      r == IF retried /\ ~Full(q) THEN EnqueueJob(q, j) ELSE q
  IN /\ pool' = WorkerFree(r, w)
     /\ IF retried THEN UNCHANGED outcome ELSE Settle(j, "crashed")

\* Mutant: a drain does not stop retries.
JobFails_WhileDraining(p, w, j, alive) ==
  LET q == EndSearch(p, w, alive)
      retried == q.tries[j] < MaxAttempts /\ j \notin aborted
      r == IF retried /\ ~Full(q) THEN EnqueueJob(q, j) ELSE q
  IN /\ pool' = WorkerFree(r, w)
     /\ IF retried THEN UNCHANGED outcome ELSE Settle(j, "crashed")

\* The reactions to a search of w that ended with a retryable error: onJobError,
\* then the finally.  A retry that meets a full queue throws in the reaction.
JobFails(p, w, j, alive) ==
  LET q == EndSearch(p, w, alive)
      retried == q.tries[j] < MaxAttempts /\ j \notin aborted /\ ~q.draining
      r == IF retried /\ ~Full(q) THEN EnqueueJob(q, j) ELSE q
  IN /\ pool' = WorkerFree(r, w)
     /\ IF retried THEN UNCHANGED outcome ELSE Settle(j, "crashed")

Fault == faults < MaxFaults /\ faults' = faults + 1

\* init resolves: the worker joins the pool, unless the pool is draining.
InitDone(w) ==
  /\ pool.worker[w].st = "init"
  /\ LET p == EndSpawn(pool, w, [NoProcess EXCEPT !.st = "ready"])
     IN pool' = IF pool.draining THEN EndSpawn(pool, w, [NoProcess EXCEPT !.st = "orphan", !.quit = TRUE])
                ELSE AfterSpawn(SpawnSucceeded([p EXCEPT !.inst = Append(@, w), !.caps = TRUE]), w)
  /\ UNCHANGED <<call, outcome, aborted, drain, faults>>

\* The process exits during the handshake: handleDead, while the spawn still
\* counts, then the rejection of init, which records a failure of its own.
InitCrashes(w, inWindow) ==
  /\ pool.worker[w].st = "init" /\ Fault
  /\ LET dead == HandleDead(pool, w, FALSE, inWindow)
     IN pool' = AfterSpawn(EndSpawn(Record(dead, TRUE), w, NoProcess), w)
  /\ UNCHANGED <<call, outcome, aborted, drain>>

\* The handshake times out (the process is killed), or the version is refused
\* (the process is left alone): init rejects before the process has exited.
InitRejects(w, inWindow, killed) ==
  /\ pool.worker[w].st = "init" /\ Fault
  /\ LET left == [NoProcess EXCEPT !.st = "orphan", !.killed = killed]
     IN pool' = AfterSpawn(EndSpawn(Record(pool, inWindow), w, left), w)
  /\ UNCHANGED <<call, outcome, aborted, drain>>

\* The options are acknowledged: the search starts, and listens to the signal
\* from here on only.
SetupDone(w) ==
  /\ pool.worker[w].st = "setup" /\ ~pool.worker[w].killed
  /\ pool' = [pool EXCEPT !.worker[w].st = "search"]
  /\ UNCHANGED <<call, outcome, aborted, drain, faults>>

\* bestmove: the result, or the cancellation it answers.
Finish(w) ==
  /\ pool.worker[w].st = "search" /\ ~pool.worker[w].killed
  /\ Settle(pool.worker[w].job, IF pool.worker[w].stop THEN "cancelled" ELSE "value")
  /\ pool' = WorkerFree(EndSearch(pool, w, TRUE), w)
  /\ UNCHANGED <<call, aborted, drain, faults>>

\* search refuses the request before it sends anything (not retryable).
Refuse(w) ==
  /\ pool.worker[w].st = "setup"
  /\ Settle(pool.worker[w].job, "error")
  /\ pool' = WorkerFree(EndSearch(pool, w, TRUE), w)
  /\ UNCHANGED <<call, aborted, drain, faults>>

\* No output for too long: the process is killed and the search rejects at once,
\* while the exit is still to come.
Watchdog(w) ==
  /\ pool.worker[w].st \in {"setup", "search"}
  /\ \/ pool.worker[w].killed /\ UNCHANGED faults
     \/ ~pool.worker[w].killed /\ Fault
  /\ JobFails([pool EXCEPT !.worker[w].killed = TRUE], w, pool.worker[w].job, TRUE)
  /\ UNCHANGED <<call, aborted, drain>>

\* The process exits: killed, asked to quit, or by itself.  An exit that was
\* asked for does not fail the search, whose watchdog is left to do so.
Exit(w, inWindow) ==
  LET proc == pool.worker[w]
      dead == HandleDead([pool EXCEPT !.worker[w].st = "none"], w, proc.quit, inWindow)
  IN /\ proc.st \notin {"none", "init"}
     /\ IF proc.killed \/ proc.quit THEN UNCHANGED faults ELSE Fault
     /\ IF proc.job # NoJob /\ ~proc.quit
        THEN JobFails(dead, w, proc.job, FALSE)
        ELSE /\ pool' = [dead EXCEPT !.worker[w] = [NoProcess EXCEPT !.job = proc.job]]
             /\ UNCHANGED outcome
     /\ UNCHANGED <<call, aborted, drain>>

\* The watchdog of a search whose process was asked to quit and has exited.
OrphanedWatchdog(w) ==
  /\ pool.worker[w].st = "none" /\ pool.worker[w].job # NoJob
  /\ JobFails(pool, w, pool.worker[w].job, FALSE)
  /\ UNCHANGED <<call, aborted, drain, faults>>

\* The reap timer of w: an idle worker above the minimum is retired.
Reap(w) ==
  /\ w \in pool.reap
  /\ LET p == [pool EXCEPT !.reap = @ \ {w}]
     IN pool' = IF pool.worker[w].st = "ready" /\ pool.queue = <<>>
                   /\ Len(pool.inst) > MinWorkers /\ ~pool.draining
                THEN [p EXCEPT !.inst = Without(@, w),
                               !.worker[w].st = "orphan", !.worker[w].quit = TRUE]
                ELSE p
  /\ UNCHANGED <<call, outcome, aborted, drain, faults>>

CooldownElapses ==
  /\ pool.breaker = "open" /\ ~pool.cooled
  /\ pool' = [pool EXCEPT !.cooled = TRUE]
  /\ UNCHANGED <<call, outcome, aborted, drain, faults>>

-------------------------------------------------------------------------------
(* Shutdown. *)

\* drain: what is queued is refused, what runs may go on until the deadline.
Drain ==
  /\ drain = "no" /\ drain' = "waiting"
  /\ pool' = [pool EXCEPT !.draining = TRUE, !.queue = <<>>]
  /\ outcome' = [j \in Job |-> IF j \in Range(pool.queue) THEN "shutting_down" ELSE outcome[j]]
  /\ UNCHANGED <<call, aborted, faults>>

\* waitIdle is over: nothing is in flight, or the deadline came first.  The
\* survivors are asked to quit, and killed after a grace period.
DrainEnds(deadline) ==
  /\ drain = "waiting" /\ drain' = "done"
  /\ deadline <=> Busy(pool) # {}
  /\ pool' = [pool EXCEPT
       !.inst = <<>>,
       !.worker = [w \in Worker |-> IF w \in Range(pool.inst) THEN [@[w] EXCEPT !.quit = TRUE] ELSE @[w]]]
  /\ UNCHANGED <<call, outcome, aborted, faults>>

-------------------------------------------------------------------------------
EngineStep(w) ==
  \/ InitDone(w) \/ SetupDone(w) \/ Finish(w) \/ Refuse(w) \/ Watchdog(w)
  \/ OrphanedWatchdog(w) \/ Reap(w)
  \/ \E inWindow \in BOOLEAN :
       InitCrashes(w, inWindow) \/ Exit(w, inWindow) \/ \E k \in BOOLEAN : InitRejects(w, inWindow, k)

CallerStep(j) == PlayCall(j) \/ AnalyzeCall(j) \/ AnalyzeResumes(j) \/ Abort(j)

Next ==
  \/ \E j \in Job : CallerStep(j)
  \/ \E w \in Worker : EngineStep(w)
  \/ WarmupEnds \/ CooldownElapses
  \/ Drain \/ \E deadline \in BOOLEAN : DrainEnds(deadline)

Spec == Init /\ [][Next]_vars

\* Engines answer or their watchdogs fire, processes that were killed or told
\* to quit exit, timers fire, reactions run.  Nobody has to call, abort or drain.
Progress(w) ==
  \/ InitDone(w) \/ SetupDone(w) \/ Finish(w) \/ OrphanedWatchdog(w) \/ Reap(w)
  \/ pool.worker[w].killed /\ Watchdog(w)
  \/ (pool.worker[w].killed \/ pool.worker[w].quit) /\ Exit(w, TRUE)

\* ENABLED Progress(w), written out because TLC is slow to find it.
CanProgress(w) ==
  LET proc == pool.worker[w]
  IN \/ proc.st \in {"init", "setup", "search"} \/ proc.killed \/ proc.quit
     \/ proc.job # NoJob \/ w \in pool.reap

Timers == WarmupEnds \/ CooldownElapses \/ \E deadline \in BOOLEAN : DrainEnds(deadline)

Fairness ==
  /\ \A w \in Worker : []<>~CanProgress(w) \/ []<><<Progress(w)>>_vars
  /\ \A j \in Job : WF_vars(AnalyzeResumes(j))
  /\ WF_vars(Timers)

-------------------------------------------------------------------------------
(* Properties. *)

\* Autoscaling, replacements and the one warm-up together never run more workers
\* than the maximum and the warm-up's own (dispatch, replenish, warmup).
WorkersBounded ==
  Len(pool.inst) + Cardinality(Spawning(pool)) <= MaxWorkers + Max({1, MinWorkers})

\* While the breaker is open and cooling down, crashes and submissions start no process;
\* only the first warm-up does, or a process that was already starting and by its success
\* closes the breaker (updateBreaker in dispatch and replenish, onSpawnSuccess).
BreakerStopsSpawns ==
  [][/\ pool.breaker = "open" /\ ~pool.cooled
     /\ pool'.breaker # "closed" /\ pool'.warmers \subseteq pool.warmers
     => Spawning(pool') \subseteq Spawning(pool)]_vars

\* Once the pool drains, no job starts any more and nothing is queued, whatever
\* fails or is retried meanwhile (drain, onJobError, dispatch).
DrainStartsNothing ==
  [][pool.draining => pool'.tries = pool.tries /\ pool'.queue = <<>>]_vars

\* The pool keeps its limits: processes, the breaker and the drain.
PoolKeepsItsLimits == []WorkersBounded /\ BreakerStopsSpawns /\ DrainStartsNothing

\* Every call is answered: a result, a refusal, or an error (submitAnalyze, submitPlay).
JobsSettle == \A j \in Job : call[j] # "new" ~> outcome[j] # "pending"

\* "A killed worker is detected and hot-replaced with no job loss" (ENGINE_BRIDGE.md):
\* one fault among the workers fails no job whose caller still waits (onJobError).
OneFaultIsSurvived ==
  faults <= 1 /\ MaxAttempts > 1 => \A j \in Job \ aborted : outcome[j] # "crashed"

=============================================================================

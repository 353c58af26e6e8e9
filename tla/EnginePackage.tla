----------------------------- MODULE EnginePackage -----------------------------
(***************************************************************************)
(* The engine package: the pool of workers, the scheduler of its queue,    *)
(* and the cache of analyses in front of it.  They share no state here: an *)
(* analysis is a search to the pool, the pool an engine to the cache, and  *)
(* the pool's own jobs are of one class.                                   *)
(***************************************************************************)
EXTENDS Naturals

CONSTANTS Play, Analysis, Worker, NoJob,                         \* EnginePool
          MinWorkers, MaxWorkers, Capacity, MaxAttempts, FailureThreshold,
          MaxEngineFaults,
          Entry, Priority, CapacityPerClass, AgingMs, MaxNow,    \* PriorityScheduler
          Process, Caller, CallerProcess, Wants, Limit, Flight, Nothing \* AnalysisCache

VARIABLES pool, call, outcome, aborted, drain, engineFaults,  \* EnginePool
          items, enqueuedAt, fate, now,                       \* PriorityScheduler
          search, caller, hot, closed, durable                \* AnalysisCache

Engines == INSTANCE EnginePool WITH MaxFaults <- MaxEngineFaults, faults <- engineFaults

Queue == INSTANCE PriorityScheduler

Analyses == INSTANCE AnalysisCache WITH None <- Nothing, flight <- search

ASSUME EnginePackageAssumptions == Engines!Assumptions /\ Queue!Assumptions /\ Analyses!Assumptions

\* The pool never runs more processes than its maximum and one warm-up, starts none
\* behind an open breaker, and starts no job once it drains (EnginePool: dispatch,
\* replenish, warmup, updateBreaker, drain).
PoolKeepsItsLimits == Engines!PoolKeepsItsLimits

\* The queue holds each waiting job once, in the order of pushing, and nothing that was
\* cancelled or served (PriorityScheduler: enqueue, dequeue, cancel).
QueueIsWaiting == Queue!QueueIsWaiting

\* Who is served next depends on class and waiting alone, and who has waited its class
\* out is next (PriorityScheduler: effectivePriority, dequeue).
ServiceIsFair == Queue!ServiceIsFair

\* A cached analysis achieved what it is served for, is never displaced by one that
\* answers less, and a released tier stays empty (AnalysisCache: get, set, clear);
\* callers of one request share one search, which is aborted exactly when the last
\* of them has left (analyze, start, join, cancelConsumer).
AnalysesAreShared == Analyses!AnalysesAreShared

=============================================================================

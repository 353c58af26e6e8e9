------------------------------ MODULE MCServices ------------------------------
(***************************************************************************)
(* What a process does for its games: the router that takes a gateway's    *)
(* commands to the owner, and the engine package (a pool, the scheduler of *)
(* its queue and the cache of analyses in front of it).  A behaviour moves *)
(* one of the four, and the others rest in their initial state.            *)
(***************************************************************************)
EXTENDS GatewayRouter, EnginePackage, TLC

CONSTANTS x1, c1,                         \* GatewayRouter
          j1, a1, w1, w2, w3, w4, w5,     \* EnginePool
          e1, e2, e3, e4,                 \* PriorityScheduler
          home, away, c2, c3, f1, f2      \* AnalysisCache, with c1

VARIABLE part

engines == <<pool, call, outcome, aborted, drain, engineFaults>>
queue == <<items, enqueuedAt, fate, now>>
analyses == <<search, caller, hot, closed, durable>>
all == <<part, vars, engines, queue, analyses>>

\* A player's command and a deadline worker's.
MCPlayer == {c1}
MCExpiry == {x1}

MCPlay == {j1}
MCAnalysis == {a1}
MCWorker == {w1, w2, w3, w4, w5}

\* One entry of the best class and three of a lower one, which holds two.
MCEntry == {e1, e2, e3, e4}
MCPriority == [e \in MCEntry |-> IF e = e1 THEN 0 ELSE 2]

\* Two callers of one request in a process, a third elsewhere.
Limits(d, n) == [depth |-> d, nodes |-> n]
MCProcess == {home, away}
MCCaller == {c1, c2, c3}
MCCallerProcess == [c \in MCCaller |-> IF c = c3 THEN away ELSE home]
MCWants == [c \in MCCaller |-> IF c = c3 THEN Limits(0, 1) ELSE Limits(1, 0)]
MCLimit == {Limits(1, 0), Limits(0, 1), Limits(1, 1)}
MCFlight == {f1, f2}

ASSUME Assumptions

AllInit ==
  /\ part \in {"routing", "engines", "queue", "analyses"}
  /\ Init /\ Engines!Init /\ Queue!Init /\ Analyses!Init

AllNext ==
  \/ part = "routing" /\ Next /\ UNCHANGED <<part, engines, queue, analyses>>
  \/ part = "engines" /\ Engines!Next /\ UNCHANGED <<part, vars, queue, analyses>>
  \/ part = "queue" /\ Queue!Next /\ UNCHANGED <<part, vars, engines, analyses>>
  \/ part = "analyses" /\ Analyses!Next /\ UNCHANGED <<part, vars, engines, queue>>

AllSpec == AllInit /\ [][AllNext]_all

=============================================================================

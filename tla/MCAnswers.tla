------------------------------- MODULE MCAnswers -------------------------------
(***************************************************************************)
(* Everything that must eventually happen, in one run.  The parts share no *)
(* state: a behaviour moves one of them, and the others rest in an initial *)
(* state.  Every property carries the fairness it needs as its premise,    *)
(* so that one part's fairness says nothing about another's.               *)
(***************************************************************************)
EXTENDS Naturals, TLC

CONSTANTS create, c1, s1, s2, Foreign, NoCmd, NoSlot, \* Authority
          r1, n1, e1, NoNode, NoExecutor, NoReq,      \* ForwardedRequest
          f1, p1, NoSide,                             \* Game
          j1, j2, w1, w2, w3, NoJob,                  \* EnginePool
          home, a1, a2, g1, g2, None,                 \* AnalysisCache
          solo                                        \* the process of every other part

VARIABLES part,
          log, txn, slot, cur, lifecycle, captured, outcome, published, evicted,
          status, admitted, result, late, list, resp, key, owns, loop, task, phase,
          answer, runs, effect, dropped,
          now, game, seq, flagRow, pregameRow, worker,
          pool, call, settled, aborted, drain, faults,
          flight, caller, hot, closed, durable,
          ended, retry, receipt, report, lock, reconciler, misses,              \* TerminalInbox
          time, due, scanner, failures,                                         \* DeadlineScan
          row, played, theirs, launcher, processed, abandoned, orders, refusals, \* TournamentLaunch
          arena, expired, held, boards, replica, counted, requests, crashes,    \* Arena
          story, host, unsent, replies, sub, others, session, observed, lastFull, \* LiveFeed
          refresh, pipe, client, lost, lossy, hiccups

authority == <<log, txn, slot, cur, lifecycle, captured, outcome, published, evicted>>
forward == <<status, admitted, result, late, list, resp, key, owns, loop, task, phase,
             answer, runs, effect, dropped>>
overdue == <<now, game, seq, flagRow, pregameRow, worker>>
engines == <<pool, call, settled, aborted, drain, faults>>
analyses == <<flight, caller, hot, closed, durable>>
inbox == <<ended, retry, receipt, report, lock, reconciler, misses>>
scan == <<time, due, scanner, failures>>
launch == <<row, played, theirs, launcher, processed, abandoned, orders, refusals>>
arenas == <<arena, expired, held, boards, replica, counted, requests, crashes>>
scans == <<inbox, scan, launch, arenas>>
feed == <<story, host, unsent, replies, sub, others, session, observed, lastFull, refresh, pipe, client,
          lost, lossy, hiccups>>
rest == <<scans, feed>>
all == <<part, authority, forward, overdue, engines, analyses, rest>>

Authority == INSTANCE Authority WITH
  Cmd <- {create, c1}, Creation <- {create}, Slot <- {s1, s2},
  MaxJobs <- 2, MaxLifecycle <- 2, MaxForeign <- 0
Forward == INSTANCE ForwardedRequest WITH
  Req <- {r1}, Node <- {n1}, Executor <- {e1}, MaxCopies <- 2
Overdue == INSTANCE Game WITH
  TimeControls <- {[kind |-> k, initial |-> 2, increment |-> 1, delay |-> 1] : k \in {"increment", "delay"}},
  Sources <- {"none", "seek", "tournament"}, NoShowAfter <- 2,
  FlagWorker <- {f1}, NoShowWorker <- {p1}, Skew <- 1, MaxNow <- 5, MaxSeq <- 3
Engines == INSTANCE EnginePool WITH
  Play <- {j1, j2}, Analysis <- {}, Worker <- {w1, w2, w3}, MinWorkers <- 0, MaxWorkers <- 1,
  Capacity <- 2, MaxAttempts <- 2, FailureThreshold <- 5, MaxFaults <- 1, outcome <- settled
Limits(d, n) == [depth |-> d, nodes |-> n]
Analyses == INSTANCE AnalysisCache WITH
  Process <- {home}, Caller <- {a1, a2}, CallerProcess <- [c \in {a1, a2} |-> home],
  Wants <- [c \in {a1, a2} |-> IF c = a1 THEN Limits(1, 0) ELSE Limits(1, 1)],
  Limit <- {Limits(1, 0), Limits(0, 1), Limits(1, 1)}, Flight <- {g1, g2}

\* The first ending cannot be analysed, and renewals keep ahead of their leases.
Inbox == INSTANCE TerminalInbox WITH
  LastId <- 3, Void <- {}, Poison <- {1}, Worker <- {solo}, Lease <- 2, RetryBase <- 1, RetryCap <- 2,
  MaxFailures <- 2, OlderPage <- 1, ForwardPage <- 1, Timely <- TRUE, MaxFaults <- 1,
  worker <- reconciler, faults <- misses
Deadlines == INSTANCE DeadlineScan WITH
  Games <- {1, 2, 3}, Poison <- {1}, Scanner <- {solo}, PageSize <- 1, MaxNow <- 2, MaxFaults <- 1,
  faults <- failures
Launch == INSTANCE TournamentLaunch WITH
  Process <- {solo}, Tries <- 2, MaxSlot <- 1, Legacy <- FALSE, MaxOrders <- 2, MaxFaults <- 1,
  game <- played, proc <- launcher, faults <- refusals
Arenas == INSTANCE Arena WITH
  Player <- {1, 2, 3}, Founders <- {1, 2}, Process <- {solo}, Outcome <- {"white_win"},
  MaxSeq <- 2, MaxRequests <- 1, MaxFaults <- 1,
  row <- arena, lock <- held, game <- boards, proc <- replica, faults <- crashes

\* A browser alone in its room; broadcasts are lost, a resume fails and the socket stays.
Feed == INSTANCE LiveFeed WITH
  MaxLog <- 3, MaxFaults <- 1, FaultKinds <- {"resume"}, MaxRecoveryAttempts <- 2, MaxJoinRetries <- 1, RefreshAttempts <- 1,
  log <- story, owner <- host, faults <- hiccups

ASSUME /\ Feed!Assumptions /\ Authority!Assumptions
       /\ Engines!Assumptions /\ Analyses!Assumptions /\ Inbox!Assumptions
       /\ Deadlines!Assumptions /\ Launch!Assumptions /\ Arenas!Assumptions

Init ==
  /\ part \in {"authority", "forward", "overdue", "engines", "analyses", "inbox", "deadlines", "launch", "arenas", "feed"}
  /\ Inbox!Init /\ Launch!Init /\ Arenas!Init
  /\ Feed!Init /\ host = "there" /\ ~others
  /\ Deadlines!Init /\ (part # "deadlines" => due = [g \in {1, 2, 3} |-> 2])
  /\ Authority!Init /\ Forward!Init /\ Engines!Init /\ Analyses!Init
  /\ Overdue!Init /\ (part # "overdue" => game.source = "none")
  /\ game.source = "tournament" <=> game.tc.kind = "increment"

Next ==
  \/ part = "authority" /\ Authority!Next /\ UNCHANGED <<part, forward, overdue, engines, analyses, rest>>
  \/ part = "forward" /\ Forward!Next /\ UNCHANGED <<part, authority, overdue, engines, analyses, rest>>
  \/ part = "overdue" /\ Overdue!Next /\ UNCHANGED <<part, authority, forward, engines, analyses, rest>>
  \/ part = "engines" /\ Engines!Next /\ UNCHANGED <<part, authority, forward, overdue, analyses, rest>>
  \/ part = "analyses" /\ Analyses!Next /\ UNCHANGED <<part, authority, forward, overdue, engines, rest>>
  \/ part = "inbox" /\ Inbox!Next /\ UNCHANGED <<part, authority, forward, overdue, engines, analyses, scan, launch, arenas, feed>>
  \/ part = "deadlines" /\ Deadlines!Next /\ UNCHANGED <<part, authority, forward, overdue, engines, analyses, inbox, launch, arenas, feed>>
  \/ part = "launch" /\ Launch!Next /\ UNCHANGED <<part, authority, forward, overdue, engines, analyses, inbox, scan, arenas, feed>>
  \/ part = "arenas" /\ Arenas!Next /\ UNCHANGED <<part, authority, forward, overdue, engines, analyses, inbox, scan, launch, feed>>
  \/ part = "feed" /\ Feed!Next /\ UNCHANGED <<part, authority, forward, overdue, engines, analyses, scans>>

\* Only bounded I/O is asked of every behaviour: a forwarder's own timeouts fire.
Spec ==
  /\ Init /\ [][Next]_all
  /\ WF_forward(part = "forward" /\ Forward!EnqueueUnanswered(r1))
  /\ WF_forward(part = "forward" /\ Forward!GiveUp(r1))
  /\ WF_forward(part = "forward" /\ Forward!Settle(r1))

(* The write deadline answers whoever waits, with a store that may never   *)
(* do; with a store that answers, a stalled game becomes available again   *)
(* (Authority).  Every forward ends with an answer, with no help from      *)
(* Redis or the owner (ForwardedRequest: forward, settleForward).          *)
CommandsAnswered ==
  /\ part = "authority" /\ Authority!DeadlineFairness =>
       /\ Authority!EveryCallAnswered
       /\ Authority!StoreFairness => Authority!StallEnds
  /\ part = "forward" => Forward!EveryForwardAnswered

\* The workers end an overdue game that nobody is connected to (Game: the deadline
\* queues, settle and the expiry command).
OverdueGameEnds == part = "overdue" /\ Overdue!WorkerFairness => Overdue!OverdueGameEnds

(* Every job of the pool settles, below its breaker's threshold and with   *)
(* room for a retry in its queue (EnginePool: submitAnalyze, submitPlay,   *)
(* onJobError), and every caller of an analysis is answered, whichever     *)
(* tier fails (AnalysisCache: analyze, compute).                           *)
EngineAnswers ==
  /\ part = "engines" /\ Engines!Fairness => Engines!JobsSettle
  /\ part = "analyses" /\ Analyses!Fairness => Analyses!CallersAnswered

\* A browser on a socket that stays catches up with the game, or its player is offered
\* to retry (LiveFeed, GameSync: join and recovery timers).
ClientsCatchUp == part = "feed" /\ Feed!Fairness => Feed!ClientsCatchUp

(* What is found by a recurring scan is dealt with: finished games that can *)
(* be analysed, games that are overdue, pairings without a game or with an  *)
(* ending to record, and arenas past their deadline (TerminalInbox,         *)
(* DeadlineScan, TournamentLaunch, Arena: failures do not starve the rest). *)
ScansReachEverything ==
  /\ part = "inbox" /\ Inbox!Fairness => Inbox!EveryEndingConsumed
  /\ part = "deadlines" /\ Deadlines!Fairness => Deadlines!EveryDueGameIsReached
  /\ part = "launch" /\ Launch!Fairness => Launch!PairingSettles
  /\ part = "arenas" /\ Arenas!Fairness => Arenas!ArenaEnds

=============================================================================

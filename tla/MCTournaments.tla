----------------------------- MODULE MCTournaments -----------------------------
(***************************************************************************)
(* Where games come from and where they go: the inbox of finished games,   *)
(* the rounds of a tournament, the launch of a pairing by its replicas and *)
(* an arena.  A behaviour moves one of them, and the others rest in an     *)
(* initial state.  A pairing is launched twice, with and without games of  *)
(* the older launches; an arena is played twice, by two replicas and by    *)
(* one for long enough that points double.                                 *)
(***************************************************************************)
EXTENDS TerminalInbox, Pairings, TLC

CONSTANTS p1, p2

VARIABLES part,
          t, changes,                                                          \* Tournament
          arena, expired, held, boards, replica, counted, requests, failures   \* Arena

rounds == <<t, changes>>
launch == <<row, game, theirs, proc, processed, abandoned, orders, refusals>>
arenas == <<arena, expired, held, boards, replica, counted, requests, failures>>
all == <<part, vars, rounds, launch, arenas>>

\* The second ending has no result; renewals may be late, and every retry counts.
MCWorker == {p1, p2}
MCVoid == {2}
MCPoison == {}

\* A Swiss tournament with and without byes, and both kinds of schedule.
Rounds == INSTANCE Tournament WITH
  MaxField <- 9, TotalRounds <- 3, Outcome <- {"white_win", "draw"}, MaxChanges <- 2,
  Fields <- {[format |-> "swiss", n |-> 4], [format |-> "swiss", n |-> 5],
             [format |-> "round_robin", n |-> 3], [format |-> "round_robin", n |-> 4]}

Older == INSTANCE TournamentLaunch WITH
  None <- NoGame, Legacy <- TRUE, MaxOrders <- 0, MaxFaults <- 0, faults <- refusals

Replicas == INSTANCE Arena WITH
  Player <- {1, 2, 3}, Founders <- {1, 2}, Process <- {p1, p2}, Outcome <- {"white_win"},
  MaxSeq <- 2, MaxRequests <- 2, MaxFaults <- 1,
  row <- arena, lock <- held, game <- boards, proc <- replica, faults <- failures

Scores == INSTANCE Arena WITH
  Player <- {1, 2}, Founders <- {1, 2}, Process <- {"p"}, Outcome <- {"white_win", "black_win", "draw"},
  MaxSeq <- 4, MaxRequests <- 1, MaxFaults <- 0,
  row <- arena, lock <- held, game <- boards, proc <- replica, faults <- failures

ASSUME /\ Assumptions /\ Rounds!Assumptions /\ Older!Assumptions
       /\ Replicas!Assumptions /\ Scores!Assumptions

Symmetry == Permutations({p1, p2})

AllInit ==
  /\ part \in {"inbox", "rounds", "launch", "older", "replicas", "scores"}
  /\ Init
  /\ Rounds!Init /\ (part # "rounds" => t = Rounds!Blank("swiss"))
  /\ IF part = "older" THEN Older!Init ELSE Launch!Init
  /\ IF part = "scores" THEN Scores!Init ELSE Replicas!Init

AllNext ==
  \/ part = "inbox" /\ Next /\ UNCHANGED <<part, rounds, launch, arenas>>
  \/ part = "rounds" /\ Rounds!Next /\ UNCHANGED <<part, vars, launch, arenas>>
  \/ part = "launch" /\ Launch!Next /\ UNCHANGED <<part, vars, rounds, arenas>>
  \/ part = "older" /\ Older!Next /\ UNCHANGED <<part, vars, rounds, arenas>>
  \/ part = "replicas" /\ Replicas!Next /\ UNCHANGED <<part, vars, rounds, launch>>
  \/ part = "scores" /\ Scores!Next /\ UNCHANGED <<part, vars, rounds, launch>>

AllSpec == AllInit /\ [][AllNext]_all

\* Every round pairs everybody it should, once, without a rematch or a second bye, a
\* round that was published stays, and a tournament waits for a game that can still
\* be played or has ended for a reason (Tournament: start, recordResult, withdraw,
\* tryAdvance; swiss.ts, round-robin.ts).
TournamentIsSound == Rounds!TournamentIsSound

\* Nobody is expected at two boards, an ending counts once and for what it is worth,
\* nobody waits who could play, and no pairing is made after the deadline (Arena:
\* pairAvailable, recordResult, settle, the launches and the deadline worker).
ArenaIsSound ==
  /\ [](IF part = "scores" THEN Scores!RowIsSound ELSE Replicas!RowIsSound)
  /\ Replicas!DeadlineHolds

=============================================================================

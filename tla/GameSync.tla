------------------------------- MODULE GameSync -------------------------------
(***************************************************************************)
(* What a browser makes of the frames of one game (net/game-sync.ts).      *)
(*                                                                         *)
(* A game's log is a sequence of kinds of events.  Its revisions are its   *)
(* positions, so that 1 is the game's creation and 0 stands for a client   *)
(* that has seen nothing.  A frame is [t, rev]: what a snapshot or an      *)
(* event frame of a revision holds is what the log says up to there.  The  *)
(* screen keeps the moves, each named by its revision, the standing draw   *)
(* offer, the ending and the seats that are ready.                         *)
(*                                                                         *)
(* The connection is authenticated by a token that stays valid: refreshing *)
(* credentials, logging out and what a player sends are left out.          *)
(***************************************************************************)
EXTENDS Integers, FiniteSets, Sequences, SequencesExt

CONSTANTS MaxRecoveryAttempts, \* resumes of one recovery before the player is asked
          MaxJoinRetries       \* joins retried on one socket before the player is asked

Kind == {"created", "ready", "offer", "decline", "move", "ended"}
FrameType == {"joined", "state", "resumed", "ready", "move", "ended", "reject"}

Frame(t, rev) == [t |-> t, rev |-> rev]

At(g, r, kind) == {i \in 1..r : g[i] = kind}

\* The members of a finite set of numbers, from the least to the greatest.
Ascending(S) == [k \in 1..Cardinality(S) |-> CHOOSE i \in S : Cardinality({j \in S : j <= i}) = k]

\* The state view of revision r.
View(g, r) ==
  [moves |-> Ascending(At(g, r, "move")),
   offer |-> \E i \in At(g, r, "offer") : \A j \in (i + 1)..r : g[j] \notin {"move", "decline", "ended"},
   over |-> At(g, r, "ended") # {},
   ready |-> At(g, r, "ready")]

Ply(g, r) == Cardinality(At(g, r, "move"))

Blank == [moves |-> <<>>, offer |-> FALSE, over |-> FALSE, ready |-> {}]

\* connected: joined on this socket.  floor: the highest revision seen.  debtRev and
\* debtPly: what a gap requires of a snapshot.  timer: of the recovery in progress.
\* retry: of the join.  out: the player is offered to retry.  up: frames sent.
NewClient ==
  [open |-> FALSE, connected |-> FALSE, awaiting |-> FALSE, retry |-> FALSE, joins |-> 0, joined |-> FALSE,
   lastPly |-> -1, screen |-> Blank, floor |-> 0, debtRev |-> 0, debtPly |-> 0, attempts |-> 0,
   timer |-> "none", out |-> FALSE, up |-> <<>>]

\* hasIncompleteRecovery.
InDebt(c) == c.debtRev # 0 \/ c.debtPly # 0

Exhausted(c) == c.attempts >= MaxRecoveryAttempts

Send(c, t) == [c EXCEPT !.up = Append(@, t)]

-----------------------------------------------------------------------------
(* Recovery of a known gap. *)

\* dispatchGapRecovery.
Dispatch(c) ==
  IF ~c.connected \/ ~c.open THEN c
  ELSE IF Exhausted(c) THEN [c EXCEPT !.timer = "none", !.out = TRUE]
  ELSE Send([c EXCEPT !.out = FALSE, !.attempts = @ + 1, !.timer = "timeout"], "resume")

\* triggerGapRecovery: one attempt, or its backoff, at a time.
Trigger(c) == IF InDebt(c) /\ c.timer = "none" THEN Dispatch(c) ELSE c

Owing(c, rev, ply) == [c EXCEPT !.debtRev = IF rev > @ THEN rev ELSE @, !.debtPly = IF ply > @ THEN ply ELSE @]

\* Mutant: any snapshot pays the debt.
Sufficient_Any(c, g, rev) == TRUE

\* isSnapshotSufficient.
Sufficient(c, g, rev) == rev >= c.debtRev /\ Ply(g, rev) >= c.debtPly

\* onSnapshotAccepted and dischargeRecoveryTarget.
Accepted(c, g, rev) ==
  IF InDebt(c) /\ Sufficient(c, g, rev)
  THEN [c EXCEPT !.debtRev = 0, !.debtPly = 0, !.attempts = 0, !.timer = "none", !.out = FALSE]
  ELSE c

\* What a frame leaves of the offer to retry.
Offered(c) == InDebt(c) /\ (Exhausted(c) \/ c.out)

\* Mutant: an attempt that was not answered is the last.
TimeOut_Last(c) == [c EXCEPT !.timer = "none"]

\* An attempt that was not answered in time is over.
TimeOut(c) == IF Exhausted(c) THEN [c EXCEPT !.timer = "none", !.out = TRUE] ELSE [c EXCEPT !.timer = "backoff"]

BackOff(c) == LET rested == [c EXCEPT !.timer = "none"] IN IF InDebt(c) THEN Dispatch(rested) ELSE rested

-----------------------------------------------------------------------------
(* Frames. *)

\* Mutant: a snapshot is taken as it comes.
Freshness_Any(c, g, rev) == "newer"

\* snapshotFreshness.
Freshness(c, g, rev) ==
  IF c.screen.over /\ ~View(g, rev).over THEN "stale"
  ELSE IF c.floor = 0 \/ rev > c.floor THEN "newer"
  ELSE IF rev = c.floor THEN "equal" ELSE "stale"

\* applySnapshot, and reconcileEqualSnapshot with or without a role.
Shown(c, g, rev) == [View(g, rev) EXCEPT !.ready = @ \cup c.screen.ready]
Apply(c, g, rev) ==
  Accepted([c EXCEPT !.floor = rev, !.screen = Shown(c, g, rev), !.connected = TRUE, !.out = Offered(c)], g, rev)
Reconcile(c, g, rev) == Accepted([c EXCEPT !.screen = Shown(c, g, rev)], g, rev)

OnJoined(c, g, rev) ==
  LET known == [c EXCEPT !.awaiting = FALSE, !.lastPly = -1, !.joined = TRUE]
      held == [known EXCEPT !.connected = TRUE, !.out = Offered(c)]
      now == CASE Freshness(c, g, rev) = "newer" -> Apply(known, g, rev)
               [] Freshness(c, g, rev) = "equal" -> Reconcile(held, g, rev)
               [] OTHER -> held
  IN IF ~c.awaiting /\ ~c.connected THEN c
     ELSE IF InDebt(c) THEN Trigger(now)
     ELSE IF c.lastPly # -1 /\ c.lastPly < Ply(g, rev) THEN Send(now, "resume") ELSE now

\* state and resumed.
OnSnapshot(c, g, rev) ==
  CASE Freshness(c, g, rev) = "newer" -> Apply(c, g, rev)
    [] Freshness(c, g, rev) = "equal" -> Reconcile(c, g, rev)
    [] OTHER -> c

\* A move that continues the screen, with no other revision between.
Follows(c, g, rev) == Ply(g, rev) = Len(c.screen.moves) + 1 /\ rev <= c.floor + 1

OnMove(c, g, rev) ==
  IF rev <= c.floor \/ c.screen.over THEN c
  ELSE IF Follows(c, g, rev)
       THEN [c EXCEPT !.floor = rev, !.screen.moves = Append(@, rev), !.screen.offer = FALSE]
       ELSE Trigger(Owing(c, rev, Ply(g, rev)))

\* Readiness only grows, so it is merged across a gap.
OnReady(c, g, rev) ==
  LET seats == [c EXCEPT !.screen.ready = @ \cup At(g, rev, "ready")]
      owing == Owing(seats, rev, 0)
  IN IF rev < c.floor THEN c
     ELSE IF rev > c.floor + 1 THEN Trigger([owing EXCEPT !.out = Offered(owing)])
     ELSE [seats EXCEPT !.floor = rev]

\* Mutant: an ending closes the gap before it.
OnEnded_Closes(c, g, rev) == IF rev <= c.floor THEN c ELSE [c EXCEPT !.floor = rev, !.screen.over = TRUE]

\* An ending is shown at once; what lies before it is asked for.
OnEnded(c, g, rev) ==
  LET shown == [c EXCEPT !.floor = rev, !.screen.over = TRUE]
      owing == Owing(shown, rev, 0)
  IN IF rev <= c.floor THEN c
     ELSE IF rev > c.floor + 1 THEN Trigger([owing EXCEPT !.out = Offered(owing)])
     ELSE shown

-----------------------------------------------------------------------------
(* The socket and the join. *)

\* joinCurrentSocket.
Join(c) ==
  IF ~c.open \/ c.awaiting \/ c.connected THEN c ELSE Send([c EXCEPT !.awaiting = TRUE], "join")

\* invalidateJoin, clearGapRecovery.
Dropped(c) ==
  [c EXCEPT !.open = FALSE, !.connected = FALSE, !.awaiting = FALSE, !.retry = FALSE, !.timer = "none", !.up = <<>>]

\* handleOpen.
Opened(c) ==
  Join([c EXCEPT !.open = TRUE, !.awaiting = FALSE, !.retry = FALSE, !.out = FALSE, !.joins = 0,
                 !.lastPly = IF c.joined THEN Len(c.screen.moves) ELSE @])

\* Mutant: a refused join is not tried again.
OnReject_Rests(c) == [c EXCEPT !.awaiting = FALSE, !.connected = FALSE, !.out = FALSE]

\* applyReject with invalid_command, then scheduleJoinRetry.
OnReject(c) ==
  LET refused == [c EXCEPT !.awaiting = FALSE, !.connected = FALSE, !.out = FALSE]
  IN IF ~c.awaiting THEN c
     ELSE IF c.joins >= MaxJoinRetries THEN [refused EXCEPT !.out = TRUE]
     ELSE [refused EXCEPT !.joins = @ + 1, !.retry = TRUE]

RetryJoin(c) == Join([c EXCEPT !.retry = FALSE])

\* retryRecovery, on an open socket.
ByHand(c) ==
  IF ~c.connected THEN Join([c EXCEPT !.out = FALSE, !.retry = FALSE, !.joins = 0])
  ELSE IF InDebt(c) THEN Dispatch([c EXCEPT !.out = FALSE, !.timer = "none", !.attempts = 0])
  ELSE [c EXCEPT !.out = FALSE]

\* handleMessage: before a join is answered, nothing else is heard.
Heard(c, g, f) ==
  IF f.t = "joined" THEN OnJoined(c, g, f.rev)
  ELSE IF f.t = "reject" THEN OnReject(c)
  ELSE IF ~c.connected THEN c
  ELSE CASE f.t \in {"state", "resumed"} -> OnSnapshot(c, g, f.rev)
         [] f.t = "move" -> OnMove(c, g, f.rev)
         [] f.t = "ready" -> OnReady(c, g, f.rev)
         [] OTHER -> OnEnded(c, g, f.rev)

=============================================================================

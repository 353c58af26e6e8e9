--------------------------------- MODULE Game ---------------------------------
(***************************************************************************)
(* One game: the event-sourced aggregate (game.ts), the owner's rule for   *)
(* who decides at a deadline (applyNow), the two deadline queues the       *)
(* database keeps in the transaction of every append (migrations 0042 and  *)
(* 0043), and the expiry workers that read them.                           *)
(*                                                                         *)
(* The owner serialises commands and appends (see Authority), so a command *)
(* is one step.  Chess itself is external: whether a legal move ends the   *)
(* game, and whether a side can still mate, is any outcome.                *)
(***************************************************************************)
EXTENDS Clock

CONSTANTS TimeControls,   \* the time controls games are created with
          Sources,        \* the sources of games, "none" for direct games
          NoShowAfter,    \* noShowAfterMs of a sourced game
          NoSide,         \* no draw offer, no winner
          FlagWorker, NoShowWorker,
          Skew,           \* how far a gateway's clock may be behind
          MaxNow, MaxSeq  \* bounds: time, and events in the log

ASSUME ControlAssumption ==
  TimeControls \subseteq {tc \in TimeControl : tc.kind # "unlimited" => tc.initial > 0}
ASSUME SourceAssumption == Sources \subseteq {"none", "seek", "tournament"}
ASSUME NameAssumption == NoSide \notin Side /\ FlagWorker \cap NoShowWorker = {}
ASSUME TimeAssumption == NoShowAfter \in Nat \ {0} /\ Skew \in Nat
ASSUME BoundAssumption == MaxNow \in Nat /\ MaxSeq \in Nat

VARIABLES now,        \* the time
          game,       \* the fold of the log
          seq,        \* the log's head
          flagRow,    \* the game's row of flag_deadlines
          pregameRow, \* the due time of its row of pregame_deadlines
          worker      \* worker[w]: what an expiry worker is doing

rows == <<flagRow, pregameRow>>
vars == <<now, game, seq, flagRow, pregameRow, worker>>

Worker == FlagWorker \cup NoShowWorker
NoRow == [seq |-> NoTime, due |-> NoTime]

Terminations == {"none", "timeout", "insufficient_material", "no_show", "resignation",
                 "agreement", "aborted", "board"}

GameState == [source : Sources, tc : TimeControls, noShowAt : Nat \cup {NoTime},
              ready : [Side -> BOOLEAN], ply : Nat, clock : ClockState,
              offer : Side \cup {NoSide}, over : BOOLEAN,
              termination : Terminations, winner : Side \cup {NoSide}]

Idle == [phase |-> "idle", seen |-> {}, head |-> 0]

TypeOK ==
  /\ now \in Nat /\ seq \in Nat
  /\ game \in GameState
  /\ flagRow \in [seq : Nat, due : Nat] \cup {NoRow}
  /\ pregameRow \in Nat \cup {NoTime}
  /\ worker \in [Worker -> [phase : {"idle", "load", "decide", "expire"},
                           seen : SUBSET GameState, head : Nat]]

\* Game.create and the fold of GameCreated, at time 0.
Created(source, tc) ==
  [source |-> source, tc |-> tc,
   noShowAt |-> IF source = "none" THEN NoTime ELSE NoShowAfter,
   ready |-> [side \in Side |-> FALSE], ply |-> 0,
   clock |-> InitClock(tc, IF source = "none" THEN 0 ELSE NoTime),
   offer |-> NoSide, over |-> FALSE, termination |-> "none", winner |-> NoSide]

Init ==
  /\ now = 0 /\ seq = 0
  /\ \E source \in Sources, tc \in TimeControls : game = Created(source, tc)
  /\ flagRow = NoRow
  /\ pregameRow = game.noShowAt
  /\ worker = [w \in Worker |-> Idle]

-----------------------------------------------------------------------------
(* Reading a game. *)

\* White moves first: initialFen is the standard array.
Turn(g) == IF g.ply % 2 = 0 THEN "w" ELSE "b"

AwaitingReadiness(g) ==
  g.source # "none" /\ ~g.over /\ g.ply = 0 /\ ~(g.ready["w"] /\ g.ready["b"])

GameFlagDeadline(g) ==
  IF g.over \/ g.ply = 0 THEN NoTime ELSE FlagDeadline(g.clock, Turn(g), g.tc)

\* Mutant: the flag of a game that has ended can still fall.
TimeoutDue_Ended(g, at) == g.ply > 0 /\ HasFlagged(g.clock, Turn(g), at, g.tc)

TimeoutDue(g, at) == ~g.over /\ g.ply > 0 /\ HasFlagged(g.clock, Turn(g), at, g.tc)

BothReady(g) == g.source = "tournament" /\ g.ready["w"] /\ g.ready["b"]
Unstarted(g) == g.source # "none" /\ ~g.over /\ g.ply = 0

NoShowDue(g, at) == Unstarted(g) /\ at >= g.noShowAt /\ ~BothReady(g)

NoShowWinner(g) ==
  IF g.source = "seek" \/ g.ready["w"] = g.ready["b"] THEN NoSide
  ELSE CHOOSE side \in Side : g.ready[side]

-----------------------------------------------------------------------------
(* Appends: the fold of an event and the triggers of its insert. *)

\* An event without a trigger.
Append1(g) ==
  /\ seq < MaxSeq
  /\ game' = g /\ seq' = seq + 1 /\ UNCHANGED rows

Ended(g, termination, winner) ==
  [g EXCEPT !.over = TRUE, !.termination = termination, !.winner = winner, !.offer = NoSide]

\* An ending is the last event: it has room beyond the bound.
AppendEnding(g, termination, winner) ==
  /\ game' = Ended(g, termination, winner) /\ seq' = seq + 1
  /\ flagRow' = NoRow /\ pregameRow' = NoTime

\* Mutant: an unlimited game's row is written with a null deadline.
MoveRow_NullDue(g, side, clock, at) ==
  IF g.tc.kind = "unlimited" THEN [seq |-> seq + 1, due |-> NoTime]
  ELSE [seq |-> seq + 1, due |-> at + DelayOf(g.tc) + clock.remaining[Opponent(side)]]

\* flag_deadline_ms: from the event's own at and remaining.
MoveRow(g, side, clock, at) ==
  IF g.tc.kind = "unlimited" THEN NoRow
  ELSE [seq |-> seq + 1,
        due |-> IF clock.remaining[Opponent(side)] > 0
                THEN at + DelayOf(g.tc) + clock.remaining[Opponent(side)] ELSE at]

Moved(g, clock) == [g EXCEPT !.clock = clock, !.ply = @ + 1, !.offer = NoSide]

AppendMove(g, side, clock, at) ==
  /\ seq < MaxSeq
  /\ game' = Moved(g, clock) /\ seq' = seq + 1
  /\ flagRow' = MoveRow(g, side, clock, at)
  /\ pregameRow' = IF g.ply = 0 THEN NoTime ELSE pregameRow

\* MovePlayed and the GameEnded the position, or its third occurrence, brings.
AppendLastMove(g, side, clock, winner) ==
  /\ game' = Ended(Moved(g, clock), "board", winner) /\ seq' = seq + 2
  /\ flagRow' = NoRow /\ pregameRow' = NoTime

RecordNoShow(at) == NoShowDue(game, at) /\ AppendEnding(game, "no_show", NoShowWinner(game))

\* endByTimeout: a draw when the opponent could never mate.
EndByTimeout ==
  \/ AppendEnding(game, "timeout", Opponent(Turn(game)))
  \/ AppendEnding(game, "insufficient_material", NoSide)

RecordTimeout(at) == TimeoutDue(game, at) /\ EndByTimeout

-----------------------------------------------------------------------------
(* Player commands, at the time of the gateway that owns the game. *)

Clocks == {t \in {now, now - Skew} : t >= 0}

\* Mutant: a running game is looked at for its flag by claims and moves only.
Overdue_NoShowOnly(at) == NoShowDue(game, at)

\* A due deadline decides, whatever the command is.
Overdue(at) == NoShowDue(game, at) \/ TimeoutDue(game, at)

LateCommand(at) ==
  /\ Overdue(at)
  /\ RecordNoShow(at) \/ RecordTimeout(at)
  /\ UNCHANGED <<now, worker>>

InTime(at) == ~game.over /\ ~Overdue(at)

\* A mover whose flag has fallen by the first move of a direct game loses on time.
PlayMove(side, at) ==
  /\ InTime(at) /\ side = Turn(game) /\ ~AwaitingReadiness(game)
  /\ IF Flags(game.clock, side, at, game.tc) THEN EndByTimeout
     ELSE LET clock == Charge(game.clock, side, at, game.tc)
          IN \/ AppendMove(game, side, clock, at)
             \/ \E winner \in Side \cup {NoSide} : AppendLastMove(game, side, clock, winner)
  /\ UNCHANGED <<now, worker>>

Resign(side, at) ==
  /\ InTime(at)
  /\ AppendEnding(game, "resignation", Opponent(side))
  /\ UNCHANGED <<now, worker>>

OfferDraw(side, at) ==
  /\ InTime(at) /\ game.offer # side
  /\ Append1([game EXCEPT !.offer = side])
  /\ UNCHANGED <<now, worker>>

AcceptDraw(side, at) ==
  /\ InTime(at) /\ game.offer = Opponent(side)
  /\ AppendEnding(game, "agreement", NoSide)
  /\ UNCHANGED <<now, worker>>

\* Either side may decline, the one that offered too.
DeclineDraw(at) ==
  /\ InTime(at) /\ game.offer # NoSide
  /\ Append1([game EXCEPT !.offer = NoSide])
  /\ UNCHANGED <<now, worker>>

\* Reaches a flag only before the first move: later ones are overdue already.
ClaimFlag(at) ==
  /\ InTime(at) /\ HasFlagged(game.clock, Turn(game), at, game.tc)
  /\ EndByTimeout
  /\ UNCHANGED <<now, worker>>

Abort(at) ==
  /\ InTime(at) /\ game.ply < 2
  /\ AppendEnding(game, "aborted", NoSide)
  /\ UNCHANGED <<now, worker>>

\* Readiness that changes something: in time, and not given before.
ReadyCounts(g, side, at) == Unstarted(g) /\ at < g.noShowAt /\ ~g.ready[side]

MarkReady(side, at) ==
  /\ ~Overdue(at) /\ ReadyCounts(game, side, at)
  /\ Append1([game EXCEPT !.ready[side] = TRUE])
  /\ UNCHANGED <<now, worker>>

-----------------------------------------------------------------------------
(* The expiry workers. *)

Become(w, state) == worker' = [worker EXCEPT ![w] = state]

RowDue(w, t) ==
  IF w \in FlagWorker THEN flagRow # NoRow /\ flagRow.due <= t
  ELSE pregameRow # NoTime /\ pregameRow <= t

Scan(w) ==
  /\ worker[w].phase = "idle"
  /\ \E t \in Clocks : RowDue(w, t)
  /\ Become(w, [Idle EXCEPT !.phase = "load"])
  /\ UNCHANGED <<now, game, seq, rows>>

\* The durable log as it is read now.
Load(w) ==
  /\ worker[w].phase = "load"
  /\ Become(w, [phase |-> "decide", seen |-> {game}, head |-> seq])
  /\ UNCHANGED <<now, game, seq, rows>>

\* Mutant: a correction overwrites the row of a newer move.
RowIsOf_Any(head) == flagRow # NoRow

\* seq <= headSeq: no move after the log that was read wrote the row.
RowIsOf(head) == flagRow # NoRow /\ flagRow.seq <= head

\* settleFlag: expire, dismiss or reschedule by what the log said.
SettleFlag(w) ==
  /\ w \in FlagWorker /\ worker[w].phase = "decide"
  /\ \E seen \in worker[w].seen, t \in Clocks :
       IF TimeoutDue(seen, t)
       THEN Become(w, [Idle EXCEPT !.phase = "expire"]) /\ UNCHANGED flagRow
       ELSE /\ Become(w, Idle)
            /\ flagRow' = IF ~RowIsOf(worker[w].head) THEN flagRow
                          ELSE IF GameFlagDeadline(seen) = NoTime THEN NoRow
                          ELSE [flagRow EXCEPT !.due = GameFlagDeadline(seen)]
  /\ UNCHANGED <<now, game, seq, pregameRow>>

\* Mutant: readiness of one seat already dismisses the game.
NeverExpires_OneReady(g, t) ==
  \/ ~Unstarted(g)
  \/ t >= g.noShowAt /\ (g.ready["w"] \/ g.ready["b"])

\* The verdicts both_ready and not_applicable.
NeverExpires(g, t) == ~Unstarted(g) \/ (t >= g.noShowAt /\ BothReady(g))

\* settleNoShow: expire, dismiss or wait.
SettleNoShow(w) ==
  /\ w \in NoShowWorker /\ worker[w].phase = "decide"
  /\ \E seen \in worker[w].seen, t \in Clocks :
       \/ /\ NoShowDue(seen, t)
          /\ Become(w, [Idle EXCEPT !.phase = "expire"]) /\ UNCHANGED pregameRow
       \/ NeverExpires(seen, t) /\ Become(w, Idle) /\ pregameRow' = NoTime
       \/ /\ ~NoShowDue(seen, t) /\ ~NeverExpires(seen, t)
          /\ Become(w, Idle) /\ UNCHANGED pregameRow
  /\ UNCHANGED <<now, game, seq, flagRow>>

ExpiryDue(w, g, at) ==
  IF w \in FlagWorker THEN TimeoutDue(g, at) ELSE NoShowDue(g, at)

\* The owner applies the expiry on its own clock and copy; it may refuse.
Expire(w) ==
  /\ worker[w].phase = "expire"
  /\ \E at \in Clocks :
       \/ w \in FlagWorker /\ RecordTimeout(at)
       \/ w \in NoShowWorker /\ RecordNoShow(at)
       \/ ~ExpiryDue(w, game, at) /\ UNCHANGED <<game, seq, rows>>
  /\ Become(w, Idle)
  /\ UNCHANGED now

\* The command did not reach the owner, the append failed, or the worker restarted.
PassFails(w) ==
  /\ worker[w].phase # "idle"
  /\ Become(w, Idle)
  /\ UNCHANGED <<now, game, seq, rows>>

Tick == now < MaxNow /\ now' = now + 1 /\ UNCHANGED <<game, seq, rows, worker>>

Command(at) ==
  \/ LateCommand(at) \/ DeclineDraw(at) \/ ClaimFlag(at) \/ Abort(at)
  \/ \E side \in Side : PlayMove(side, at) \/ Resign(side, at) \/ OfferDraw(side, at)
                        \/ AcceptDraw(side, at) \/ MarkReady(side, at)

Next ==
  \/ \E at \in Clocks : Command(at)
  \/ \E w \in Worker : Scan(w) \/ Load(w) \/ SettleFlag(w) \/ SettleNoShow(w) \/ Expire(w)
                       \/ PassFails(w)
  \/ Tick

Spec == Init /\ [][Next]_vars

(* A worker's passes come round for ever, and what keeps being tried       *)
(* succeeds in the end: reads, the route to the owner, its append.         *)
WorkerFairness ==
  \A w \in Worker :
    /\ WF_vars(Scan(w)) /\ SF_vars(Load(w))
    /\ SF_vars(SettleFlag(w)) /\ SF_vars(SettleNoShow(w)) /\ SF_vars(Expire(w))

-----------------------------------------------------------------------------

(* The database's queue "holds exactly this instant for every such game"   *)
(* (Game.flagDeadline): after every move, ending and correction made from  *)
(* a log read earlier, the row says when the side to move flags.           *)
FlagRowIsDeadline ==
  /\ flagRow = NoRow <=> GameFlagDeadline(game) = NoTime
  /\ flagRow.due = GameFlagDeadline(game)

(* Every game that can still end by no-show is queued for it, and no game  *)
(* that has started or ended is.                                           *)
PregameRowIsDeadline ==
  /\ Unstarted(game) /\ ~BothReady(game) => pregameRow = game.noShowAt
  /\ pregameRow # NoTime => Unstarted(game)

(* The queue's arithmetic and the domain's decision are one rule: the flag *)
(* falls at every instant from the deadline on and at none before, also on *)
(* a gateway whose clock is behind the one that recorded the move.         *)
DeadlineIsFirstFlag ==
  \A t \in 0..(MaxNow + Skew) :
    TimeoutDue(game, t) <=> GameFlagDeadline(game) # NoTime /\ t >= GameFlagDeadline(game)

(* The deadline decides, not the arrival order: what is appended once a    *)
(* deadline has passed for every gateway is the ending it calls for, and   *)
(* a running game is lost on time at no gateway before its deadline.       *)
DeadlineDecides ==
  [][seq' # seq =>
       /\ TimeoutDue(game, now - Skew) =>
            \/ game'.termination = "timeout" /\ game'.winner = Opponent(Turn(game))
            \/ game'.termination = "insufficient_material"
       /\ NoShowDue(game, now - Skew) => game'.termination = "no_show"
       /\ game'.termination = "timeout" /\ game.ply > 0 => TimeoutDue(game, now)]_vars

(* Nothing follows an ending, whoever is late to learn of it.              *)
EndedStaysEnded == [][game.over => UNCHANGED <<game, seq, rows>>]_vars

(* A game that is overdue on every gateway ends with nobody connected,     *)
(* whatever the workers read before and however often a pass fails.        *)
OverdueGameEnds == TimeoutDue(game, now - Skew) \/ NoShowDue(game, now - Skew) ~> game.over

=============================================================================

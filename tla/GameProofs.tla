------------------------------ MODULE GameProofs ------------------------------
(***************************************************************************)
(* First, the game's clock, the deadline queues and the workers that read  *)
(* them, for every set of time controls with time on the clock, every      *)
(* no-show delay and skew, and any number of workers.  The argument: a     *)
(* running game's clocks are positive and, once a move is made, anchored   *)
(* (ClockInv), so "has flagged" and "is past the deadline" are one thing;  *)
(* a row written at or before the head of the log a worker read still      *)
(* stands for the deadline that worker computes, and what a worker saw of  *)
(* readiness and of the start never reverts (WorkerInv).                   *)
(*                                                                         *)
(* Then what calls of the API do around games and people (ApiCalls), for   *)
(* any players, seeks and calls.  Two arguments are about locks: which one *)
(* a call holds at each of its steps, and that what it found under the     *)
(* lock still stands when it acts on it (CreationInv, RelationsInv).  The  *)
(* third is about the chains rotations make of sessions: a row is rotated  *)
(* once, so the live row of a login is the last of its chain, and whatever *)
(* revokes a chain leaves nothing a successor could grow on (AccountsInv). *)
(***************************************************************************)
EXTENDS Game, ApiCalls, Sequences, FiniteSetTheorems, SequenceTheorems, TLAPS

ClockInv ==
  /\ game.tc.kind # "unlimited" =>
       /\ \A side \in Side : game.clock.remaining[side] > 0
       /\ game.ply > 0 => game.clock.startedAt # NoTime
  /\ ~game.over => game.termination = "none"

RowInv ==
  /\ FlagRowIsDeadline /\ PregameRowIsDeadline
  /\ flagRow # NoRow => flagRow.seq <= seq

\* What a worker saw of the game, against the game as it is.
SeenOK(seen, head) ==
  /\ head <= seq
  /\ flagRow # NoRow /\ flagRow.seq <= head => GameFlagDeadline(seen) = GameFlagDeadline(game)
  /\ Unstarted(game) => Unstarted(seen) /\ (BothReady(seen) => BothReady(game))

WorkerInv == \A w \in Worker : \A seen \in worker[w].seen : SeenOK(seen, worker[w].head)

IInv == TypeOK /\ ClockInv /\ RowInv /\ WorkerInv

-----------------------------------------------------------------------------
(* The clock. *)

LEMMA SideFacts ==
  /\ "w" \in Side /\ "b" \in Side
  /\ \A side \in Side : Opponent(side) \in Side /\ Opponent(side) # side
  /\ \A g : Turn(g) \in Side
BY DEF Side, Opponent, Turn

(* The side to move flags exactly from its deadline on: what is left falls *)
(* to zero when the elapsed time, less the delay, has used up what there   *)
(* was (the equivalence flagDeadline's comment states).                    *)
LEMMA FlagsFromDeadline ==
  ASSUME NEW tc \in TimeControl, NEW clock \in ClockState, NEW side \in Side, NEW t \in Int,
         tc.kind # "unlimited", clock.startedAt # NoTime, clock.remaining[side] > 0
  PROVE  /\ FlagDeadline(clock, side, tc) \in Nat
         /\ Flags(clock, side, t, tc) <=> t >= FlagDeadline(clock, side, tc)
         /\ HasFlagged(clock, side, t, tc) <=> t >= FlagDeadline(clock, side, tc)
<1>1. /\ clock.startedAt \in Nat /\ clock.remaining[side] \in Nat /\ DelayOf(tc) \in Nat
  BY DEF ClockState, TimeControl, DelayOf, NoTime
<1>2. FlagDeadline(clock, side, tc) = clock.startedAt + DelayOf(tc) + clock.remaining[side]
  BY <1>1 DEF FlagDeadline
<1>3. LeftAt(clock, side, t, tc) <= 0 <=> t >= clock.startedAt + DelayOf(tc) + clock.remaining[side]
  BY <1>1 DEF LeftAt, Elapsed, NonNegative
<1> QED
  BY <1>1, <1>2, <1>3 DEF Flags, HasFlagged

(* A charge that does not flag leaves both sides time, and an anchor.      *)
LEMMA ChargeFacts ==
  ASSUME NEW tc \in TimeControl, NEW clock \in ClockState, NEW side \in Side, NEW t \in Nat,
         ~Flags(clock, side, t, tc)
  PROVE  /\ Charge(clock, side, t, tc) \in ClockState
         /\ tc.kind # "unlimited" =>
              /\ Charge(clock, side, t, tc).startedAt = t
              /\ Charge(clock, side, t, tc).remaining[side] > 0
              /\ Charge(clock, side, t, tc).remaining[Opponent(side)] = clock.remaining[Opponent(side)]
<1>1. CASE tc.kind = "unlimited"
  BY <1>1 DEF Charge
<1>2. CASE tc.kind # "unlimited"
  <2> DEFINE left == LeftAt(clock, side, t, tc)
             bonus == IF tc.kind = "increment" THEN tc.increment ELSE 0
  <2>1. clock.remaining \in [Side -> Nat] /\ DelayOf(tc) \in Nat /\ bonus \in Nat
    BY DEF ClockState, TimeControl, DelayOf
  <2>2. left \in Int
    BY <2>1 DEF ClockState, LeftAt, Elapsed, NonNegative, NoTime
  <2>3. left > 0
    BY <1>2, <2>2 DEF Flags
  <2>4. Charge(clock, side, t, tc) =
          [remaining |-> [clock.remaining EXCEPT ![side] = left + bonus], startedAt |-> t]
    BY <1>2 DEF Charge
  <2>5. left + bonus \in Nat /\ left + bonus > 0
    BY <2>1, <2>2, <2>3
  <2> HIDE DEF left, bonus
  <2>6. [clock.remaining EXCEPT ![side] = left + bonus] \in [Side -> Nat]
    BY <2>1, <2>5
  <2> QED
    BY <2>1, <2>4, <2>5, <2>6, SideFacts DEF ClockState
<1> QED
  BY <1>1, <1>2

-----------------------------------------------------------------------------
(* The game. *)

LEMMA GameFields ==
  ASSUME NEW g \in GameState
  PROVE  /\ g.source \in Sources /\ g.tc \in TimeControl
         /\ g.noShowAt \in Nat \cup {NoTime} /\ g.ready \in [Side -> BOOLEAN]
         /\ g.ply \in Nat /\ g.clock \in ClockState /\ g.over \in BOOLEAN
         /\ g.offer \in Side \cup {NoSide}
BY ControlAssumption DEF GameState

LEMMA MovedFields ==
  ASSUME NEW g \in GameState, NEW clock \in ClockState
  PROVE  /\ Moved(g, clock) \in GameState
         /\ Moved(g, clock).over = g.over /\ Moved(g, clock).tc = g.tc
         /\ Moved(g, clock).ply = g.ply + 1 /\ Moved(g, clock).clock = clock
         /\ Moved(g, clock).termination = g.termination
<1>1. g.ply + 1 \in Nat /\ NoSide \in Side \cup {NoSide}
  BY GameFields
<1>2. Moved(g, clock) = [g EXCEPT !.clock = clock, !.ply = g.ply + 1, !.offer = NoSide]
  BY DEF Moved
<1>3. Moved(g, clock) \in GameState
  BY <1>1, <1>2 DEF GameState
<1> QED
  BY <1>1, <1>2, <1>3 DEF GameState

(* A game's own deadline is the first instant at which its timeout is due, *)
(* and a mover flags exactly when the timeout is.                          *)
LEMMA GameDeadline ==
  ASSUME NEW g \in GameState,
         g.tc.kind # "unlimited" =>
           /\ \A side \in Side : g.clock.remaining[side] > 0
           /\ g.ply > 0 => g.clock.startedAt # NoTime
  PROVE  /\ GameFlagDeadline(g) \in Nat \cup {NoTime}
         /\ \A t \in Int :
              /\ TimeoutDue(g, t) <=> GameFlagDeadline(g) # NoTime /\ t >= GameFlagDeadline(g)
              /\ ~g.over /\ g.ply > 0 =>
                   (Flags(g.clock, Turn(g), t, g.tc) <=> TimeoutDue(g, t))
<1>1. /\ g.tc \in TimeControl /\ g.clock \in ClockState /\ g.ply \in Nat /\ Turn(g) \in Side
  BY GameFields, SideFacts
<1>2. CASE g.over \/ g.ply = 0
  BY <1>1, <1>2 DEF GameFlagDeadline, TimeoutDue
<1>3. CASE ~g.over /\ g.ply > 0 /\ g.tc.kind = "unlimited"
  BY <1>3 DEF GameFlagDeadline, TimeoutDue, FlagDeadline, HasFlagged, Flags
<1>4. CASE ~g.over /\ g.ply > 0 /\ g.tc.kind # "unlimited"
  <2>1. g.clock.startedAt # NoTime /\ g.clock.remaining[Turn(g)] > 0
    BY <1>1, <1>4
  <2>2. GameFlagDeadline(g) = FlagDeadline(g.clock, Turn(g), g.tc)
    BY <1>4 DEF GameFlagDeadline
  <2>3. \A t \in Int : TimeoutDue(g, t) <=> HasFlagged(g.clock, Turn(g), t, g.tc)
    BY <1>4 DEF TimeoutDue
  <2>4. FlagDeadline(g.clock, Turn(g), g.tc) \in Nat
    BY <1>1, <1>4, <2>1, FlagsFromDeadline
  <2>5. \A t \in Int :
          /\ Flags(g.clock, Turn(g), t, g.tc) <=> t >= FlagDeadline(g.clock, Turn(g), g.tc)
          /\ HasFlagged(g.clock, Turn(g), t, g.tc) <=> t >= FlagDeadline(g.clock, Turn(g), g.tc)
    BY <1>1, <1>4, <2>1, FlagsFromDeadline
  <2>6. FlagDeadline(g.clock, Turn(g), g.tc) # NoTime
    BY <2>4 DEF NoTime
  <2> QED
    BY <2>2, <2>3, <2>4, <2>5, <2>6
<1> QED
  BY <1>1, <1>2, <1>3, <1>4

LEMMA InitIInv == Init => IInv
<1> SUFFICES ASSUME Init PROVE IInv
  OBVIOUS
<1>1. PICK source \in Sources, tc \in TimeControls : game = Created(source, tc)
  BY DEF Init
<1>2. tc \in TimeControl /\ (tc.kind # "unlimited" => tc.initial > 0) /\ tc.initial \in Nat
  BY ControlAssumption DEF TimeControl
<1>3. game.clock = InitClock(tc, IF source = "none" THEN 0 ELSE NoTime)
  BY <1>1 DEF Created
<1>4. game.clock \in ClockState /\ \A side \in Side : game.clock.remaining[side] = tc.initial
  BY <1>2, <1>3 DEF InitClock, ClockState, NoTime
<1>5. /\ game.source = source /\ game.tc = tc /\ game.ply = 0 /\ ~game.over
      /\ game.termination = "none"
      /\ game.noShowAt = IF source = "none" THEN NoTime ELSE NoShowAfter
  BY <1>1 DEF Created
<1>6. game \in GameState
  BY <1>1, <1>2, <1>3, <1>4, TimeAssumption DEF Created, GameState, Terminations, NoTime
<1>7. TypeOK
  BY <1>5, <1>6, TimeAssumption DEF Init, TypeOK, Idle, Worker, NoRow
<1>8. ClockInv
  BY <1>2, <1>4, <1>5 DEF ClockInv
<1>9. RowInv
  BY <1>5, TimeAssumption DEF Init, RowInv, FlagRowIsDeadline, PregameRowIsDeadline, GameFlagDeadline,
                          NoRow, NoTime, Unstarted
<1>10. WorkerInv
  BY DEF Init, WorkerInv, Idle
<1> QED
  BY <1>7, <1>8, <1>9, <1>10 DEF IInv

-----------------------------------------------------------------------------
(* The ways to append. *)

\* Workers stay as they are or forget what they read.
Forgetting ==
  /\ worker' \in [Worker -> [phase : {"idle", "load", "decide", "expire"},
                             seen : SUBSET GameState, head : Nat]]
  /\ \A w \in Worker : worker'[w] = worker[w] \/ worker'[w].seen = {}

\* Time on both clocks, and an anchor after the first move.
Clocked(g) ==
  g.tc.kind # "unlimited" =>
    /\ \A side \in Side : g.clock.remaining[side] > 0
    /\ g.ply > 0 => g.clock.startedAt # NoTime

LEMMA EndingKeepsIInv ==
  ASSUME IInv, NEW g \in GameState, NEW termination \in Terminations,
         NEW winner \in Side \cup {NoSide}, Clocked(g),
         game' = Ended(g, termination, winner), seq' \in {seq + 1, seq + 2},
         flagRow' = NoRow, pregameRow' = NoTime, now' = now, Forgetting
  PROVE  IInv'
<1>1. /\ game' \in GameState /\ game'.over /\ game'.tc = g.tc /\ game'.ply = g.ply
      /\ game'.clock = g.clock
  BY DEF GameState, Ended
<1>2. TypeOK'
  BY <1>1 DEF IInv, TypeOK, Forgetting, NoRow
<1>3. ClockInv'
  BY <1>1 DEF Clocked, ClockInv
<1>4. RowInv'
  BY <1>1 DEF RowInv, FlagRowIsDeadline, PregameRowIsDeadline, GameFlagDeadline, NoRow, NoTime,
              Unstarted
<1>5. WorkerInv'
  <2> SUFFICES ASSUME NEW w \in Worker, NEW seen \in worker'[w].seen
               PROVE  SeenOK(seen, worker[w].head)' /\ worker'[w].head = worker[w].head
    BY DEF WorkerInv, SeenOK
  <2>1. worker'[w] = worker[w] /\ worker[w].head <= seq /\ worker[w].head \in Nat
    BY DEF Forgetting, IInv, WorkerInv, SeenOK, TypeOK
  <2>2. worker[w].head <= seq' /\ flagRow' = NoRow /\ ~Unstarted(game')
    BY <1>1, <2>1 DEF IInv, TypeOK, Unstarted
  <2> QED
    BY <2>1, <2>2 DEF SeenOK
<1> QED
  BY <1>2, <1>3, <1>4, <1>5 DEF IInv

(* Draw offers and readiness move neither the clock nor a deadline, and    *)
(* readiness is only ever given.                                           *)
LEMMA QuietAppendKeepsIInv ==
  ASSUME IInv, NEW g \in GameState, g.source = game.source, g.tc = game.tc, g.ply = game.ply,
         g.noShowAt = game.noShowAt, g.clock = game.clock, g.over = game.over,
         g.termination = game.termination,
         \A side \in Side : game.ready[side] => g.ready[side],
         game' = g, seq' = seq + 1, UNCHANGED rows, UNCHANGED <<now, worker>>
  PROVE  IInv'
<1>1. TypeOK'
  BY DEF IInv, TypeOK, rows
<1>2. ClockInv'
  BY DEF IInv, ClockInv
<1>3. GameFlagDeadline(game') = GameFlagDeadline(game)
  BY DEF GameFlagDeadline, Turn
<1>4. (Unstarted(game') <=> Unstarted(game)) /\ (BothReady(game) => BothReady(game'))
  BY SideFacts DEF Unstarted, BothReady
<1>5. RowInv'
  BY <1>3, <1>4 DEF IInv, TypeOK, RowInv, FlagRowIsDeadline, PregameRowIsDeadline, rows
<1>6. WorkerInv'
  <2> SUFFICES ASSUME NEW w \in Worker, NEW seen \in worker[w].seen
               PROVE  SeenOK(seen, worker[w].head)'
    BY DEF WorkerInv, SeenOK
  <2>1. SeenOK(seen, worker[w].head) /\ worker[w].head \in Nat /\ seq \in Nat
    BY DEF IInv, WorkerInv, TypeOK
  <2> QED
    BY <1>3, <1>4, <2>1 DEF SeenOK, rows
<1> QED
  BY <1>1, <1>2, <1>5, <1>6 DEF IInv

(* A move hands the clock over with time on it and writes the row of its   *)
(* successor, behind every log a worker has read.                          *)
LEMMA MoveKeepsIInv ==
  ASSUME IInv, NEW side \in Side, NEW at \in Nat, side = Turn(game), ~game.over,
         ~Flags(game.clock, side, at, game.tc),
         AppendMove(game, side, Charge(game.clock, side, at, game.tc), at),
         UNCHANGED <<now, worker>>
  PROVE  IInv'
<1> DEFINE clock == Charge(game.clock, side, at, game.tc)
<1>1. /\ game \in GameState /\ game.tc \in TimeControl /\ game.clock \in ClockState
      /\ game.ply \in Nat /\ seq \in Nat /\ DelayOf(game.tc) \in Nat /\ Opponent(side) \in Side
  BY GameFields, SideFacts DEF IInv, TypeOK, TimeControl, DelayOf
<1>2. /\ clock \in ClockState
      /\ game.tc.kind # "unlimited" =>
           /\ clock.startedAt = at /\ clock.remaining[side] > 0
           /\ clock.remaining[Opponent(side)] = game.clock.remaining[Opponent(side)]
  BY <1>1, ChargeFacts
<1> HIDE DEF clock
<1>3. /\ game' = Moved(game, clock) /\ seq' = seq + 1
      /\ flagRow' = MoveRow(game, side, clock, at)
      /\ pregameRow' = IF game.ply = 0 THEN NoTime ELSE pregameRow
  BY DEF AppendMove, clock
<1>4. /\ game' \in GameState /\ ~game'.over /\ game'.tc = game.tc /\ game'.ply = game.ply + 1
      /\ game'.clock = clock /\ game'.termination = game.termination
  BY <1>1, <1>2, <1>3, MovedFields
<1>5. Turn(game') = Opponent(side)
  BY <1>1, <1>4 DEF Turn, Opponent
<1>6. Clocked(game')
  <2> SUFFICES ASSUME game.tc.kind # "unlimited", NEW s \in Side
               PROVE  clock.remaining[s] > 0 /\ clock.startedAt # NoTime
    BY <1>4 DEF Clocked
  <2>1. s = side \/ s = Opponent(side)
    BY DEF Side, Opponent
  <2> QED
    BY <1>1, <1>2, <2>1 DEF IInv, ClockInv, NoTime
<1>7. flagRow' \in [seq : {seq + 1}, due : Nat] \cup {NoRow}
  <2>1. clock.remaining[Opponent(side)] \in Nat
    BY <1>1, <1>2 DEF ClockState
  <2> QED
    BY <1>1, <1>3, <2>1 DEF MoveRow
<1>8. /\ flagRow' = NoRow <=> GameFlagDeadline(game') = NoTime
      /\ flagRow'.due = GameFlagDeadline(game')
  <2>1. CASE game.tc.kind = "unlimited"
    BY <1>3, <1>4, <2>1 DEF MoveRow, GameFlagDeadline, FlagDeadline, NoRow
  <2>2. CASE game.tc.kind # "unlimited"
    <3>1. clock.remaining[Opponent(side)] \in Nat /\ clock.remaining[Opponent(side)] > 0
      BY <1>1, <1>2, <1>4, <1>6, <2>2 DEF ClockState, Clocked
    <3>2. GameFlagDeadline(game') = at + DelayOf(game.tc) + clock.remaining[Opponent(side)]
      BY <1>1, <1>2, <1>4, <1>5, <2>2, <3>1 DEF GameFlagDeadline, FlagDeadline, NoTime
    <3>3. flagRow' = [seq |-> seq + 1, due |-> at + DelayOf(game.tc) + clock.remaining[Opponent(side)]]
      BY <1>3, <2>2, <3>1 DEF MoveRow
    <3> QED
      BY <1>1, <3>1, <3>2, <3>3 DEF NoRow, NoTime
  <2> QED
    BY <2>1, <2>2
<1>9. TypeOK'
  BY <1>1, <1>3, <1>4, <1>7 DEF IInv, TypeOK
<1>10. ClockInv'
  BY <1>4, <1>6 DEF IInv, ClockInv, Clocked
<1>11. ~Unstarted(game')
  BY <1>1, <1>4 DEF Unstarted
<1>12. RowInv'
  <2>1. pregameRow' = NoTime
    BY <1>3 DEF IInv, RowInv, PregameRowIsDeadline, Unstarted
  <2>2. flagRow' # NoRow => flagRow'.seq <= seq'
    BY <1>1, <1>3, <1>7
  <2> QED
    BY <1>8, <1>11, <2>1, <2>2 DEF RowInv, FlagRowIsDeadline, PregameRowIsDeadline
<1>13. WorkerInv'
  <2> SUFFICES ASSUME NEW w \in Worker, NEW seen \in worker[w].seen
               PROVE  SeenOK(seen, worker[w].head)'
    BY DEF WorkerInv, SeenOK
  <2>1. worker[w].head <= seq /\ worker[w].head \in Nat
    BY DEF IInv, WorkerInv, SeenOK, TypeOK
  <2>2. flagRow' # NoRow => ~(flagRow'.seq <= worker[w].head)
    BY <1>1, <1>7, <2>1
  <2> QED
    BY <1>1, <1>3, <1>11, <2>1, <2>2 DEF SeenOK
<1> QED
  BY <1>9, <1>10, <1>12, <1>13 DEF IInv

LEMMA EndingIInv ==
  ASSUME IInv, NEW termination \in Terminations, NEW winner \in Side \cup {NoSide},
         AppendEnding(game, termination, winner), now' = now, Forgetting
  PROVE  IInv'
<1>1. game \in GameState /\ Clocked(game)
  BY DEF IInv, TypeOK, ClockInv, Clocked
<1> QED
  BY <1>1, EndingKeepsIInv DEF AppendEnding

LEMMA TimeoutIInv ==
  ASSUME IInv, EndByTimeout, now' = now, Forgetting
  PROVE  IInv'
<1>1. Opponent(Turn(game)) \in Side
  BY SideFacts
<1> QED
  BY <1>1, EndingIInv DEF EndByTimeout, Terminations

LEMMA NoShowIInv ==
  ASSUME IInv, NEW at, RecordNoShow(at), now' = now, Forgetting
  PROVE  IInv'
<1>1. NoShowWinner(game) \in Side \cup {NoSide}
  <2>1. \E side \in Side : game.ready["w"] # game.ready["b"] => game.ready[side]
    <3>1. game.ready \in [Side -> BOOLEAN]
      BY GameFields DEF IInv, TypeOK
    <3> QED
      BY <3>1, SideFacts
  <2> QED
    BY <2>1 DEF NoShowWinner
<1> QED
  BY <1>1, EndingIInv DEF RecordNoShow, Terminations

LEMMA Forgets ==
  ASSUME TypeOK
  PROVE  /\ worker' = worker => Forgetting
         /\ \A w \in Worker, phase \in {"idle", "load", "decide", "expire"} :
              Become(w, [Idle EXCEPT !.phase = phase]) => Forgetting
         /\ \A w \in Worker : Become(w, Idle) => Forgetting
<1>1. Idle \in [phase : {"idle", "load", "decide", "expire"}, seen : SUBSET GameState, head : Nat]
  BY DEF Idle
<1>2. ASSUME NEW w \in Worker, NEW state, Become(w, state), state.seen = {},
             state \in [phase : {"idle", "load", "decide", "expire"},
                        seen : SUBSET GameState, head : Nat]
      PROVE  Forgetting
  BY <1>2 DEF TypeOK, Become, Forgetting
<1>3. \A phase \in {"idle", "load", "decide", "expire"} :
        /\ [Idle EXCEPT !.phase = phase].seen = {}
        /\ [Idle EXCEPT !.phase = phase] \in
             [phase : {"idle", "load", "decide", "expire"}, seen : SUBSET GameState, head : Nat]
  BY <1>1 DEF Idle
<1>4. worker' = worker => Forgetting
  BY DEF TypeOK, Forgetting
<1>5. ASSUME NEW w \in Worker, NEW phase \in {"idle", "load", "decide", "expire"},
             Become(w, [Idle EXCEPT !.phase = phase])
      PROVE  Forgetting
  BY <1>2, <1>3, <1>5
<1>6. ASSUME NEW w \in Worker, Become(w, Idle) PROVE Forgetting
  BY <1>1, <1>2, <1>6 DEF Idle
<1> QED
  BY <1>4, <1>5, <1>6

-----------------------------------------------------------------------------
(* Player commands. *)

LEMMA CommandIInv ==
  ASSUME IInv, NEW at \in Clocks, Command(at)
  PROVE  IInv'
<1>1. /\ at \in Nat /\ TypeOK /\ game \in GameState /\ Clocked(game)
  BY TimeAssumption DEF IInv, TypeOK, Clocks, ClockInv, Clocked
<1>2. worker' = worker => Forgetting
  BY <1>1, Forgets
<1>3. CASE LateCommand(at)
  BY <1>2, <1>3, NoShowIInv, TimeoutIInv DEF LateCommand, RecordTimeout
<1>4. CASE ClaimFlag(at)
  BY <1>2, <1>4, TimeoutIInv DEF ClaimFlag
<1>5. CASE Abort(at)
  BY <1>2, <1>5, EndingIInv DEF Abort, Terminations
<1>6. CASE DeclineDraw(at)
  <2> DEFINE g == [game EXCEPT !.offer = NoSide]
  <2>1. g \in GameState
    BY <1>1 DEF GameState
  <2>2. /\ g.source = game.source /\ g.tc = game.tc /\ g.ply = game.ply
        /\ g.noShowAt = game.noShowAt /\ g.clock = game.clock /\ g.over = game.over
        /\ g.termination = game.termination /\ g.ready = game.ready
    BY <1>1 DEF GameState
  <2>3. game' = g /\ seq' = seq + 1 /\ UNCHANGED rows /\ UNCHANGED <<now, worker>>
    BY <1>6 DEF DeclineDraw, Append1
  <2> HIDE DEF g
  <2> QED
    BY <2>1, <2>2, <2>3, QuietAppendKeepsIInv
<1>7. ASSUME NEW side \in Side, PlayMove(side, at) PROVE IInv'
  <2> DEFINE clock == Charge(game.clock, side, at, game.tc)
  <2>1. /\ side = Turn(game) /\ ~game.over /\ UNCHANGED <<now, worker>>
    BY <1>7 DEF PlayMove, InTime
  <2>2. CASE Flags(game.clock, side, at, game.tc)
    BY <1>2, <1>7, <2>1, <2>2, TimeoutIInv DEF PlayMove
  <2>3. CASE ~Flags(game.clock, side, at, game.tc) /\ AppendMove(game, side, clock, at)
    BY <1>1, <2>1, <2>3, MoveKeepsIInv
  <2>4. ASSUME ~Flags(game.clock, side, at, game.tc), NEW winner \in Side \cup {NoSide},
               AppendLastMove(game, side, clock, winner)
        PROVE  IInv'
    <3>1. /\ game.tc \in TimeControl /\ game.clock \in ClockState /\ game.ply \in Nat
      BY <1>1, GameFields
    <3>2. /\ clock \in ClockState
          /\ game.tc.kind # "unlimited" =>
               /\ clock.startedAt = at /\ clock.remaining[side] > 0
               /\ clock.remaining[Opponent(side)] = game.clock.remaining[Opponent(side)]
      BY <1>1, <2>4, <3>1, ChargeFacts
    <3> HIDE DEF clock
    <3>3. /\ Moved(game, clock) \in GameState
          /\ Moved(game, clock).tc = game.tc /\ Moved(game, clock).clock = clock
          /\ Moved(game, clock).ply = game.ply + 1
      BY <1>1, <3>2, MovedFields
    <3>4. Clocked(Moved(game, clock))
      <4>1. \A s \in Side : s = side \/ s = Opponent(side)
        BY DEF Side, Opponent
      <4> QED
        BY <1>1, <3>2, <3>3, <4>1 DEF Clocked, NoTime
    <3> QED
      BY <1>2, <2>1, <2>4, <3>3, <3>4, EndingKeepsIInv DEF AppendLastMove, Terminations
  <2> QED
    BY <1>7, <2>2, <2>3, <2>4 DEF PlayMove
<1>8. ASSUME NEW side \in Side, Resign(side, at) \/ AcceptDraw(side, at) PROVE IInv'
  BY <1>2, <1>8, SideFacts, EndingIInv DEF Resign, AcceptDraw, Terminations
<1>9. ASSUME NEW side \in Side, OfferDraw(side, at) PROVE IInv'
  <2> DEFINE g == [game EXCEPT !.offer = side]
  <2>1. g \in GameState
    BY <1>1 DEF GameState
  <2>2. /\ g.source = game.source /\ g.tc = game.tc /\ g.ply = game.ply
        /\ g.noShowAt = game.noShowAt /\ g.clock = game.clock /\ g.over = game.over
        /\ g.termination = game.termination /\ g.ready = game.ready
    BY <1>1 DEF GameState
  <2>3. game' = g /\ seq' = seq + 1 /\ UNCHANGED rows /\ UNCHANGED <<now, worker>>
    BY <1>9 DEF OfferDraw, Append1
  <2> HIDE DEF g
  <2> QED
    BY <2>1, <2>2, <2>3, QuietAppendKeepsIInv
<1>10. ASSUME NEW side \in Side, MarkReady(side, at) PROVE IInv'
  <2> DEFINE ready == [game.ready EXCEPT ![side] = TRUE]
             g == [game EXCEPT !.ready = ready]
  <2>1. game.ready \in [Side -> BOOLEAN]
    BY <1>1, GameFields
  <2>2. ready \in [Side -> BOOLEAN] /\ \A s \in Side : game.ready[s] => ready[s]
    BY <2>1
  <2>3. game' = g /\ seq' = seq + 1 /\ UNCHANGED rows /\ UNCHANGED <<now, worker>>
    BY <1>10 DEF MarkReady, Append1
  <2> HIDE DEF ready
  <2>4. g \in GameState
    BY <1>1, <2>2 DEF GameState
  <2>5. /\ g.source = game.source /\ g.tc = game.tc /\ g.ply = game.ply
        /\ g.noShowAt = game.noShowAt /\ g.clock = game.clock /\ g.over = game.over
        /\ g.termination = game.termination /\ g.ready = ready
    BY <1>1 DEF GameState
  <2> HIDE DEF g
  <2> QED
    BY <2>2, <2>3, <2>4, <2>5, QuietAppendKeepsIInv
<1> QED
  BY <1>3, <1>4, <1>5, <1>6, <1>7, <1>8, <1>9, <1>10 DEF Command

-----------------------------------------------------------------------------
(* The expiry workers, and time. *)

LEMMA StillIInv ==
  ASSUME IInv, UNCHANGED <<game, seq, rows>>, now' \in Nat, Forgetting
  PROVE  IInv'
<1>1. TypeOK' /\ ClockInv' /\ RowInv'
  BY DEF IInv, TypeOK, ClockInv, RowInv, FlagRowIsDeadline, PregameRowIsDeadline, rows, Forgetting
<1>2. WorkerInv'
  <2> SUFFICES ASSUME NEW w \in Worker, NEW seen \in worker'[w].seen
               PROVE  SeenOK(seen, worker[w].head)'
    BY DEF WorkerInv
  <2>1. worker'[w] = worker[w] /\ SeenOK(seen, worker[w].head)
    BY DEF Forgetting, IInv, WorkerInv
  <2> QED
    BY <2>1 DEF SeenOK, rows
<1> QED
  BY <1>1, <1>2 DEF IInv

LEMMA LoadIInv ==
  ASSUME IInv, NEW w \in Worker, Load(w)
  PROVE  IInv'
<1> DEFINE loaded == [phase |-> "decide", seen |-> {game}, head |-> seq]
<1>1. worker' = [worker EXCEPT ![w] = loaded] /\ UNCHANGED <<now, game, seq, rows>>
  BY DEF Load, Become
<1>2. /\ loaded \in [phase : {"idle", "load", "decide", "expire"}, seen : SUBSET GameState,
                    head : Nat]
      /\ loaded.seen = {game} /\ loaded.head = seq
  BY DEF IInv, TypeOK
<1> HIDE DEF loaded
<1>3. worker' \in [Worker -> [phase : {"idle", "load", "decide", "expire"},
                              seen : SUBSET GameState, head : Nat]]
  BY <1>1, <1>2 DEF IInv, TypeOK
<1>4. TypeOK' /\ ClockInv' /\ RowInv'
  BY <1>1, <1>3 DEF IInv, TypeOK, ClockInv, RowInv, FlagRowIsDeadline, PregameRowIsDeadline, rows
<1>5. WorkerInv'
  <2> SUFFICES ASSUME NEW v \in Worker, NEW seen \in worker'[v].seen
               PROVE  SeenOK(seen, worker[v].head)'
    BY DEF WorkerInv
  <2>1. CASE v = w
    BY <1>1, <1>2, <2>1 DEF SeenOK, IInv, TypeOK
  <2>2. CASE v # w
    <3>1. worker'[v] = worker[v] /\ SeenOK(seen, worker[v].head)
      BY <1>1, <2>2 DEF IInv, TypeOK, WorkerInv
    <3> QED
      BY <1>1, <3>1 DEF SeenOK, rows
  <2> QED
    BY <2>1, <2>2
<1> QED
  BY <1>4, <1>5 DEF IInv

(* Whatever the worker read, a row it may still correct is already right.  *)
LEMMA SettleFlagIInv ==
  ASSUME IInv, NEW w \in Worker, SettleFlag(w)
  PROVE  IInv'
<1>1. PICK seen \in worker[w].seen, t \in Clocks :
        IF TimeoutDue(seen, t)
        THEN Become(w, [Idle EXCEPT !.phase = "expire"]) /\ UNCHANGED flagRow
        ELSE /\ Become(w, Idle)
             /\ flagRow' = IF ~RowIsOf(worker[w].head) THEN flagRow
                           ELSE IF GameFlagDeadline(seen) = NoTime THEN NoRow
                           ELSE [flagRow EXCEPT !.due = GameFlagDeadline(seen)]
  BY DEF SettleFlag
<1>2. Forgetting
  BY <1>1, Forgets DEF IInv
<1>3. flagRow' = flagRow
  <2>1. CASE TimeoutDue(seen, t) \/ ~RowIsOf(worker[w].head)
    BY <1>1, <2>1
  <2>2. CASE ~TimeoutDue(seen, t) /\ RowIsOf(worker[w].head)
    <3>1. GameFlagDeadline(seen) = GameFlagDeadline(game) /\ flagRow # NoRow
      BY <2>2 DEF RowIsOf, IInv, WorkerInv, SeenOK
    <3>2. flagRow.due = GameFlagDeadline(seen) /\ GameFlagDeadline(seen) # NoTime
      BY <3>1 DEF IInv, RowInv, FlagRowIsDeadline
    <3>3. flagRow \in [seq : Nat, due : Nat]
      BY <3>1 DEF IInv, TypeOK
    <3>4. flagRow' = [flagRow EXCEPT !.due = flagRow.due]
      BY <1>1, <2>2, <3>2
    <3> QED
      BY <3>3, <3>4
  <2> QED
    BY <2>1, <2>2
<1> QED
  BY <1>2, <1>3, StillIInv DEF SettleFlag, rows, IInv, TypeOK

(* A dismissal removes the row of a game that has started, or whose seats  *)
(* were both ready in time: neither reverts.                               *)
LEMMA SettleNoShowIInv ==
  ASSUME IInv, NEW w \in Worker, SettleNoShow(w)
  PROVE  IInv'
<1>1. PICK seen \in worker[w].seen, t \in Clocks :
        \/ /\ Become(w, [Idle EXCEPT !.phase = "expire"]) /\ UNCHANGED pregameRow
        \/ NeverExpires(seen, t) /\ Become(w, Idle) /\ pregameRow' = NoTime
        \/ Become(w, Idle) /\ UNCHANGED pregameRow
  BY DEF SettleNoShow
<1>2. Forgetting
  BY <1>1, Forgets DEF IInv
<1>3. UNCHANGED <<now, game, seq, flagRow>>
  BY DEF SettleNoShow
<1>4. CASE UNCHANGED pregameRow
  BY <1>2, <1>3, <1>4, StillIInv DEF rows, IInv, TypeOK
<1>5. CASE NeverExpires(seen, t) /\ pregameRow' = NoTime
  <2>1. Unstarted(game) => BothReady(game)
    BY <1>5 DEF NeverExpires, IInv, WorkerInv, SeenOK
  <2>2. TypeOK' /\ ClockInv'
    BY <1>2, <1>3, <1>5 DEF IInv, TypeOK, ClockInv, Forgetting
  <2>3. RowInv'
    BY <1>3, <1>5, <2>1 DEF IInv, RowInv, FlagRowIsDeadline, PregameRowIsDeadline
  <2>4. WorkerInv'
    <3> SUFFICES ASSUME NEW v \in Worker, NEW other \in worker'[v].seen
                 PROVE  SeenOK(other, worker[v].head)'
      BY DEF WorkerInv
    <3>1. worker'[v] = worker[v] /\ SeenOK(other, worker[v].head)
      BY <1>2 DEF Forgetting, IInv, WorkerInv
    <3> QED
      BY <1>3, <3>1 DEF SeenOK
  <2> QED
    BY <2>2, <2>3, <2>4 DEF IInv
<1> QED
  BY <1>1, <1>4, <1>5

LEMMA WorkerIInv ==
  ASSUME IInv, NEW w \in Worker,
         Scan(w) \/ Load(w) \/ SettleFlag(w) \/ SettleNoShow(w) \/ Expire(w) \/ PassFails(w)
  PROVE  IInv'
<1>1. TypeOK /\ now \in Nat
  BY DEF IInv, TypeOK
<1>2. CASE Scan(w) \/ PassFails(w)
  <2>1. Forgetting /\ UNCHANGED <<now, game, seq, rows>>
    BY <1>1, <1>2, Forgets DEF Scan, PassFails
  <2> QED
    BY <1>1, <2>1, StillIInv
<1>3. CASE Expire(w)
  <2>1. Forgetting /\ now' = now
    BY <1>1, <1>3, Forgets DEF Expire
  <2>2. PICK at \in Clocks :
          RecordTimeout(at) \/ RecordNoShow(at) \/ UNCHANGED <<game, seq, rows>>
    BY <1>3 DEF Expire
  <2> QED
    BY <1>1, <2>1, <2>2, TimeoutIInv, NoShowIInv, StillIInv DEF RecordTimeout
<1> QED
  BY <1>2, <1>3, LoadIInv, SettleFlagIInv, SettleNoShowIInv

-----------------------------------------------------------------------------
(* The theorems. *)

(* The game's clocks, its rows in both queues and what the workers know    *)
(* agree in every reachable state.                                         *)
THEOREM InductiveInvariant == Spec => []IInv
<1>1. IInv /\ [Next]_vars => IInv'
  <2> SUFFICES ASSUME IInv, [Next]_vars PROVE IInv'
    OBVIOUS
  <2>1. CASE Tick
    <3>1. now' \in Nat /\ UNCHANGED <<game, seq, rows>> /\ Forgetting
      BY <2>1, Forgets DEF Tick, IInv, TypeOK
    <3> QED
      BY <3>1, StillIInv
  <2>2. CASE UNCHANGED vars
    <3>1. now' \in Nat /\ UNCHANGED <<game, seq, rows>> /\ Forgetting
      BY <2>2, Forgets DEF vars, rows, IInv, TypeOK
    <3> QED
      BY <3>1, StillIInv
  <2> QED
    BY <2>1, <2>2, CommandIInv, WorkerIInv DEF Next
<1> QED
  BY <1>1, InitIInv, PTL DEF Spec

(* The state of a game, its rows and its workers is well typed.            *)
THEOREM TypeCorrect == Spec => []TypeOK
<1>1. IInv => TypeOK
  BY DEF IInv
<1> QED
  BY <1>1, InductiveInvariant, PTL

(* The flag queue holds the instant at which the side to move flags, after *)
(* every move and every correction a worker made from an older log.        *)
THEOREM FlagRowSafety == Spec => []FlagRowIsDeadline
<1>1. IInv => FlagRowIsDeadline
  BY DEF IInv, RowInv
<1> QED
  BY <1>1, InductiveInvariant, PTL

(* Every game that can end by no-show is queued for it, and only those     *)
(* that have not started.                                                  *)
THEOREM PregameRowSafety == Spec => []PregameRowIsDeadline
<1>1. IInv => PregameRowIsDeadline
  BY DEF IInv, RowInv
<1> QED
  BY <1>1, InductiveInvariant, PTL

(* The flag falls at the queued instant and at every later one, and at no  *)
(* earlier one.                                                            *)
THEOREM DeadlineSafety == Spec => []DeadlineIsFirstFlag
<1>1. IInv => DeadlineIsFirstFlag
  <2> SUFFICES ASSUME IInv, NEW t \in 0..(MaxNow + Skew)
               PROVE  TimeoutDue(game, t) <=>
                        GameFlagDeadline(game) # NoTime /\ t >= GameFlagDeadline(game)
    BY DEF DeadlineIsFirstFlag
  <2>1. t \in Int /\ game \in GameState /\ Clocked(game)
    BY BoundAssumption, TimeAssumption DEF IInv, TypeOK, ClockInv, Clocked
  <2> QED
    BY <2>1, GameDeadline DEF Clocked
<1> QED
  BY <1>1, InductiveInvariant, PTL

-----------------------------------------------------------------------------
(* Steps. *)

LEMMA EndedStep ==
  ASSUME IInv, [Next]_vars, game.over
  PROVE  UNCHANGED <<game, seq, rows>>
<1>1. flagRow = NoRow /\ pregameRow = NoTime
  BY DEF IInv, RowInv, FlagRowIsDeadline, PregameRowIsDeadline, GameFlagDeadline, Unstarted
<1>2. \A at : ~InTime(at) /\ ~TimeoutDue(game, at) /\ ~NoShowDue(game, at)
  BY DEF InTime, TimeoutDue, NoShowDue, Unstarted
<1>3. \A at, side : ~ReadyCounts(game, side, at)
  BY DEF ReadyCounts, Unstarted
<1>4. ASSUME NEW at \in Clocks PROVE ~Command(at)
  BY <1>2, <1>3 DEF Command, LateCommand, Overdue, DeclineDraw, ClaimFlag, Abort, PlayMove, Resign,
                    OfferDraw, AcceptDraw, MarkReady
<1>5. ASSUME NEW w \in Worker,
             Scan(w) \/ Load(w) \/ SettleFlag(w) \/ SettleNoShow(w) \/ Expire(w) \/ PassFails(w)
      PROVE  UNCHANGED <<game, seq, rows>>
  <2>1. CASE Scan(w) \/ Load(w) \/ PassFails(w)
    BY <2>1 DEF Scan, Load, PassFails
  <2>2. CASE SettleFlag(w)
    BY <1>1, <2>2 DEF SettleFlag, RowIsOf, rows
  <2>3. CASE SettleNoShow(w)
    BY <1>1, <2>3 DEF SettleNoShow, rows
  <2>4. CASE Expire(w)
    BY <1>2, <2>4 DEF Expire, RecordTimeout, RecordNoShow
  <2> QED
    BY <1>5, <2>1, <2>2, <2>3, <2>4
<1> QED
  BY <1>4, <1>5 DEF Next, Tick, vars, rows

(* Nothing follows an ending: no late command, no worker that read an      *)
(* older log, and no correction of a row brings anything back.             *)
THEOREM EndingSafety == Spec => EndedStaysEnded
<1>1. IInv /\ [Next]_vars => [game.over => UNCHANGED <<game, seq, rows>>]_vars
  BY EndedStep
<1>2. Spec => [][game.over => UNCHANGED <<game, seq, rows>>]_vars
  BY <1>1, InductiveInvariant, PTL DEF Spec
<1> QED
  BY <1>2 DEF EndedStaysEnded

\* A deadline that has passed at one instant has passed at every later one.
LEMMA DueStaysDue ==
  ASSUME IInv, NEW s \in Int, NEW t \in Int, s <= t
  PROVE  /\ TimeoutDue(game, s) => TimeoutDue(game, t)
         /\ NoShowDue(game, s) => NoShowDue(game, t)
<1>1. game \in GameState /\ Clocked(game)
  BY DEF IInv, TypeOK, ClockInv, Clocked
<1>2. GameFlagDeadline(game) \in Nat \cup {NoTime}
  BY <1>1, GameDeadline DEF Clocked
<1>3. \A u \in Int :
        TimeoutDue(game, u) <=> GameFlagDeadline(game) # NoTime /\ u >= GameFlagDeadline(game)
  BY <1>1, GameDeadline DEF Clocked
<1>4. game.noShowAt \in Int
  BY <1>1, GameFields DEF NoTime
<1> QED
  BY <1>2, <1>3, <1>4 DEF NoShowDue, NoTime

\* How an event that is appended relates to the deadlines.
Decided(at) ==
  /\ Overdue(at) => RecordNoShow(at) \/ RecordTimeout(at)
  /\ game'.termination = "timeout" /\ game.ply > 0 => TimeoutDue(game, at)

LEMMA CommandDecides ==
  ASSUME IInv, NEW at \in Clocks, Command(at)
  PROVE  Decided(at)
<1>1. /\ at \in Int /\ game \in GameState /\ Clocked(game)
  BY TimeAssumption DEF IInv, TypeOK, Clocks, ClockInv, Clocked
<1>2. /\ ~game.over => game.termination = "none"
      /\ game.ply > 0 /\ ~game.over =>
           (Flags(game.clock, Turn(game), at, game.tc) <=> TimeoutDue(game, at))
  BY <1>1, GameDeadline DEF IInv, ClockInv, Clocked
<1>3. \A g \in GameState : \A termination, winner :
        AppendEnding(g, termination, winner) => game'.termination = termination
  BY DEF AppendEnding, Ended, GameState
<1>4. CASE LateCommand(at)
  BY <1>1, <1>3, <1>4 DEF LateCommand, Decided, RecordNoShow, RecordTimeout
<1>5. CASE ~LateCommand(at)
  <2>1. ~Overdue(at)
    BY <1>5 DEF Command, DeclineDraw, ClaimFlag, Abort, PlayMove, Resign, OfferDraw, AcceptDraw,
                MarkReady, InTime
  <2>2. ~game.over
    BY <1>5 DEF Command, DeclineDraw, ClaimFlag, Abort, PlayMove, Resign, OfferDraw, AcceptDraw,
                MarkReady, InTime, ReadyCounts, Unstarted
  <2>3. ~TimeoutDue(game, at) /\ game.termination = "none"
    BY <1>2, <2>1, <2>2 DEF Overdue
  <2> SUFFICES ASSUME game.ply > 0 PROVE game'.termination # "timeout"
    BY <2>1 DEF Decided
  <2>4. ~Flags(game.clock, Turn(game), at, game.tc)
    BY <1>2, <2>2, <2>3
  <2>5. ASSUME NEW g, Append1(g), g.termination = game.termination
        PROVE  game'.termination # "timeout"
    BY <2>3, <2>5 DEF Append1
  <2>6. CASE ClaimFlag(at)
    BY <2>2, <2>3, <2>6 DEF ClaimFlag, TimeoutDue
  <2>7. CASE Abort(at)
    BY <1>1, <1>3, <2>7 DEF Abort
  <2>8. CASE DeclineDraw(at)
    BY <1>1, <2>5, <2>8 DEF DeclineDraw, GameState
  <2>9. ASSUME NEW side \in Side, PlayMove(side, at) PROVE game'.termination # "timeout"
    <3> DEFINE clock == Charge(game.clock, side, at, game.tc)
    <3>1. /\ side = Turn(game) /\ ~Flags(game.clock, side, at, game.tc)
          /\ \/ AppendMove(game, side, clock, at)
             \/ \E winner \in Side \cup {NoSide} : AppendLastMove(game, side, clock, winner)
      BY <2>4, <2>9 DEF PlayMove
    <3>2. clock \in ClockState
      <4>1. game.tc \in TimeControl /\ game.clock \in ClockState /\ at \in Nat
        BY <1>1, GameFields DEF Clocks
      <4> QED
        BY <3>1, <4>1, ChargeFacts
    <3> HIDE DEF clock
    <3>3. Moved(game, clock) \in GameState /\ Moved(game, clock).termination = "none"
      BY <1>1, <2>3, <3>2, MovedFields
    <3>4. \A winner : Ended(Moved(game, clock), "board", winner).termination = "board"
      BY <3>3 DEF Ended, GameState
    <3> QED
      BY <3>1, <3>3, <3>4 DEF AppendMove, AppendLastMove
  <2>10. ASSUME NEW side \in Side, Resign(side, at) \/ AcceptDraw(side, at)
         PROVE  game'.termination # "timeout"
    BY <1>1, <1>3, <2>10 DEF Resign, AcceptDraw
  <2>11. ASSUME NEW side \in Side, OfferDraw(side, at) \/ MarkReady(side, at)
         PROVE  game'.termination # "timeout"
    BY <1>1, <2>5, <2>11 DEF OfferDraw, MarkReady, GameState
  <2> QED
    BY <1>5, <2>6, <2>7, <2>8, <2>9, <2>10, <2>11 DEF Command
<1> QED
  BY <1>4, <1>5

\* What DeadlineDecides says of a step that appends.
DeadlineRespected ==
  /\ TimeoutDue(game, now - Skew) =>
       \/ game'.termination = "timeout" /\ game'.winner = Opponent(Turn(game))
       \/ game'.termination = "insufficient_material"
  /\ NoShowDue(game, now - Skew) => game'.termination = "no_show"
  /\ game'.termination = "timeout" /\ game.ply > 0 => TimeoutDue(game, now)

LEMMA DecidedIsRespected ==
  ASSUME IInv, NEW at \in Clocks, Decided(at)
  PROVE  DeadlineRespected
<1>1. /\ at \in Int /\ now - Skew \in Int /\ now \in Int /\ now - Skew <= at /\ at <= now
      /\ game \in GameState
  BY TimeAssumption DEF IInv, TypeOK, Clocks
<1>2. /\ TimeoutDue(game, now - Skew) => TimeoutDue(game, at)
      /\ NoShowDue(game, now - Skew) => NoShowDue(game, at)
      /\ TimeoutDue(game, at) => TimeoutDue(game, now)
  BY <1>1, DueStaysDue
<1>3. ~(TimeoutDue(game, at) /\ NoShowDue(game, at))
  BY <1>1, GameFields DEF TimeoutDue, NoShowDue, Unstarted
<1>4. \A termination, winner : AppendEnding(game, termination, winner) =>
        game'.termination = termination /\ game'.winner = winner
  BY <1>1 DEF AppendEnding, Ended, GameState
<1>5. ASSUME TimeoutDue(game, at), RecordNoShow(at) \/ RecordTimeout(at)
      PROVE  \/ game'.termination = "timeout" /\ game'.winner = Opponent(Turn(game))
             \/ game'.termination = "insufficient_material"
  BY <1>3, <1>4, <1>5 DEF RecordNoShow, RecordTimeout, EndByTimeout
<1>6. ASSUME NoShowDue(game, at), RecordNoShow(at) \/ RecordTimeout(at)
      PROVE  game'.termination = "no_show"
  BY <1>3, <1>4, <1>6 DEF RecordNoShow, RecordTimeout
<1> QED
  BY <1>2, <1>5, <1>6 DEF Decided, Overdue, DeadlineRespected

LEMMA ExpireDecides ==
  ASSUME IInv, NEW w \in Worker, Expire(w), seq' # seq
  PROVE  \E at \in Clocks : Decided(at)
<1>1. PICK at \in Clocks : RecordTimeout(at) \/ RecordNoShow(at)
  BY DEF Expire
<1>2. game \in GameState
  BY DEF IInv, TypeOK
<1>3. RecordNoShow(at) => game'.termination = "no_show"
  BY <1>2 DEF RecordNoShow, AppendEnding, Ended, GameState
<1>4. RecordTimeout(at) => TimeoutDue(game, at)
  BY DEF RecordTimeout
<1> QED
  BY <1>1, <1>3, <1>4 DEF Decided

(* A deadline that has passed for every gateway decides the game, whoever  *)
(* appends first, and no running game is lost on time before its deadline. *)
THEOREM DeadlinePrecedence == Spec => DeadlineDecides
<1>1. ASSUME IInv, [Next]_vars, seq' # seq PROVE DeadlineRespected
  <2>1. ASSUME NEW w \in Worker, Scan(w) \/ Load(w) \/ SettleFlag(w) \/ SettleNoShow(w) \/ PassFails(w)
        PROVE  FALSE
    BY <1>1, <2>1 DEF Scan, Load, SettleFlag, SettleNoShow, PassFails
  <2>2. ~Tick /\ ~UNCHANGED vars
    BY <1>1 DEF Tick, vars
  <2>3. \/ \E at \in Clocks : Command(at)
        \/ \E w \in Worker : Expire(w)
    BY <1>1, <2>1, <2>2 DEF Next
  <2> QED
    BY <1>1, <2>3, CommandDecides, ExpireDecides, DecidedIsRespected
<1>2. IInv /\ [Next]_vars => [seq' # seq => DeadlineRespected]_vars
  BY <1>1
<1>3. Spec => [][seq' # seq => DeadlineRespected]_vars
  BY <1>2, InductiveInvariant, PTL DEF Spec
<1> QED
  BY <1>3 DEF DeadlineDecides, DeadlineRespected

-----------------------------------------------------------------------------
(* Creation of games beside chess assistance (ApiCalls, GameCreation). *)

Locking(c) == call[c].pc = "locking"

\* The pcs under the one lock of an answer, and those at which a call holds none.
UnderLock == {"asking", "working", "verifying", "answering", "answered"}
Unlocked  == {"idle", "accepting", "claiming", "removing", "computing"}

\* A call that helps somebody asks for one player.
AsksForOne == \A c \in Call : call[c].pc \in UnderLock \cup {"computing"} =>
                \E p \in Player : call[c].players = {p}

\* It holds that player's lock until its answer is written.
AnswersUnderLock == \A c \in Call : call[c].pc \in UnderLock =>
                      \A p \in call[c].players : playerLock[p] = c

HoldsNone == \A c \in Call : call[c].pc \in Unlocked => \A p \in Player : playerLock[p] # c

\* What a creation holds it needs, and it holds everything it needs of lower ids.
LocksInOrder ==
  \A c \in Call : Locking(c) => \A p \in Player : playerLock[p] = c =>
    /\ p \in Creation!MustLock(call[c].players)
    /\ \A q \in Creation!MustLock(call[c].players) : q < p => playerLock[q] = c

\* A claim stands, open, until the transaction that made it ends.
ClaimStands ==
  \A c \in Call :
    /\ call[c].pc \in {"accepting", "claiming", "removing"} => call[c].seek \in Seek
    /\ Locking(c) /\ call[c].seek # NoSeek =>
         /\ claimed[call[c].seek] = c /\ seek[call[c].seek].state = "open"
         /\ call[c].found = "open"

Matched(row) == row.state \in {"accepted", "purged"}

\* A seek is accepted with its one game, and that game's claim found it open.
StartsOnce ==
  \A s \in Seek : IF Matched(seek[s])
                  THEN \E g \in DOMAIN games : games[g].seek = s /\ \A h \in DOMAIN games : games[h].seek = s => h = g
                  ELSE \A g \in DOMAIN games : games[g].seek # s
FoundOpen == \A g \in DOMAIN games : games[g].seek # NoSeek => games[g].found = "open"

OneGame == [players : SUBSET Player, seek : Seek \cup {NoSeek}, found : Creation!Found, over : BOOLEAN]
Games == Seq(OneGame)

CallRecord ==
  [pc : {"idle", "accepting", "claiming", "removing", "locking", "computing", "asking", "working", "verifying",
         "answering", "answered"},
   seek : Seek \cup {NoSeek}, players : SUBSET Player, found : Creation!Found]

\* The log has one game more, that of the call.
Grown(c) ==
  \E n \in Nat :
    /\ n \notin DOMAIN games /\ DOMAIN games' = DOMAIN games \cup {n}
    /\ games'[n].players = call[c].players /\ games'[n].seek = call[c].seek /\ games'[n].found = call[c].found
    /\ \A g \in DOMAIN games : games'[g] = games[g]

CreationInv ==
  /\ Creation!TypeOK /\ AsksForOne /\ AnswersUnderLock /\ HoldsNone /\ LocksInOrder
  /\ ClaimStands /\ StartsOnce /\ FoundOpen /\ Creation!NoHelpInAGame

SeekRow == [state : Creation!SeekState, creator : Player]

LEMMA SeekRowMoves ==
  ASSUME NEW r \in SeekRow, NEW st \in Creation!SeekState
  PROVE  [r EXCEPT !.state = st] \in SeekRow
BY DEF SeekRow

LEMMA SeekTableMoves ==
  ASSUME NEW t \in [Seek -> SeekRow], NEW s \in Seek, NEW st \in Creation!SeekState
  PROVE  [t EXCEPT ![s].state = st] \in [Seek -> SeekRow]
BY SeekRowMoves

LEMMA CallMoves ==
  ASSUME NEW r \in CallRecord, NEW st \in {"claiming", "locking"}, NEW f \in Creation!Found
  PROVE  [r EXCEPT !.pc = st, !.found = f] \in CallRecord
BY DEF CallRecord

LEMMA GameEnds ==
  ASSUME NEW all \in Games, NEW g \in DOMAIN all
  PROVE  /\ [all EXCEPT ![g] = [all[g] EXCEPT !.over = TRUE]] \in Games
         /\ Len([all EXCEPT ![g] = [all[g] EXCEPT !.over = TRUE]]) = Len(all)
<1>1. all \in Seq(OneGame) /\ g \in 1..Len(all)
  BY DEF Games
<1>2. all[g] \in OneGame
  BY <1>1
<1>3. [all[g] EXCEPT !.over = TRUE] \in OneGame
  BY <1>2 DEF OneGame
<1> DEFINE finished == [all[g] EXCEPT !.over = TRUE]
<1> HIDE DEF finished
<1>4. [all EXCEPT ![g] = finished] \in Seq(OneGame) /\ Len([all EXCEPT ![g] = finished]) = Len(all)
  BY <1>1, <1>3, ExceptSeq DEF finished
<1> QED BY <1>4 DEF Games, finished

LEMMA PostSeekCoordinated ==
  ASSUME CreationInv, NEW s \in Seek, Creation!PostSeek(s)
  PROVE  CreationInv'
<1> USE ApiAssumptions DEF Creation!Assumptions, CreationInv, Creation!TypeOK, Creation!SeekState, Creation!Found
<1>1. /\ seek[s].state = "none"
      /\ seek' = [seek EXCEPT ![s].state = "open"]
      /\ UNCHANGED <<old, games, claimed, playerLock, call>>
  BY DEF Creation!PostSeek
<1>2. Creation!TypeOK'
  BY <1>1
<1>3. AsksForOne'
  BY <1>1 DEF AsksForOne, UnderLock
<1>4. AnswersUnderLock'
  BY <1>1 DEF AnswersUnderLock, AsksForOne, UnderLock
<1>5. HoldsNone'
  BY <1>1 DEF HoldsNone, Unlocked, UnderLock
<1>6. LocksInOrder'
  BY <1>1 DEF LocksInOrder, HoldsNone, Unlocked, Locking
<1>7. ClaimStands'
  BY <1>1 DEF ClaimStands, Locking
<1>8. StartsOnce' /\ FoundOpen'
  BY <1>1 DEF StartsOnce, Matched, FoundOpen, ClaimStands, Locking
<1>9. Creation!NoHelpInAGame'
  BY <1>1 DEF Creation!NoHelpInAGame, Creation!Eligible, Creation!Playing, UnderLock, AnswersUnderLock
<1> QED BY <1>2, <1>3, <1>4, <1>5, <1>6, <1>7, <1>8, <1>9

LEMMA ExpireCoordinated ==
  ASSUME CreationInv, NEW s \in Seek, Creation!Expire(s)
  PROVE  CreationInv'
<1> USE ApiAssumptions DEF Creation!Assumptions, CreationInv, Creation!TypeOK, Creation!SeekState, Creation!Found
<1>1. /\ old' = old \cup {s}
      /\ UNCHANGED <<seek, games, claimed, playerLock, call>>
  BY DEF Creation!Expire
<1>2. Creation!TypeOK'
  BY <1>1
<1>3. AsksForOne'
  BY <1>1 DEF AsksForOne, UnderLock
<1>4. AnswersUnderLock'
  BY <1>1 DEF AnswersUnderLock, AsksForOne, UnderLock
<1>5. HoldsNone'
  BY <1>1 DEF HoldsNone, Unlocked, UnderLock
<1>6. LocksInOrder'
  BY <1>1 DEF LocksInOrder, HoldsNone, Unlocked, Locking
<1>7. ClaimStands'
  BY <1>1 DEF ClaimStands, Locking
<1>8. StartsOnce' /\ FoundOpen'
  BY <1>1 DEF StartsOnce, Matched, FoundOpen, ClaimStands, Locking
<1>9. Creation!NoHelpInAGame'
  BY <1>1 DEF Creation!NoHelpInAGame, Creation!Eligible, Creation!Playing, UnderLock, AnswersUnderLock
<1> QED BY <1>2, <1>3, <1>4, <1>5, <1>6, <1>7, <1>8, <1>9

LEMMA CleanUpCoordinated ==
  ASSUME CreationInv, NEW s \in Seek, Creation!CleanUp(s)
  PROVE  CreationInv'
<1> USE ApiAssumptions DEF Creation!Assumptions, CreationInv, Creation!TypeOK, Creation!SeekState, Creation!Found
<1>1. CASE s \in old /\ seek[s].state = "open" /\ Creation!RemoveOpen(s)
<2>1. /\ claimed[s] = Nobody
      /\ seek' = [seek EXCEPT ![s].state = "gone"]
      /\ UNCHANGED <<old, games, claimed, playerLock, call>>
  BY <1>1 DEF Creation!CleanUp, Creation!RemoveOpen
<2>2. Creation!TypeOK'
  BY <2>1, <1>1
<2>3. AsksForOne'
  BY <2>1, <1>1 DEF AsksForOne, UnderLock
<2>4. AnswersUnderLock'
  BY <2>1, <1>1 DEF AnswersUnderLock, AsksForOne, UnderLock
<2>5. HoldsNone'
  BY <2>1, <1>1 DEF HoldsNone, Unlocked, UnderLock
<2>6. LocksInOrder'
  BY <2>1, <1>1 DEF LocksInOrder, HoldsNone, Unlocked, Locking
<2>7. ClaimStands'
  BY <2>1, <1>1 DEF ClaimStands, Locking
<2>8. StartsOnce' /\ FoundOpen'
  BY <2>1, <1>1 DEF StartsOnce, Matched, FoundOpen, ClaimStands, Locking
<2>9. Creation!NoHelpInAGame'
  BY <2>1, <1>1 DEF Creation!NoHelpInAGame, Creation!Eligible, Creation!Playing, UnderLock, AnswersUnderLock
<2> QED BY <2>2, <2>3, <2>4, <2>5, <2>6, <2>7, <2>8, <2>9
<1>2. CASE seek[s].state = "accepted" /\ seek' = [seek EXCEPT ![s].state = "purged"]
<2>1. /\ seek[s].state = "accepted"
      /\ seek' = [seek EXCEPT ![s].state = "purged"]
      /\ UNCHANGED <<old, games, claimed, playerLock, call>>
  BY <1>2 DEF Creation!CleanUp
<2>2. Creation!TypeOK'
  BY <2>1, <1>2
<2>3. AsksForOne'
  BY <2>1, <1>2 DEF AsksForOne, UnderLock
<2>4. AnswersUnderLock'
  BY <2>1, <1>2 DEF AnswersUnderLock, AsksForOne, UnderLock
<2>5. HoldsNone'
  BY <2>1, <1>2 DEF HoldsNone, Unlocked, UnderLock
<2>6. LocksInOrder'
  BY <2>1, <1>2 DEF LocksInOrder, HoldsNone, Unlocked, Locking
<2>7. ClaimStands'
  BY <2>1, <1>2 DEF ClaimStands, Locking
<2>8. StartsOnce' /\ FoundOpen'
  BY <2>1, <1>2 DEF StartsOnce, Matched, FoundOpen, ClaimStands, Locking
<2>9. Creation!NoHelpInAGame'
  BY <2>1, <1>2 DEF Creation!NoHelpInAGame, Creation!Eligible, Creation!Playing, UnderLock, AnswersUnderLock
<2> QED BY <2>2, <2>3, <2>4, <2>5, <2>6, <2>7, <2>8, <2>9
<1> QED BY <1>1, <1>2 DEF Creation!CleanUp

LEMMA FindToCancelCoordinated ==
  ASSUME CreationInv, NEW c \in Call, NEW s \in Seek, Creation!FindToCancel(c, s)
  PROVE  CreationInv'
<1> USE ApiAssumptions DEF Creation!Assumptions, CreationInv, Creation!TypeOK, Creation!SeekState, Creation!Found
<1>1. /\ call[c].pc = "idle"
      /\ call' = [call EXCEPT ![c] = [[pc |-> "idle", seek |-> NoSeek, players |-> {}, found |-> "nothing"] EXCEPT !.pc = "removing", !.seek = s]]
      /\ UNCHANGED <<seek, old, games, claimed, playerLock>>
  BY DEF Creation!FindToCancel, Creation!Do, Creation!Idle, Creation!lobby
<1>2. Creation!TypeOK'
  BY <1>1
<1>3. AsksForOne'
  BY <1>1 DEF AsksForOne, UnderLock
<1>4. AnswersUnderLock'
  BY <1>1 DEF AnswersUnderLock, AsksForOne, UnderLock
<1>5. HoldsNone'
  BY <1>1 DEF HoldsNone, Unlocked, UnderLock
<1>6. LocksInOrder'
  BY <1>1 DEF LocksInOrder, HoldsNone, Unlocked, Locking
<1>7. ClaimStands'
  BY <1>1 DEF ClaimStands, Locking
<1>8. StartsOnce' /\ FoundOpen'
  BY <1>1 DEF StartsOnce, Matched, FoundOpen, ClaimStands, Locking
<1>9. Creation!NoHelpInAGame'
  BY <1>1 DEF Creation!NoHelpInAGame, Creation!Eligible, Creation!Playing, UnderLock, AnswersUnderLock
<1> QED BY <1>2, <1>3, <1>4, <1>5, <1>6, <1>7, <1>8, <1>9

LEMMA CancelCoordinated ==
  ASSUME CreationInv, NEW c \in Call, Creation!Cancel(c)
  PROVE  CreationInv'
<1> USE ApiAssumptions DEF Creation!Assumptions, CreationInv, Creation!TypeOK, Creation!SeekState, Creation!Found
<1>1. CASE seek[call[c].seek].state = "open"
<2>1. /\ call[c].pc = "removing"
      /\ call[c].seek \in Seek
      /\ claimed[call[c].seek] = Nobody
      /\ seek' = [seek EXCEPT ![call[c].seek].state = "gone"]
      /\ call' = [call EXCEPT ![c] = [pc |-> "idle", seek |-> NoSeek, players |-> {}, found |-> "nothing"]]
      /\ UNCHANGED <<old, games, claimed, playerLock>>
  BY <1>1 DEF Creation!Cancel, Creation!RemoveOpen, Creation!Do, Creation!Idle, ClaimStands
<2>2. Creation!TypeOK'
  <3>1. seek' \in [Seek -> SeekRow]
    <4>1. seek \in [Seek -> SeekRow]
      BY DEF SeekRow
    <4>2. [seek EXCEPT ![call[c].seek].state = "gone"] \in [Seek -> SeekRow]
      BY <2>1, <4>1, SeekTableMoves
    <4> QED BY <2>1, <4>2 DEF SeekRow
  <3>2. call' \in [Call -> CallRecord]
    BY <2>1 DEF CallRecord
  <3> QED BY <2>1, <3>1, <3>2 DEF CallRecord, SeekRow
<2>3. AsksForOne'
  BY <2>1, <1>1 DEF AsksForOne, UnderLock
<2>4. AnswersUnderLock'
  BY <2>1, <1>1 DEF AnswersUnderLock, AsksForOne, UnderLock
<2>5. HoldsNone'
  BY <2>1, <1>1 DEF HoldsNone, Unlocked, UnderLock
<2>6. LocksInOrder'
  BY <2>1, <1>1 DEF LocksInOrder, HoldsNone, Unlocked, Locking
<2>7. ClaimStands'
  BY <2>1, <1>1 DEF ClaimStands, Locking
<2>8. StartsOnce' /\ FoundOpen'
  BY <2>1, <1>1 DEF StartsOnce, Matched, FoundOpen, ClaimStands, Locking
<2>9. Creation!NoHelpInAGame'
  BY <2>1, <1>1 DEF Creation!NoHelpInAGame, Creation!Eligible, Creation!Playing, UnderLock, AnswersUnderLock
<2> QED BY <2>2, <2>3, <2>4, <2>5, <2>6, <2>7, <2>8, <2>9
<1>2. CASE seek[call[c].seek].state # "open"
<2>1. /\ call[c].pc = "removing"
      /\ call' = [call EXCEPT ![c] = [pc |-> "idle", seek |-> NoSeek, players |-> {}, found |-> "nothing"]]
      /\ UNCHANGED <<seek, old, games, claimed, playerLock>>
  BY <1>2 DEF Creation!Cancel, Creation!RemoveOpen, Creation!Do, Creation!Idle, ClaimStands
<2>2. Creation!TypeOK'
  BY <2>1, <1>2
<2>3. AsksForOne'
  BY <2>1, <1>2 DEF AsksForOne, UnderLock
<2>4. AnswersUnderLock'
  BY <2>1, <1>2 DEF AnswersUnderLock, AsksForOne, UnderLock
<2>5. HoldsNone'
  BY <2>1, <1>2 DEF HoldsNone, Unlocked, UnderLock
<2>6. LocksInOrder'
  BY <2>1, <1>2 DEF LocksInOrder, HoldsNone, Unlocked, Locking
<2>7. ClaimStands'
  BY <2>1, <1>2 DEF ClaimStands, Locking
<2>8. StartsOnce' /\ FoundOpen'
  BY <2>1, <1>2 DEF StartsOnce, Matched, FoundOpen, ClaimStands, Locking
<2>9. Creation!NoHelpInAGame'
  BY <2>1, <1>2 DEF Creation!NoHelpInAGame, Creation!Eligible, Creation!Playing, UnderLock, AnswersUnderLock
<2> QED BY <2>2, <2>3, <2>4, <2>5, <2>6, <2>7, <2>8, <2>9
<1> QED BY <1>1, <1>2

LEMMA FindToAcceptCoordinated ==
  ASSUME CreationInv, NEW c \in Call, NEW s \in Seek, NEW p \in Player, Creation!FindToAccept(c, s, p)
  PROVE  CreationInv'
<1> USE ApiAssumptions DEF Creation!Assumptions, CreationInv, Creation!TypeOK, Creation!SeekState, Creation!Found
<1>1. /\ call[c].pc = "idle"
      /\ call' = [call EXCEPT ![c] = [[pc |-> "idle", seek |-> NoSeek, players |-> {}, found |-> "nothing"]
                             EXCEPT !.pc = "accepting", !.seek = s, !.players = {seek[s].creator, p}]]
      /\ UNCHANGED <<seek, old, games, claimed, playerLock>>
  BY DEF Creation!FindToAccept, Creation!Do, Creation!Idle, Creation!lobby
<1>2. Creation!TypeOK'
  <2>1. seek[s].creator \in Player
    OBVIOUS
  <2> DEFINE next == [[pc |-> "idle", seek |-> NoSeek, players |-> {}, found |-> "nothing"]
                        EXCEPT !.pc = "accepting", !.seek = s, !.players = {seek[s].creator, p}]
  <2>2. next \in CallRecord
    BY <2>1 DEF CallRecord
  <2> HIDE DEF next
  <2>3. call' = [call EXCEPT ![c] = next]
    BY <1>1 DEF next
  <2>4. call \in [Call -> CallRecord]
    BY DEF CallRecord
  <2>5. call' \in [Call -> CallRecord]
    BY <2>2, <2>3, <2>4
  <2> QED BY <1>1, <2>5 DEF CallRecord
<1>3. AsksForOne'
  BY <1>1 DEF AsksForOne, UnderLock
<1>4. AnswersUnderLock'
  BY <1>1 DEF AnswersUnderLock, AsksForOne, UnderLock
<1>5. HoldsNone'
  BY <1>1 DEF HoldsNone, Unlocked, UnderLock
<1>6. LocksInOrder'
  BY <1>1 DEF LocksInOrder, HoldsNone, Unlocked, Locking
<1>7. ClaimStands'
  BY <1>1 DEF ClaimStands, Locking
<1>8. StartsOnce' /\ FoundOpen'
  BY <1>1 DEF StartsOnce, Matched, FoundOpen, ClaimStands, Locking
<1>9. Creation!NoHelpInAGame'
  BY <1>1 DEF Creation!NoHelpInAGame, Creation!Eligible, Creation!Playing, UnderLock, AnswersUnderLock
<1> QED BY <1>2, <1>3, <1>4, <1>5, <1>6, <1>7, <1>8, <1>9

LEMMA BeginCoordinated ==
  ASSUME CreationInv, NEW c \in Call, Creation!Begin(c)
  PROVE  CreationInv'
<1> USE ApiAssumptions DEF Creation!Assumptions, CreationInv, Creation!TypeOK, Creation!SeekState, Creation!Found
<1>1. /\ call[c].pc = "accepting" /\ call[c].seek \in Seek
      /\ \E f \in {"late", "fresh"} : call' = [call EXCEPT ![c] = [call[c] EXCEPT !.pc = "claiming", !.found = f]]
      /\ UNCHANGED <<seek, old, games, claimed, playerLock>>
  BY DEF Creation!Begin, Creation!Do, Creation!lobby, ClaimStands
<1>2. Creation!TypeOK'
  <2>1. call \in [Call -> CallRecord]
    BY DEF CallRecord
  <2>2. call' \in [Call -> CallRecord]
    <3>1. PICK f \in {"late", "fresh"} : call' = [call EXCEPT ![c] = [call[c] EXCEPT !.pc = "claiming", !.found = f]]
      BY <1>1
    <3>2. [call[c] EXCEPT !.pc = "claiming", !.found = f] \in CallRecord
      BY <2>1, CallMoves
    <3> QED BY <2>1, <3>1, <3>2
  <2> QED BY <1>1, <2>2 DEF CallRecord
<1>3. AsksForOne'
  BY <1>1 DEF AsksForOne, UnderLock
<1>4. AnswersUnderLock'
  BY <1>1 DEF AnswersUnderLock, AsksForOne, UnderLock
<1>5. HoldsNone'
  BY <1>1 DEF HoldsNone, Unlocked, UnderLock
<1>6. LocksInOrder'
  BY <1>1 DEF LocksInOrder, HoldsNone, Unlocked, Locking
<1>7. ClaimStands'
  BY <1>1 DEF ClaimStands, Locking
<1>8. StartsOnce' /\ FoundOpen'
  BY <1>1 DEF StartsOnce, Matched, FoundOpen, ClaimStands, Locking
<1>9. Creation!NoHelpInAGame'
  BY <1>1 DEF Creation!NoHelpInAGame, Creation!Eligible, Creation!Playing, UnderLock, AnswersUnderLock
<1> QED BY <1>2, <1>3, <1>4, <1>5, <1>6, <1>7, <1>8, <1>9

LEMMA ClaimCoordinated ==
  ASSUME CreationInv, NEW c \in Call, Creation!Claim(c)
  PROVE  CreationInv'
<1> USE ApiAssumptions DEF Creation!Assumptions, CreationInv, Creation!TypeOK, Creation!SeekState, Creation!Found
<1>1. CASE Creation!Claimable(c)
<2>1. /\ call[c].pc = "claiming"
      /\ call[c].seek \in Seek
      /\ seek[call[c].seek].state = "open"
      /\ claimed[call[c].seek] = Nobody
      /\ claimed' = [claimed EXCEPT ![call[c].seek] = c]
      /\ call' = [call EXCEPT ![c] = [call[c] EXCEPT !.pc = "locking", !.found = "open"]]
      /\ UNCHANGED <<seek, old, games, playerLock>>
  BY <1>1 DEF Creation!Claim, Creation!Do, Creation!Idle, Creation!Claimable, ClaimStands
<2>2. Creation!TypeOK'
  <3>1. claimed' \in [Seek -> Call \cup {Nobody}]
    BY <2>1
  <3>2. call' \in [Call -> CallRecord]
    <4>1. call \in [Call -> CallRecord]
      BY DEF CallRecord
    <4>2. [call[c] EXCEPT !.pc = "locking", !.found = "open"] \in CallRecord
      BY <4>1, CallMoves
    <4> QED BY <2>1, <4>1, <4>2
  <3> QED BY <2>1, <3>1, <3>2 DEF CallRecord, SeekRow
<2>3. AsksForOne'
  BY <2>1, <1>1 DEF AsksForOne, UnderLock
<2>4. AnswersUnderLock'
  BY <2>1, <1>1 DEF AnswersUnderLock, AsksForOne, UnderLock
<2>5. HoldsNone'
  BY <2>1, <1>1 DEF HoldsNone, Unlocked, UnderLock
<2>6. LocksInOrder'
  BY <2>1, <1>1 DEF LocksInOrder, HoldsNone, Unlocked, Locking
<2>7. ClaimStands'
  BY <2>1, <1>1 DEF ClaimStands, Locking
<2>8. StartsOnce' /\ FoundOpen'
  BY <2>1, <1>1 DEF StartsOnce, Matched, FoundOpen, ClaimStands, Locking
<2>9. Creation!NoHelpInAGame'
  BY <2>1, <1>1 DEF Creation!NoHelpInAGame, Creation!Eligible, Creation!Playing, UnderLock, AnswersUnderLock
<2> QED BY <2>2, <2>3, <2>4, <2>5, <2>6, <2>7, <2>8, <2>9
<1>2. CASE ~Creation!Claimable(c)
<2>1. /\ call[c].pc = "claiming"
      /\ call' = [call EXCEPT ![c] = [pc |-> "idle", seek |-> NoSeek, players |-> {}, found |-> "nothing"]]
      /\ UNCHANGED <<seek, old, games, claimed, playerLock>>
  BY <1>2 DEF Creation!Claim, Creation!Do, Creation!Idle, Creation!Claimable, ClaimStands
<2>2. Creation!TypeOK'
  BY <2>1, <1>2
<2>3. AsksForOne'
  BY <2>1, <1>2 DEF AsksForOne, UnderLock
<2>4. AnswersUnderLock'
  BY <2>1, <1>2 DEF AnswersUnderLock, AsksForOne, UnderLock
<2>5. HoldsNone'
  BY <2>1, <1>2 DEF HoldsNone, Unlocked, UnderLock
<2>6. LocksInOrder'
  BY <2>1, <1>2 DEF LocksInOrder, HoldsNone, Unlocked, Locking
<2>7. ClaimStands'
  BY <2>1, <1>2 DEF ClaimStands, Locking
<2>8. StartsOnce' /\ FoundOpen'
  BY <2>1, <1>2 DEF StartsOnce, Matched, FoundOpen, ClaimStands, Locking
<2>9. Creation!NoHelpInAGame'
  BY <2>1, <1>2 DEF Creation!NoHelpInAGame, Creation!Eligible, Creation!Playing, UnderLock, AnswersUnderLock
<2> QED BY <2>2, <2>3, <2>4, <2>5, <2>6, <2>7, <2>8, <2>9
<1> QED BY <1>1, <1>2

LEMMA CreateCoordinated ==
  ASSUME CreationInv, NEW c \in Call, NEW p \in Player, NEW q \in Player, Creation!Create(c, {p, q})
  PROVE  CreationInv'
<1> USE ApiAssumptions DEF Creation!Assumptions, CreationInv, Creation!TypeOK, Creation!SeekState, Creation!Found
<1>1. /\ call[c].pc = "idle"
      /\ call' = [call EXCEPT ![c] = [[pc |-> "idle", seek |-> NoSeek, players |-> {}, found |-> "nothing"]
                             EXCEPT !.pc = "locking", !.players = {p, q}]]
      /\ UNCHANGED <<seek, old, games, claimed, playerLock>>
  BY DEF Creation!Create, Creation!Do, Creation!Idle, Creation!lobby
<1>2. Creation!TypeOK'
  BY <1>1
<1>3. AsksForOne'
  BY <1>1 DEF AsksForOne, UnderLock
<1>4. AnswersUnderLock'
  BY <1>1 DEF AnswersUnderLock, AsksForOne, UnderLock
<1>5. HoldsNone'
  BY <1>1 DEF HoldsNone, Unlocked, UnderLock
<1>6. LocksInOrder'
  BY <1>1 DEF LocksInOrder, HoldsNone, Unlocked, Locking
<1>7. ClaimStands'
  BY <1>1 DEF ClaimStands, Locking
<1>8. StartsOnce' /\ FoundOpen'
  BY <1>1 DEF StartsOnce, Matched, FoundOpen, ClaimStands, Locking
<1>9. Creation!NoHelpInAGame'
  BY <1>1 DEF Creation!NoHelpInAGame, Creation!Eligible, Creation!Playing, UnderLock, AnswersUnderLock
<1> QED BY <1>2, <1>3, <1>4, <1>5, <1>6, <1>7, <1>8, <1>9

LEMMA LockPlayerCoordinated ==
  ASSUME CreationInv, NEW c \in Call, Creation!LockPlayer(c)
  PROVE  CreationInv'
<1> USE ApiAssumptions DEF Creation!Assumptions, CreationInv, Creation!TypeOK, Creation!SeekState, Creation!Found
<1>0. PICK p \in Creation!Missing(c) : /\ call[c].pc = "locking" /\ \A q \in Creation!Missing(c) : p <= q
        /\ playerLock[p] = Nobody /\ playerLock' = [playerLock EXCEPT ![p] = c]
        /\ UNCHANGED <<seek, old, claimed, games, call>>
  BY DEF Creation!LockPlayer, Creation!lobby
<1>1. /\ call[c].pc = "locking"
      /\ p \in Player /\ p \in Creation!MustLock(call[c].players)
      /\ \A q \in Creation!MustLock(call[c].players) : q < p => playerLock[q] = c
      /\ playerLock[p] = Nobody
      /\ playerLock' = [playerLock EXCEPT ![p] = c]
      /\ UNCHANGED <<seek, old, games, claimed, call>>
  BY <1>0 DEF Creation!Missing, Creation!MustLock, Creation!HumanPlayers
<1>2. Creation!TypeOK'
  BY <1>1, <1>0
<1>3. AsksForOne'
  BY <1>1, <1>0 DEF AsksForOne, UnderLock
<1>4. AnswersUnderLock'
  BY <1>1, <1>0 DEF AnswersUnderLock, AsksForOne, UnderLock
<1>5. HoldsNone'
  BY <1>1, <1>0 DEF HoldsNone, Unlocked, UnderLock
<1>6. LocksInOrder'
  BY <1>1, <1>0 DEF LocksInOrder, HoldsNone, Unlocked, Locking
<1>7. ClaimStands'
  BY <1>1, <1>0 DEF ClaimStands, Locking
<1>8. StartsOnce' /\ FoundOpen'
  BY <1>1, <1>0 DEF StartsOnce, Matched, FoundOpen, ClaimStands, Locking
<1>9. Creation!NoHelpInAGame'
  BY <1>1, <1>0 DEF Creation!NoHelpInAGame, Creation!Eligible, Creation!Playing, UnderLock, AnswersUnderLock
<1> QED BY <1>2, <1>3, <1>4, <1>5, <1>6, <1>7, <1>8, <1>9

LEMMA LockTimesOutCoordinated ==
  ASSUME CreationInv, NEW c \in Call, Creation!LockTimesOut(c)
  PROVE  CreationInv'
<1> USE ApiAssumptions DEF Creation!Assumptions, CreationInv, Creation!TypeOK, Creation!SeekState, Creation!Found
<1>1. CASE call' = [call EXCEPT ![c] = [pc |-> "idle", seek |-> NoSeek, players |-> {}, found |-> "nothing"]]
<2>1. /\ call[c].pc = "locking"
      /\ claimed' = [s \in Seek |-> IF claimed[s] = c THEN Nobody ELSE claimed[s]]
      /\ playerLock' = [p \in Player |-> IF playerLock[p] = c THEN Nobody ELSE playerLock[p]]
      /\ call' = [call EXCEPT ![c] = [pc |-> "idle", seek |-> NoSeek, players |-> {}, found |-> "nothing"]]
      /\ UNCHANGED <<seek, old, games>>
  BY <1>1 DEF Creation!LockTimesOut, Creation!Unclaimed, Creation!Unlocked, Creation!Do, Creation!Idle
<2>2. Creation!TypeOK'
  BY <2>1, <1>1
<2>3. AsksForOne'
  BY <2>1, <1>1 DEF AsksForOne, UnderLock
<2>4. AnswersUnderLock'
  BY <2>1, <1>1 DEF AnswersUnderLock, AsksForOne, UnderLock
<2>5. HoldsNone'
  BY <2>1, <1>1 DEF HoldsNone, Unlocked, UnderLock
<2>6. LocksInOrder'
  <3>1. SUFFICES ASSUME NEW d \in Call, Locking(d)', NEW q \in Player, playerLock'[q] = d
               PROVE  /\ q \in Creation!MustLock(call'[d].players)
                      /\ \A r \in Creation!MustLock(call'[d].players) : r < q => playerLock'[r] = d
    BY DEF LocksInOrder
  <3>2. d # c
    BY <2>1, <3>1, ApiAssumptions
  <3>3. Locking(d) /\ call'[d] = call[d] /\ playerLock[q] = d
    BY <2>1, <3>1, <3>2 DEF Locking
  <3>4. /\ q \in Creation!MustLock(call[d].players)
        /\ \A r \in Creation!MustLock(call[d].players) : r < q => playerLock[r] = d
    BY <3>3 DEF LocksInOrder
  <3>5. Creation!MustLock(call[d].players) \subseteq Player
    BY DEF Creation!MustLock, Creation!HumanPlayers
  <3>6. \A r \in Player : playerLock[r] = d => playerLock'[r] = d
    BY <2>1, <3>2
  <3> QED BY <3>3, <3>4, <3>5, <3>6
<2>7. ClaimStands'
  BY <2>1, <1>1 DEF ClaimStands, Locking
<2>8. StartsOnce' /\ FoundOpen'
  BY <2>1, <1>1 DEF StartsOnce, Matched, FoundOpen, ClaimStands, Locking
<2>9. Creation!NoHelpInAGame'
  BY <2>1, <1>1 DEF Creation!NoHelpInAGame, Creation!Eligible, Creation!Playing, UnderLock, AnswersUnderLock
<2> QED BY <2>2, <2>3, <2>4, <2>5, <2>6, <2>7, <2>8, <2>9
<1>2. CASE call[c].seek = NoSeek /\ call' = [call EXCEPT ![c] = [call[c] EXCEPT !.pc = "locking"]]
<2>1. /\ call[c].pc = "locking"
      /\ claimed' = [s \in Seek |-> IF claimed[s] = c THEN Nobody ELSE claimed[s]]
      /\ playerLock' = [p \in Player |-> IF playerLock[p] = c THEN Nobody ELSE playerLock[p]]
      /\ call' = [call EXCEPT ![c] = [call[c] EXCEPT !.pc = "locking"]]
      /\ UNCHANGED <<seek, old, games>>
  BY <1>2 DEF Creation!LockTimesOut, Creation!Unclaimed, Creation!Unlocked, Creation!Do, Creation!Idle
<2>2. Creation!TypeOK'
  BY <2>1, <1>2
<2>3. AsksForOne'
  BY <2>1, <1>2 DEF AsksForOne, UnderLock
<2>4. AnswersUnderLock'
  BY <2>1, <1>2 DEF AnswersUnderLock, AsksForOne, UnderLock
<2>5. HoldsNone'
  BY <2>1, <1>2 DEF HoldsNone, Unlocked, UnderLock
<2>6. LocksInOrder'
  <3>1. SUFFICES ASSUME NEW d \in Call, Locking(d)', NEW q \in Player, playerLock'[q] = d
               PROVE  /\ q \in Creation!MustLock(call'[d].players)
                      /\ \A r \in Creation!MustLock(call'[d].players) : r < q => playerLock'[r] = d
    BY DEF LocksInOrder
  <3>2. d # c
    BY <2>1, <3>1, ApiAssumptions
  <3>3. Locking(d) /\ call'[d] = call[d] /\ playerLock[q] = d
    BY <2>1, <3>1, <3>2 DEF Locking
  <3>4. /\ q \in Creation!MustLock(call[d].players)
        /\ \A r \in Creation!MustLock(call[d].players) : r < q => playerLock[r] = d
    BY <3>3 DEF LocksInOrder
  <3>5. Creation!MustLock(call[d].players) \subseteq Player
    BY DEF Creation!MustLock, Creation!HumanPlayers
  <3>6. \A r \in Player : playerLock[r] = d => playerLock'[r] = d
    BY <2>1, <3>2
  <3> QED BY <3>3, <3>4, <3>5, <3>6
<2>7. ClaimStands'
  BY <2>1, <1>2 DEF ClaimStands, Locking
<2>8. StartsOnce' /\ FoundOpen'
  BY <2>1, <1>2 DEF StartsOnce, Matched, FoundOpen, ClaimStands, Locking
<2>9. Creation!NoHelpInAGame'
  BY <2>1, <1>2 DEF Creation!NoHelpInAGame, Creation!Eligible, Creation!Playing, UnderLock, AnswersUnderLock
<2> QED BY <2>2, <2>3, <2>4, <2>5, <2>6, <2>7, <2>8, <2>9
<1>3. CASE call[c].seek # NoSeek /\ call' = [call EXCEPT ![c] = [call[c] EXCEPT !.pc = "accepting"]]
<2>1. /\ call[c].pc = "locking"
      /\ claimed' = [s \in Seek |-> IF claimed[s] = c THEN Nobody ELSE claimed[s]]
      /\ playerLock' = [p \in Player |-> IF playerLock[p] = c THEN Nobody ELSE playerLock[p]]
      /\ call' = [call EXCEPT ![c] = [call[c] EXCEPT !.pc = "accepting"]]
      /\ UNCHANGED <<seek, old, games>>
  BY <1>3 DEF Creation!LockTimesOut, Creation!Unclaimed, Creation!Unlocked, Creation!Do, Creation!Idle
<2>2. Creation!TypeOK'
  <3>1. claimed' \in [Seek -> Call \cup {Nobody}] /\ playerLock' \in [Player -> Call \cup {Nobody}]
    BY <2>1
  <3>2. call' \in [Call -> CallRecord]
    BY <2>1 DEF CallRecord
  <3> QED BY <2>1, <3>1, <3>2 DEF CallRecord, SeekRow
<2>3. AsksForOne'
  BY <2>1, <1>3 DEF AsksForOne, UnderLock
<2>4. AnswersUnderLock'
  BY <2>1, <1>3 DEF AnswersUnderLock, AsksForOne, UnderLock
<2>5. HoldsNone'
  BY <2>1, <1>3 DEF HoldsNone, Unlocked, UnderLock
<2>6. LocksInOrder'
  <3>1. SUFFICES ASSUME NEW d \in Call, Locking(d)', NEW q \in Player, playerLock'[q] = d
               PROVE  /\ q \in Creation!MustLock(call'[d].players)
                      /\ \A r \in Creation!MustLock(call'[d].players) : r < q => playerLock'[r] = d
    BY DEF LocksInOrder
  <3>2. d # c
    BY <2>1, <3>1, ApiAssumptions
  <3>3. Locking(d) /\ call'[d] = call[d] /\ playerLock[q] = d
    BY <2>1, <3>1, <3>2 DEF Locking
  <3>4. /\ q \in Creation!MustLock(call[d].players)
        /\ \A r \in Creation!MustLock(call[d].players) : r < q => playerLock[r] = d
    BY <3>3 DEF LocksInOrder
  <3>5. Creation!MustLock(call[d].players) \subseteq Player
    BY DEF Creation!MustLock, Creation!HumanPlayers
  <3>6. \A r \in Player : playerLock[r] = d => playerLock'[r] = d
    BY <2>1, <3>2
  <3> QED BY <3>3, <3>4, <3>5, <3>6
<2>7. ClaimStands'
  BY <2>1, <1>3 DEF ClaimStands, Locking
<2>8. StartsOnce' /\ FoundOpen'
  BY <2>1, <1>3 DEF StartsOnce, Matched, FoundOpen, ClaimStands, Locking
<2>9. Creation!NoHelpInAGame'
  BY <2>1, <1>3 DEF Creation!NoHelpInAGame, Creation!Eligible, Creation!Playing, UnderLock, AnswersUnderLock
<2> QED BY <2>2, <2>3, <2>4, <2>5, <2>6, <2>7, <2>8, <2>9
<1> QED BY <1>1, <1>2, <1>3 DEF Creation!LockTimesOut, Creation!Unclaimed, Creation!Unlocked, Creation!Do, Creation!Idle

LEMMA CommitGameCoordinated ==
  ASSUME CreationInv, NEW c \in Call, Creation!CommitGame(c)
  PROVE  CreationInv'
<1> USE ApiAssumptions DEF Creation!Assumptions, CreationInv, Creation!TypeOK, Creation!SeekState, Creation!Found
<1>0. /\ games' \in Games /\ Len(games') <= MaxGames
      /\ Grown(c)
  <2> DEFINE new == [players |-> call[c].players, seek |-> call[c].seek, found |-> call[c].found, over |-> FALSE]
  <2>1. games \in Games /\ Len(games) < MaxGames /\ games' = Append(games, new)
    BY DEF Creation!CommitGame, Games, OneGame
  <2>2. new \in OneGame
    BY DEF OneGame
  <2>3. new.players = call[c].players /\ new.seek = call[c].seek /\ new.found = call[c].found
    OBVIOUS
  <2> HIDE DEF new
  <2>4. /\ games' \in Games /\ Len(games') = Len(games) + 1 /\ games'[Len(games) + 1] = new
        /\ DOMAIN games' = DOMAIN games \cup {Len(games) + 1} /\ Len(games) + 1 \notin DOMAIN games
        /\ Len(games) + 1 \in Nat
        /\ \A g \in DOMAIN games : games'[g] = games[g]
    BY <2>1, <2>2 DEF Games
  <2> DEFINE n == Len(games) + 1
  <2> HIDE DEF n
  <2>5. /\ n \in Nat /\ n \notin DOMAIN games /\ DOMAIN games' = DOMAIN games \cup {n}
        /\ games'[n] = new /\ \A g \in DOMAIN games : games'[g] = games[g]
    BY <2>4 DEF n
  <2>6. Grown(c)
    BY <2>3, <2>5 DEF Grown
  <2> QED BY <2>1, <2>4, <2>6

<1>1. /\ call[c].pc = "locking"
      /\ \A q \in Creation!MustLock(call[c].players) : playerLock[q] = c
      /\ seek' = [s \in Seek |-> IF s = call[c].seek /\ seek[s].state = "open"
                                 THEN [seek[s] EXCEPT !.state = "accepted"] ELSE seek[s]]
      /\ claimed' = [s \in Seek |-> IF claimed[s] = c THEN Nobody ELSE claimed[s]]
      /\ playerLock' = [p \in Player |-> IF playerLock[p] = c THEN Nobody ELSE playerLock[p]]
      /\ call' = [call EXCEPT ![c] = [pc |-> "idle", seek |-> NoSeek, players |-> {}, found |-> "nothing"]]
      /\ UNCHANGED old
  BY DEF Creation!CommitGame, Creation!Unclaimed, Creation!Unlocked, Creation!Do, Creation!Idle, Creation!Missing
<1>2. Creation!TypeOK'
  <2>1. seek' \in [Seek -> SeekRow]
    <3>1. \A s \in Seek : seek[s] \in SeekRow
      BY DEF SeekRow
    <3>2. \A s \in Seek : [seek[s] EXCEPT !.state = "accepted"] \in SeekRow
      BY <3>1, SeekRowMoves
    <3>3. \A s \in Seek : seek'[s] \in SeekRow
      BY <1>1, <3>1, <3>2
    <3> QED BY <1>1, <3>3 DEF SeekRow
  <2>2. claimed' \in [Seek -> Call \cup {Nobody}] /\ playerLock' \in [Player -> Call \cup {Nobody}]
    BY <1>1
  <2>3. call' \in [Call -> CallRecord]
    BY <1>1 DEF CallRecord
  <2> QED BY <1>0, <1>1, <2>1, <2>2, <2>3 DEF Games, OneGame, SeekRow, CallRecord
<1>3. AsksForOne'
  BY <1>1 DEF AsksForOne, UnderLock
<1>4. AnswersUnderLock'
  BY <1>1 DEF AnswersUnderLock, AsksForOne, UnderLock
<1>5. HoldsNone'
  BY <1>1 DEF HoldsNone, Unlocked, UnderLock
<1>6. LocksInOrder'
  <2>1. SUFFICES ASSUME NEW d \in Call, Locking(d)', NEW q \in Player, playerLock'[q] = d
               PROVE  /\ q \in Creation!MustLock(call'[d].players)
                      /\ \A r \in Creation!MustLock(call'[d].players) : r < q => playerLock'[r] = d
    BY DEF LocksInOrder
  <2>2. d # c
    BY <1>1, <2>1, ApiAssumptions
  <2>3. Locking(d) /\ call'[d] = call[d] /\ playerLock[q] = d
    BY <1>1, <2>1, <2>2 DEF Locking
  <2>4. /\ q \in Creation!MustLock(call[d].players)
        /\ \A r \in Creation!MustLock(call[d].players) : r < q => playerLock[r] = d
    BY <2>3 DEF LocksInOrder
  <2>5. Creation!MustLock(call[d].players) \subseteq Player
    BY DEF Creation!MustLock, Creation!HumanPlayers
  <2>6. \A r \in Player : playerLock[r] = d => playerLock'[r] = d
    BY <1>1, <2>2
  <2> QED BY <2>3, <2>4, <2>5, <2>6
<1>7. ClaimStands'
  BY <1>1 DEF ClaimStands, Locking
<1>8. StartsOnce'
  <2> DEFINE s == call[c].seek
  <2>1. PICK n \in Nat : /\ n \notin DOMAIN games /\ DOMAIN games' = DOMAIN games \cup {n}
                        /\ games'[n].seek = s /\ \A g \in DOMAIN games : games'[g] = games[g]
    BY <1>0 DEF Grown
  <2>2. \A t \in Seek : t # s => seek'[t] = seek[t]
    BY <1>1
  <2>3. s \in Seek => seek[s].state = "open" /\ seek'[s].state = "accepted"
    BY <1>1 DEF ClaimStands, Locking
  <2> HIDE DEF s
  <2>4. SUFFICES ASSUME NEW t \in Seek
               PROVE  IF Matched(seek'[t])
                      THEN \E g \in DOMAIN games' : /\ games'[g].seek = t
                                                   /\ \A h \in DOMAIN games' : games'[h].seek = t => h = g
                      ELSE \A g \in DOMAIN games' : games'[g].seek # t
    BY DEF StartsOnce
  <2>5. CASE t = s
    <3>1. \A g \in DOMAIN games : games[g].seek # t
      BY <2>3, <2>5 DEF StartsOnce, Matched
    <3> QED BY <2>1, <2>3, <2>5, <3>1 DEF Matched
  <2>6. CASE t # s
    <3>1. IF Matched(seek'[t])
          THEN \E g \in DOMAIN games : games[g].seek = t /\ \A h \in DOMAIN games : games[h].seek = t => h = g
          ELSE \A g \in DOMAIN games : games[g].seek # t
      BY <2>2, <2>6 DEF StartsOnce
    <3>2. \A g \in DOMAIN games' : games'[g].seek = t => g \in DOMAIN games /\ games[g].seek = t
      BY <2>1, <2>6
    <3>3. \A g \in DOMAIN games : g \in DOMAIN games' /\ games'[g].seek = games[g].seek
      BY <2>1
    <3> QED BY <3>1, <3>2, <3>3
  <2> QED BY <2>5, <2>6
<1>9. Creation!NoHelpInAGame'
  <2>1. PICK n \in Nat : /\ n \notin DOMAIN games /\ DOMAIN games' = DOMAIN games \cup {n}
                        /\ games'[n].players = call[c].players /\ \A g \in DOMAIN games : games'[g] = games[g]
    BY <1>0 DEF Grown
  <2>2. SUFFICES ASSUME NEW d \in Call, call'[d].pc \in {"working", "answering"}, NEW p \in call'[d].players,
                        NEW g \in DOMAIN games', ~games'[g].over, p \in Creation!HumanPlayers(games'[g].players)
               PROVE  FALSE
    BY DEF Creation!NoHelpInAGame, Creation!Eligible, Creation!Playing
  <2>3. d # c /\ call'[d] = call[d] /\ p \in Player
    BY <1>1, <2>2
  <2>4. playerLock[p] = d
    BY <2>2, <2>3 DEF AnswersUnderLock, UnderLock
  <2>5. CASE g \in DOMAIN games
    BY <2>1, <2>2, <2>3, <2>5 DEF Creation!NoHelpInAGame, Creation!Eligible, Creation!Playing
  <2>6. CASE g = n
    BY <1>1, <2>1, <2>2, <2>3, <2>4, <2>6 DEF Creation!MustLock
  <2> QED BY <2>1, <2>5, <2>6
<1>10. FoundOpen'
  <2>1. PICK n \in Nat : /\ n \notin DOMAIN games /\ DOMAIN games' = DOMAIN games \cup {n}
                        /\ games'[n].seek = call[c].seek /\ games'[n].found = call[c].found
                        /\ \A g \in DOMAIN games : games'[g] = games[g]
    BY <1>0 DEF Grown
  <2>2. call[c].seek # NoSeek => call[c].found = "open"
    BY <1>1 DEF ClaimStands, Locking
  <2> QED BY <2>1, <2>2 DEF FoundOpen
<1> QED BY <1>2, <1>3, <1>4, <1>5, <1>6, <1>7, <1>8, <1>9, <1>10

LEMMA EndGameCoordinated ==
  ASSUME CreationInv, NEW g \in DOMAIN games, Creation!EndGame(g)
  PROVE  CreationInv'
<1> USE ApiAssumptions DEF Creation!Assumptions, CreationInv, Creation!TypeOK, Creation!SeekState, Creation!Found
<1>1. /\ games' = [games EXCEPT ![g].over = TRUE]
      /\ UNCHANGED <<seek, old, claimed, playerLock, call>>
  BY DEF Creation!EndGame, Creation!lobby
<1>2. Creation!TypeOK'
  <2>1. games \in Games
    BY DEF Games, OneGame
  <2>2. games' \in Games /\ Len(games') = Len(games)
    BY <1>1, <2>1, GameEnds
  <2> QED BY <1>1, <2>2 DEF Games, OneGame
<1>3. AsksForOne'
  BY <1>1 DEF AsksForOne, UnderLock
<1>4. AnswersUnderLock'
  BY <1>1 DEF AnswersUnderLock, AsksForOne, UnderLock
<1>5. HoldsNone'
  BY <1>1 DEF HoldsNone, Unlocked, UnderLock
<1>6. LocksInOrder'
  BY <1>1 DEF LocksInOrder, HoldsNone, Unlocked, Locking
<1>7. ClaimStands'
  BY <1>1 DEF ClaimStands, Locking
<1>8. StartsOnce' /\ FoundOpen'
  BY <1>1 DEF StartsOnce, Matched, FoundOpen, ClaimStands, Locking
<1>9. Creation!NoHelpInAGame'
  BY <1>1 DEF Creation!NoHelpInAGame, Creation!Eligible, Creation!Playing, UnderLock, AnswersUnderLock
<1> QED BY <1>2, <1>3, <1>4, <1>5, <1>6, <1>7, <1>8, <1>9

LEMMA AskToReadCoordinated ==
  ASSUME CreationInv, NEW c \in Call, NEW p \in Player, Creation!AskToRead(c, p)
  PROVE  CreationInv'
<1> USE ApiAssumptions DEF Creation!Assumptions, CreationInv, Creation!TypeOK, Creation!SeekState, Creation!Found
<1>1. /\ call[c].pc = "idle"
      /\ call' = [call EXCEPT ![c] = [[pc |-> "idle", seek |-> NoSeek, players |-> {}, found |-> "nothing"] EXCEPT !.pc = "computing", !.players = {p}]]
      /\ UNCHANGED <<seek, old, games, claimed, playerLock>>
  BY DEF Creation!AskToRead, Creation!lobby, Creation!Do, Creation!Idle
<1>2. Creation!TypeOK'
  BY <1>1
<1>3. AsksForOne'
  BY <1>1 DEF AsksForOne, UnderLock
<1>4. AnswersUnderLock'
  BY <1>1 DEF AnswersUnderLock, AsksForOne, UnderLock
<1>5. HoldsNone'
  BY <1>1 DEF HoldsNone, Unlocked, UnderLock
<1>6. LocksInOrder'
  BY <1>1 DEF LocksInOrder, HoldsNone, Unlocked, Locking
<1>7. ClaimStands'
  BY <1>1 DEF ClaimStands, Locking
<1>8. StartsOnce' /\ FoundOpen'
  BY <1>1 DEF StartsOnce, Matched, FoundOpen, ClaimStands, Locking
<1>9. Creation!NoHelpInAGame'
  BY <1>1 DEF Creation!NoHelpInAGame, Creation!Eligible, Creation!Playing, UnderLock, AnswersUnderLock
<1> QED BY <1>2, <1>3, <1>4, <1>5, <1>6, <1>7, <1>8, <1>9

LEMMA LockToAnswerCoordinated ==
  ASSUME CreationInv, NEW c \in Call, Creation!LockToAnswer(c)
  PROVE  CreationInv'
<1> USE ApiAssumptions DEF Creation!Assumptions, CreationInv, Creation!TypeOK, Creation!SeekState, Creation!Found
<1>0. PICK p \in Player : call[c].players = {p}
  BY DEF Creation!LockToAnswer, AsksForOne
<1>1. /\ call[c].pc = "computing"
      /\ playerLock[p] = Nobody
      /\ playerLock' = [playerLock EXCEPT ![p] = c]
      /\ call' = [call EXCEPT ![c] = [call[c] EXCEPT !.pc = "verifying"]]
      /\ UNCHANGED <<seek, old, games, claimed>>
  BY <1>0 DEF Creation!LockToAnswer, Creation!lobby, Creation!Do, Creation!Acquired
<1>2. Creation!TypeOK'
  BY <1>1, <1>0
<1>3. AsksForOne'
  BY <1>1, <1>0 DEF AsksForOne, UnderLock
<1>4. AnswersUnderLock'
  BY <1>1, <1>0 DEF AnswersUnderLock, AsksForOne, UnderLock
<1>5. HoldsNone'
  BY <1>1, <1>0 DEF HoldsNone, Unlocked, UnderLock
<1>6. LocksInOrder'
  BY <1>1, <1>0 DEF LocksInOrder, HoldsNone, Unlocked, Locking
<1>7. ClaimStands'
  BY <1>1, <1>0 DEF ClaimStands, Locking
<1>8. StartsOnce' /\ FoundOpen'
  BY <1>1, <1>0 DEF StartsOnce, Matched, FoundOpen, ClaimStands, Locking
<1>9. Creation!NoHelpInAGame'
  BY <1>1, <1>0 DEF Creation!NoHelpInAGame, Creation!Eligible, Creation!Playing, UnderLock, AnswersUnderLock
<1> QED BY <1>2, <1>3, <1>4, <1>5, <1>6, <1>7, <1>8, <1>9

LEMMA AskToWriteCoordinated ==
  ASSUME CreationInv, NEW c \in Call, NEW p \in Player, Creation!AskToWrite(c, p)
  PROVE  CreationInv'
<1> USE ApiAssumptions DEF Creation!Assumptions, CreationInv, Creation!TypeOK, Creation!SeekState, Creation!Found
<1>1. /\ call[c].pc = "idle"
      /\ playerLock[p] = Nobody
      /\ playerLock' = [playerLock EXCEPT ![p] = c]
      /\ call' = [call EXCEPT ![c] = [[pc |-> "idle", seek |-> NoSeek, players |-> {}, found |-> "nothing"] EXCEPT !.pc = "asking", !.players = {p}]]
      /\ UNCHANGED <<seek, old, games, claimed>>
  BY DEF Creation!AskToWrite, Creation!lobby, Creation!Do, Creation!Idle, Creation!Acquired
<1>2. Creation!TypeOK'
  BY <1>1
<1>3. AsksForOne'
  BY <1>1 DEF AsksForOne, UnderLock
<1>4. AnswersUnderLock'
  BY <1>1 DEF AnswersUnderLock, AsksForOne, UnderLock
<1>5. HoldsNone'
  BY <1>1 DEF HoldsNone, Unlocked, UnderLock
<1>6. LocksInOrder'
  BY <1>1 DEF LocksInOrder, HoldsNone, Unlocked, Locking
<1>7. ClaimStands'
  BY <1>1 DEF ClaimStands, Locking
<1>8. StartsOnce' /\ FoundOpen'
  BY <1>1 DEF StartsOnce, Matched, FoundOpen, ClaimStands, Locking
<1>9. Creation!NoHelpInAGame'
  BY <1>1 DEF Creation!NoHelpInAGame, Creation!Eligible, Creation!Playing, UnderLock, AnswersUnderLock
<1> QED BY <1>2, <1>3, <1>4, <1>5, <1>6, <1>7, <1>8, <1>9

LEMMA CheckToWorkCoordinated ==
  ASSUME CreationInv, NEW c \in Call, Creation!Check(c, "asking", "working")
  PROVE  CreationInv'
<1> USE ApiAssumptions DEF Creation!Assumptions, CreationInv, Creation!TypeOK, Creation!SeekState, Creation!Found
<1>1. CASE Creation!Eligible(c)
<2>1. /\ call[c].pc = "asking"
      /\ call' = [call EXCEPT ![c] = [call[c] EXCEPT !.pc = "working"]]
      /\ UNCHANGED <<seek, old, games, claimed, playerLock>>
  BY <1>1 DEF Creation!Check, Creation!lobby, Creation!Do, Creation!Idle, Creation!Unlocked
<2>2. Creation!TypeOK'
  BY <2>1, <1>1
<2>3. AsksForOne'
  BY <2>1, <1>1 DEF AsksForOne, UnderLock
<2>4. AnswersUnderLock'
  BY <2>1, <1>1 DEF AnswersUnderLock, AsksForOne, UnderLock
<2>5. HoldsNone'
  BY <2>1, <1>1 DEF HoldsNone, Unlocked, UnderLock
<2>6. LocksInOrder'
  BY <2>1, <1>1 DEF LocksInOrder, HoldsNone, Unlocked, Locking
<2>7. ClaimStands'
  BY <2>1, <1>1 DEF ClaimStands, Locking
<2>8. StartsOnce' /\ FoundOpen'
  BY <2>1, <1>1 DEF StartsOnce, Matched, FoundOpen, ClaimStands, Locking
<2>9. Creation!NoHelpInAGame'
  <3>1. \A p : Creation!Playing(p)' <=> Creation!Playing(p)
    BY <2>1 DEF Creation!Playing
  <3>2. \A d \in Call : /\ call'[d].players = call[d].players
                        /\ call'[d].pc \in {"working", "answering"} => d = c \/ call[d].pc \in {"working", "answering"}
    BY <2>1
  <3> QED BY <1>1, <3>1, <3>2 DEF Creation!NoHelpInAGame, Creation!Eligible
<2> QED BY <2>2, <2>3, <2>4, <2>5, <2>6, <2>7, <2>8, <2>9
<1>2. CASE ~Creation!Eligible(c)
<2>1. /\ call[c].pc = "asking"
      /\ playerLock' = [p \in Player |-> IF playerLock[p] = c THEN Nobody ELSE playerLock[p]]
      /\ call' = [call EXCEPT ![c] = [pc |-> "idle", seek |-> NoSeek, players |-> {}, found |-> "nothing"]]
      /\ UNCHANGED <<seek, old, games, claimed>>
  BY <1>2 DEF Creation!Check, Creation!lobby, Creation!Do, Creation!Idle, Creation!Unlocked
<2>2. Creation!TypeOK'
  BY <2>1, <1>2
<2>3. AsksForOne'
  BY <2>1, <1>2 DEF AsksForOne, UnderLock
<2>4. AnswersUnderLock'
  BY <2>1, <1>2 DEF AnswersUnderLock, AsksForOne, UnderLock
<2>5. HoldsNone'
  BY <2>1, <1>2 DEF HoldsNone, Unlocked, UnderLock
<2>6. LocksInOrder'
  <3>1. SUFFICES ASSUME NEW d \in Call, Locking(d)', NEW q \in Player, playerLock'[q] = d
               PROVE  /\ q \in Creation!MustLock(call'[d].players)
                      /\ \A r \in Creation!MustLock(call'[d].players) : r < q => playerLock'[r] = d
    BY DEF LocksInOrder
  <3>2. d # c
    BY <2>1, <3>1, ApiAssumptions
  <3>3. Locking(d) /\ call'[d] = call[d] /\ playerLock[q] = d
    BY <2>1, <3>1, <3>2 DEF Locking
  <3>4. /\ q \in Creation!MustLock(call[d].players)
        /\ \A r \in Creation!MustLock(call[d].players) : r < q => playerLock[r] = d
    BY <3>3 DEF LocksInOrder
  <3>5. Creation!MustLock(call[d].players) \subseteq Player
    BY DEF Creation!MustLock, Creation!HumanPlayers
  <3>6. \A r \in Player : playerLock[r] = d => playerLock'[r] = d
    BY <2>1, <3>2
  <3> QED BY <3>3, <3>4, <3>5, <3>6
<2>7. ClaimStands'
  BY <2>1, <1>2 DEF ClaimStands, Locking
<2>8. StartsOnce' /\ FoundOpen'
  BY <2>1, <1>2 DEF StartsOnce, Matched, FoundOpen, ClaimStands, Locking
<2>9. Creation!NoHelpInAGame'
  BY <2>1, <1>2 DEF Creation!NoHelpInAGame, Creation!Eligible, Creation!Playing, UnderLock, AnswersUnderLock
<2> QED BY <2>2, <2>3, <2>4, <2>5, <2>6, <2>7, <2>8, <2>9
<1> QED BY <1>1, <1>2

LEMMA WorkCoordinated ==
  ASSUME CreationInv, NEW c \in Call, Creation!Work(c)
  PROVE  CreationInv'
<1> USE ApiAssumptions DEF Creation!Assumptions, CreationInv, Creation!TypeOK, Creation!SeekState, Creation!Found
<1>1. /\ call[c].pc = "working"
      /\ call' = [call EXCEPT ![c] = [call[c] EXCEPT !.pc = "verifying"]]
      /\ UNCHANGED <<seek, old, games, claimed, playerLock>>
  BY DEF Creation!Work, Creation!lobby, Creation!Do
<1>2. Creation!TypeOK'
  BY <1>1
<1>3. AsksForOne'
  BY <1>1 DEF AsksForOne, UnderLock
<1>4. AnswersUnderLock'
  BY <1>1 DEF AnswersUnderLock, AsksForOne, UnderLock
<1>5. HoldsNone'
  BY <1>1 DEF HoldsNone, Unlocked, UnderLock
<1>6. LocksInOrder'
  BY <1>1 DEF LocksInOrder, HoldsNone, Unlocked, Locking
<1>7. ClaimStands'
  BY <1>1 DEF ClaimStands, Locking
<1>8. StartsOnce' /\ FoundOpen'
  BY <1>1 DEF StartsOnce, Matched, FoundOpen, ClaimStands, Locking
<1>9. Creation!NoHelpInAGame'
  BY <1>1 DEF Creation!NoHelpInAGame, Creation!Eligible, Creation!Playing, UnderLock, AnswersUnderLock
<1> QED BY <1>2, <1>3, <1>4, <1>5, <1>6, <1>7, <1>8, <1>9

LEMMA CheckToAnswerCoordinated ==
  ASSUME CreationInv, NEW c \in Call, Creation!Check(c, "verifying", "answering")
  PROVE  CreationInv'
<1> USE ApiAssumptions DEF Creation!Assumptions, CreationInv, Creation!TypeOK, Creation!SeekState, Creation!Found
<1>1. CASE Creation!Eligible(c)
<2>1. /\ call[c].pc = "verifying"
      /\ call' = [call EXCEPT ![c] = [call[c] EXCEPT !.pc = "answering"]]
      /\ UNCHANGED <<seek, old, games, claimed, playerLock>>
  BY <1>1 DEF Creation!Check, Creation!lobby, Creation!Do, Creation!Idle, Creation!Unlocked
<2>2. Creation!TypeOK'
  BY <2>1, <1>1
<2>3. AsksForOne'
  BY <2>1, <1>1 DEF AsksForOne, UnderLock
<2>4. AnswersUnderLock'
  BY <2>1, <1>1 DEF AnswersUnderLock, AsksForOne, UnderLock
<2>5. HoldsNone'
  BY <2>1, <1>1 DEF HoldsNone, Unlocked, UnderLock
<2>6. LocksInOrder'
  BY <2>1, <1>1 DEF LocksInOrder, HoldsNone, Unlocked, Locking
<2>7. ClaimStands'
  BY <2>1, <1>1 DEF ClaimStands, Locking
<2>8. StartsOnce' /\ FoundOpen'
  BY <2>1, <1>1 DEF StartsOnce, Matched, FoundOpen, ClaimStands, Locking
<2>9. Creation!NoHelpInAGame'
  <3>1. \A p : Creation!Playing(p)' <=> Creation!Playing(p)
    BY <2>1 DEF Creation!Playing
  <3>2. \A d \in Call : /\ call'[d].players = call[d].players
                        /\ call'[d].pc \in {"working", "answering"} => d = c \/ call[d].pc \in {"working", "answering"}
    BY <2>1
  <3> QED BY <1>1, <3>1, <3>2 DEF Creation!NoHelpInAGame, Creation!Eligible
<2> QED BY <2>2, <2>3, <2>4, <2>5, <2>6, <2>7, <2>8, <2>9
<1>2. CASE ~Creation!Eligible(c)
<2>1. /\ call[c].pc = "verifying"
      /\ playerLock' = [p \in Player |-> IF playerLock[p] = c THEN Nobody ELSE playerLock[p]]
      /\ call' = [call EXCEPT ![c] = [pc |-> "idle", seek |-> NoSeek, players |-> {}, found |-> "nothing"]]
      /\ UNCHANGED <<seek, old, games, claimed>>
  BY <1>2 DEF Creation!Check, Creation!lobby, Creation!Do, Creation!Idle, Creation!Unlocked
<2>2. Creation!TypeOK'
  BY <2>1, <1>2
<2>3. AsksForOne'
  BY <2>1, <1>2 DEF AsksForOne, UnderLock
<2>4. AnswersUnderLock'
  BY <2>1, <1>2 DEF AnswersUnderLock, AsksForOne, UnderLock
<2>5. HoldsNone'
  BY <2>1, <1>2 DEF HoldsNone, Unlocked, UnderLock
<2>6. LocksInOrder'
  <3>1. SUFFICES ASSUME NEW d \in Call, Locking(d)', NEW q \in Player, playerLock'[q] = d
               PROVE  /\ q \in Creation!MustLock(call'[d].players)
                      /\ \A r \in Creation!MustLock(call'[d].players) : r < q => playerLock'[r] = d
    BY DEF LocksInOrder
  <3>2. d # c
    BY <2>1, <3>1, ApiAssumptions
  <3>3. Locking(d) /\ call'[d] = call[d] /\ playerLock[q] = d
    BY <2>1, <3>1, <3>2 DEF Locking
  <3>4. /\ q \in Creation!MustLock(call[d].players)
        /\ \A r \in Creation!MustLock(call[d].players) : r < q => playerLock[r] = d
    BY <3>3 DEF LocksInOrder
  <3>5. Creation!MustLock(call[d].players) \subseteq Player
    BY DEF Creation!MustLock, Creation!HumanPlayers
  <3>6. \A r \in Player : playerLock[r] = d => playerLock'[r] = d
    BY <2>1, <3>2
  <3> QED BY <3>3, <3>4, <3>5, <3>6
<2>7. ClaimStands'
  BY <2>1, <1>2 DEF ClaimStands, Locking
<2>8. StartsOnce' /\ FoundOpen'
  BY <2>1, <1>2 DEF StartsOnce, Matched, FoundOpen, ClaimStands, Locking
<2>9. Creation!NoHelpInAGame'
  BY <2>1, <1>2 DEF Creation!NoHelpInAGame, Creation!Eligible, Creation!Playing, UnderLock, AnswersUnderLock
<2> QED BY <2>2, <2>3, <2>4, <2>5, <2>6, <2>7, <2>8, <2>9
<1> QED BY <1>1, <1>2

LEMMA AnswerCoordinated ==
  ASSUME CreationInv, NEW c \in Call, Creation!Answer(c)
  PROVE  CreationInv'
<1> USE ApiAssumptions DEF Creation!Assumptions, CreationInv, Creation!TypeOK, Creation!SeekState, Creation!Found
<1>1. /\ call[c].pc = "answering"
      /\ call' = [call EXCEPT ![c] = [call[c] EXCEPT !.pc = "answered"]]
      /\ UNCHANGED <<seek, old, games, claimed, playerLock>>
  BY DEF Creation!Answer, Creation!lobby, Creation!Do
<1>2. Creation!TypeOK'
  BY <1>1
<1>3. AsksForOne'
  BY <1>1 DEF AsksForOne, UnderLock
<1>4. AnswersUnderLock'
  BY <1>1 DEF AnswersUnderLock, AsksForOne, UnderLock
<1>5. HoldsNone'
  BY <1>1 DEF HoldsNone, Unlocked, UnderLock
<1>6. LocksInOrder'
  BY <1>1 DEF LocksInOrder, HoldsNone, Unlocked, Locking
<1>7. ClaimStands'
  BY <1>1 DEF ClaimStands, Locking
<1>8. StartsOnce' /\ FoundOpen'
  BY <1>1 DEF StartsOnce, Matched, FoundOpen, ClaimStands, Locking
<1>9. Creation!NoHelpInAGame'
  BY <1>1 DEF Creation!NoHelpInAGame, Creation!Eligible, Creation!Playing, UnderLock, AnswersUnderLock
<1> QED BY <1>2, <1>3, <1>4, <1>5, <1>6, <1>7, <1>8, <1>9

LEMMA AfterWriteCoordinated ==
  ASSUME CreationInv, NEW c \in Call, Creation!AfterWrite(c)
  PROVE  CreationInv'
<1> USE ApiAssumptions DEF Creation!Assumptions, CreationInv, Creation!TypeOK, Creation!SeekState, Creation!Found
<1>1. /\ call[c].pc = "answered"
      /\ playerLock' = [p \in Player |-> IF playerLock[p] = c THEN Nobody ELSE playerLock[p]]
      /\ call' = [call EXCEPT ![c] = [pc |-> "idle", seek |-> NoSeek, players |-> {}, found |-> "nothing"]]
      /\ UNCHANGED <<seek, old, games, claimed>>
  BY DEF Creation!AfterWrite, Creation!lobby, Creation!Do, Creation!Idle, Creation!Unlocked, Creation!KeptUntilWritten
<1>2. Creation!TypeOK'
  BY <1>1
<1>3. AsksForOne'
  BY <1>1 DEF AsksForOne, UnderLock
<1>4. AnswersUnderLock'
  BY <1>1 DEF AnswersUnderLock, AsksForOne, UnderLock
<1>5. HoldsNone'
  BY <1>1 DEF HoldsNone, Unlocked, UnderLock
<1>6. LocksInOrder'
  <2>1. SUFFICES ASSUME NEW d \in Call, Locking(d)', NEW q \in Player, playerLock'[q] = d
               PROVE  /\ q \in Creation!MustLock(call'[d].players)
                      /\ \A r \in Creation!MustLock(call'[d].players) : r < q => playerLock'[r] = d
    BY DEF LocksInOrder
  <2>2. d # c
    BY <1>1, <2>1, ApiAssumptions
  <2>3. Locking(d) /\ call'[d] = call[d] /\ playerLock[q] = d
    BY <1>1, <2>1, <2>2 DEF Locking
  <2>4. /\ q \in Creation!MustLock(call[d].players)
        /\ \A r \in Creation!MustLock(call[d].players) : r < q => playerLock[r] = d
    BY <2>3 DEF LocksInOrder
  <2>5. Creation!MustLock(call[d].players) \subseteq Player
    BY DEF Creation!MustLock, Creation!HumanPlayers
  <2>6. \A r \in Player : playerLock[r] = d => playerLock'[r] = d
    BY <1>1, <2>2
  <2> QED BY <2>3, <2>4, <2>5, <2>6
<1>7. ClaimStands'
  BY <1>1 DEF ClaimStands, Locking
<1>8. StartsOnce' /\ FoundOpen'
  BY <1>1 DEF StartsOnce, Matched, FoundOpen, ClaimStands, Locking
<1>9. Creation!NoHelpInAGame'
  BY <1>1 DEF Creation!NoHelpInAGame, Creation!Eligible, Creation!Playing, UnderLock, AnswersUnderLock
<1> QED BY <1>2, <1>3, <1>4, <1>5, <1>6, <1>7, <1>8, <1>9

LEMMA FailsCoordinated ==
  ASSUME CreationInv, NEW c \in Call, Creation!Fails(c)
  PROVE  CreationInv'
<1> USE ApiAssumptions DEF Creation!Assumptions, CreationInv, Creation!TypeOK, Creation!SeekState, Creation!Found
<1>1. /\ call[c].pc # "idle"
      /\ claimed' = [s \in Seek |-> IF claimed[s] = c THEN Nobody ELSE claimed[s]]
      /\ playerLock' = [p \in Player |-> IF playerLock[p] = c THEN Nobody ELSE playerLock[p]]
      /\ call' = [call EXCEPT ![c] = [pc |-> "idle", seek |-> NoSeek, players |-> {}, found |-> "nothing"]]
      /\ UNCHANGED <<seek, old, games>>
  BY DEF Creation!Fails, Creation!Unclaimed, Creation!Unlocked, Creation!Do, Creation!Idle
<1>2. Creation!TypeOK'
  BY <1>1
<1>3. AsksForOne'
  BY <1>1 DEF AsksForOne, UnderLock
<1>4. AnswersUnderLock'
  BY <1>1 DEF AnswersUnderLock, AsksForOne, UnderLock
<1>5. HoldsNone'
  BY <1>1 DEF HoldsNone, Unlocked, UnderLock
<1>6. LocksInOrder'
  <2>1. SUFFICES ASSUME NEW d \in Call, Locking(d)', NEW q \in Player, playerLock'[q] = d
               PROVE  /\ q \in Creation!MustLock(call'[d].players)
                      /\ \A r \in Creation!MustLock(call'[d].players) : r < q => playerLock'[r] = d
    BY DEF LocksInOrder
  <2>2. d # c
    BY <1>1, <2>1, ApiAssumptions
  <2>3. Locking(d) /\ call'[d] = call[d] /\ playerLock[q] = d
    BY <1>1, <2>1, <2>2 DEF Locking
  <2>4. /\ q \in Creation!MustLock(call[d].players)
        /\ \A r \in Creation!MustLock(call[d].players) : r < q => playerLock[r] = d
    BY <2>3 DEF LocksInOrder
  <2>5. Creation!MustLock(call[d].players) \subseteq Player
    BY DEF Creation!MustLock, Creation!HumanPlayers
  <2>6. \A r \in Player : playerLock[r] = d => playerLock'[r] = d
    BY <1>1, <2>2
  <2> QED BY <2>3, <2>4, <2>5, <2>6
<1>7. ClaimStands'
  BY <1>1 DEF ClaimStands, Locking
<1>8. StartsOnce' /\ FoundOpen'
  BY <1>1 DEF StartsOnce, Matched, FoundOpen, ClaimStands, Locking
<1>9. Creation!NoHelpInAGame'
  BY <1>1 DEF Creation!NoHelpInAGame, Creation!Eligible, Creation!Playing, UnderLock, AnswersUnderLock
<1> QED BY <1>2, <1>3, <1>4, <1>5, <1>6, <1>7, <1>8, <1>9
-----------------------------------------------------------------------------

LEMMA CreationInit == Creation!Init => CreationInv
<1> SUFFICES ASSUME Creation!Init PROVE CreationInv
  OBVIOUS
<1> USE ApiAssumptions DEF Creation!Assumptions, Creation!Init, Creation!Idle, Creation!SeekState, Creation!Found
<1>1. Creation!TypeOK
  BY DEF Creation!TypeOK
<1>2. AsksForOne /\ AnswersUnderLock /\ HoldsNone /\ LocksInOrder /\ ClaimStands
  BY DEF AsksForOne, AnswersUnderLock, HoldsNone, LocksInOrder, ClaimStands, Locking, UnderLock
<1>3. StartsOnce /\ FoundOpen
  BY DEF StartsOnce, FoundOpen, Matched
<1>4. Creation!NoHelpInAGame
  BY DEF Creation!NoHelpInAGame
<1> QED BY <1>1, <1>2, <1>3, <1>4 DEF CreationInv

LEMMA CreationStep == CreationInv /\ [Creation!Next]_creation => CreationInv'
<1> SUFFICES ASSUME CreationInv, [Creation!Next]_creation PROVE CreationInv'
  OBVIOUS
<1>1. CASE UNCHANGED creation
  BY <1>1 DEF creation, CreationInv, Creation!TypeOK, AsksForOne, AnswersUnderLock, HoldsNone, LocksInOrder,
              ClaimStands, StartsOnce, FoundOpen, Matched, Locking, Creation!NoHelpInAGame, Creation!Eligible, Creation!Playing
<1>2. CASE \E s \in Seek : Creation!PostSeek(s) \/ Creation!Expire(s) \/ Creation!CleanUp(s)
  BY <1>2, PostSeekCoordinated, ExpireCoordinated, CleanUpCoordinated
<1>3. CASE \E c \in Call : \/ Creation!Cancel(c) \/ Creation!Begin(c) \/ Creation!Claim(c) \/ Creation!LockPlayer(c)
                           \/ Creation!LockTimesOut(c) \/ Creation!CommitGame(c)
  BY <1>3, CancelCoordinated, BeginCoordinated, ClaimCoordinated, LockPlayerCoordinated, LockTimesOutCoordinated,
     CommitGameCoordinated
<1>4. CASE \E c \in Call : \/ Creation!LockToAnswer(c) \/ Creation!Check(c, "asking", "working") \/ Creation!Work(c)
                           \/ Creation!Check(c, "verifying", "answering") \/ Creation!Answer(c)
                           \/ Creation!AfterWrite(c) \/ Creation!Fails(c)
  BY <1>4, LockToAnswerCoordinated, CheckToWorkCoordinated, WorkCoordinated, CheckToAnswerCoordinated,
     AnswerCoordinated, AfterWriteCoordinated, FailsCoordinated
<1>5. CASE \E c \in Call, s \in Seek :
             Creation!FindToCancel(c, s) \/ \E p \in Player : Creation!FindToAccept(c, s, p)
  BY <1>5, FindToCancelCoordinated, FindToAcceptCoordinated
<1>6. CASE \E c \in Call, p, q \in Player : Creation!Create(c, {p, q})
  BY <1>6, CreateCoordinated
<1>7. CASE \E c \in Call, p \in Player : Creation!AskToRead(c, p) \/ Creation!AskToWrite(c, p)
  BY <1>7, AskToReadCoordinated, AskToWriteCoordinated
<1>8. CASE \E g \in DOMAIN games : Creation!EndGame(g)
  BY <1>8, EndGameCoordinated
<1> QED BY <1>1, <1>2, <1>3, <1>4, <1>5, <1>6, <1>7, <1>8 DEF Creation!Next, creation

LEMMA CreationCardinality == \A S : Creation!Cardinality(S) = Cardinality(S)
BY DEF Creation!Cardinality, Cardinality

(* What the invariant gives: the games of a seek are counted, and two      *)
(* creations that waited for each other would each hold a lock of a higher *)
(* id than the one they wait for.                                          *)
LEMMA CreationSafe == CreationInv => CreationIsCoordinated
<1> SUFFICES ASSUME CreationInv PROVE CreationIsCoordinated
  OBVIOUS
<1>1. Creation!OneGamePerSeek
  <2>1. ASSUME NEW s \in Seek
        PROVE  Cardinality({g \in DOMAIN games : games[g].seek = s}) = IF Matched(seek[s]) THEN 1 ELSE 0
    <3>1. CASE Matched(seek[s])
      <4>1. PICK g \in DOMAIN games : games[g].seek = s /\ \A h \in DOMAIN games : games[h].seek = s => h = g
        BY <3>1 DEF CreationInv, StartsOnce
      <4>2. {h \in DOMAIN games : games[h].seek = s} = {g}
        BY <4>1
      <4> QED BY <3>1, <4>2, FS_Singleton
    <3>2. CASE ~Matched(seek[s])
      <4>1. {h \in DOMAIN games : games[h].seek = s} = {}
        BY <3>2 DEF CreationInv, StartsOnce
      <4> QED BY <3>2, <4>1, FS_EmptySet
    <3> QED BY <3>1, <3>2
  <2>2. \A g \in DOMAIN games : games[g].seek # NoSeek => games[g].found = "open"
    BY DEF CreationInv, FoundOpen
  <2> QED BY <2>1, <2>2, CreationCardinality DEF Creation!OneGamePerSeek, Matched
<1>2. Creation!NoCycle
  <2>1. SUFFICES ASSUME NEW c \in Call, NEW d \in Call, NEW p \in Player, NEW q \in Player, Locking(c), Locking(d),
                        playerLock[p] = c, playerLock[q] = d, q \in Creation!Missing(c), p \in Creation!Missing(d)
                 PROVE  FALSE
    BY DEF Creation!NoCycle, Locking
  <2>2. p \in Nat /\ q \in Nat
    BY ApiAssumptions DEF Creation!Assumptions
  <2>3. /\ q \in Creation!MustLock(call[c].players) /\ playerLock[q] # c
        /\ p \in Creation!MustLock(call[d].players) /\ playerLock[p] # d
    BY <2>1 DEF Creation!Missing
  <2>4. ~(q < p) /\ ~(p < q)
    BY <2>1, <2>3 DEF CreationInv, LocksInOrder
  <2> QED BY <2>1, <2>2, <2>3, <2>4
<1> QED BY <1>1, <1>2 DEF CreationInv, CreationIsCoordinated, Creation!CreationIsCoordinated

(* Games beside chess assistance: for any players, seeks and calls, nobody *)
(* who plays a person is helped, a seek starts at most one game and only   *)
(* while it is open, and transactions that create games never wait for     *)
(* each other.                                                             *)
THEOREM CoordinatedCreation == Creation!Spec => []CreationIsCoordinated
<1>1. Creation!Spec => []CreationInv
  BY CreationInit, CreationStep, PTL DEF Creation!Spec, creation, Creation!vars
<1> QED BY <1>1, CreationSafe, PTL

-----------------------------------------------------------------------------
(* Relations of two people (ApiCalls, Relations). *)

\* The pcs of a transaction that holds the lock of the pair.
OnThePair == {"locked", "unblocked", "strangers", "clear", "tearing"}

PairIsLocked == \A c \in Call : operation[c].pc \in OnThePair => pairLock = c

\* An answer holds the row it read, which has not changed since.
RowIsLocked ==
  \A c \in Call : operation[c].pc = "answering" =>
    LET r == operation[c].row
    IN /\ r \in DOMAIN asked /\ rowLock[r] = c /\ operation[c].seen = asked[r].status
       /\ operation[c].op \in {"accept", "decline", "cancel"}

\* A block holds the row of every request.
BlockHoldsRows ==
  \A c \in Call : operation[c].pc = "tearing" =>
    operation[c].by \in Person /\ \A r \in DOMAIN asked : rowLock[r] = c

\* What a transaction on the pair has found still holds at its commit.
FindingsStand ==
  \A c \in Call :
    /\ operation[c].pc \in OnThePair => operation[c].by \in Person
    /\ operation[c].pc \in {"unblocked", "strangers", "clear"} => blocks = {}
    /\ operation[c].pc = "clear" => \A r \in DOMAIN asked : asked[r].status # "pending"

Severed == blocks # {} => follows = {} /\ \A r \in DOMAIN asked : asked[r].status \notin {"pending", "accepted"}

\* At most one request is pending, and one accepted.
AtMostOne ==
  /\ conversation <= 1
  /\ \A q, r \in DOMAIN asked :
       asked[q].status = asked[r].status /\ asked[r].status \in {"pending", "accepted"} => q = r

RelationsInv ==
  People!TypeOK /\ PairIsLocked /\ RowIsLocked /\ BlockHoldsRows /\ FindingsStand /\ Severed /\ AtMostOne

Requests == Seq([from : Person, status : People!Statuses])

OpRecord == [pc : {"idle", "locked", "unblocked", "strangers", "clear", "tearing", "answering"},
             op : People!Operations \cup {"none", "accept", "decline", "cancel"},
             by : Person \cup {Nobody}, row : 0..MaxRequests, seen : People!Statuses \cup {"none"}]

Pcs == {"idle", "locked", "unblocked", "strangers", "clear", "tearing", "answering"}

LEMMA OpRecordMoves ==
  ASSUME NEW r \in OpRecord, NEW pc \in Pcs
  PROVE  [r EXCEPT !.pc = pc] \in OpRecord
BY DEF OpRecord, Pcs

LEMMA OpMoves ==
  ASSUME NEW f \in [Call -> OpRecord], NEW c \in Call, NEW pc \in Pcs
  PROVE  [f EXCEPT ![c].pc = pc] \in [Call -> OpRecord]
BY OpRecordMoves

LEMMA OpBegins ==
  ASSUME NEW op \in People!Operations, NEW p \in Person
  PROVE  [People!Idle EXCEPT !.pc = "locked", !.op = op, !.by = p] \in OpRecord
<1> DEFINE r1 == [People!Idle EXCEPT !.pc = "locked"]
           r2 == [r1 EXCEPT !.op = op]
           r3 == [r2 EXCEPT !.by = p]
<1>1. People!Idle \in OpRecord
  BY ApiAssumptions DEF People!Idle, OpRecord, People!Assumptions
<1>2. r1 \in OpRecord
  BY <1>1 DEF OpRecord
<1> HIDE DEF r1
<1>3. r2 \in OpRecord
  BY <1>2 DEF OpRecord
<1> HIDE DEF r2
<1>4. r3 \in OpRecord
  BY <1>3 DEF OpRecord
<1>5. [People!Idle EXCEPT !.pc = "locked", !.op = op, !.by = p] = r3
  BY <1>1 DEF r1, r2, OpRecord
<1> QED BY <1>4, <1>5

LEMMA EntryReplaced ==
  ASSUME NEW S, NEW s \in Seq(S), NEW i \in DOMAIN s, NEW e \in S
  PROVE  /\ [s EXCEPT ![i] = e] \in Seq(S)
         /\ Len([s EXCEPT ![i] = e]) = Len(s)
<1>1. i \in 1..Len(s)
  OBVIOUS
<1> QED BY <1>1, ExceptSeq

LEMMA SequenceOf ==
  ASSUME NEW S, NEW n \in Nat, NEW f \in [1..n -> S]
  PROVE  f \in Seq(S) /\ Len(f) = n
<1>1. f \in Seq(S)
  BY SeqDef
<1> QED BY <1>1, LenProperties

LEMMA RefuseRelates ==
  ASSUME RelationsInv, NEW c \in Call, People!Refuse(c)
  PROVE  RelationsInv'
<1> USE ApiAssumptions DEF People!Assumptions, RelationsInv, People!TypeOK, Requests, OpRecord
<1>1. /\ operation' = [operation EXCEPT ![c] = [pc |-> "idle", op |-> "none", by |-> Nobody, row |-> 0, seen |-> "none"]]
      /\ pairLock' = IF pairLock = c THEN Nobody ELSE pairLock
      /\ rowLock' = [r \in DOMAIN rowLock |-> IF rowLock[r] = c THEN Nobody ELSE rowLock[r]]
      /\ UNCHANGED <<follows, blocks, asked, conversation, messages>>
  BY DEF People!Refuse, People!Release, People!Idle, People!tables
<1>2. People!TypeOK'
  <2>1. asked' \in Requests /\ Len(asked') <= MaxRequests
    BY <1>1
  <2>2. operation' \in [Call -> OpRecord]
    BY <1>1
  <2>3. rowLock' \in [1..MaxRequests -> Call \cup {Nobody}] /\ pairLock' \in Call \cup {Nobody}
    BY <1>1
  <2>4. {follows', blocks'} \subseteq SUBSET Person /\ conversation' \in Nat /\ messages' \in 0..MaxMessages
    BY <1>1 DEF FindingsStand, OnThePair, BlockHoldsRows
  <2> QED BY <2>1, <2>2, <2>3, <2>4
<1>3. PairIsLocked'
  BY <1>1 DEF PairIsLocked, OnThePair
<1>4. RowIsLocked'
  BY <1>1 DEF RowIsLocked
<1>5. BlockHoldsRows'
  BY <1>1 DEF BlockHoldsRows, FindingsStand, OnThePair, PairIsLocked
<1>6. FindingsStand'
  BY <1>1 DEF FindingsStand, OnThePair, PairIsLocked
<1>7. Severed'
  BY <1>1 DEF Severed, FindingsStand, BlockHoldsRows
<1>8. AtMostOne'
  BY <1>1 DEF AtMostOne, FindingsStand
<1> QED BY <1>2, <1>3, <1>4, <1>5, <1>6, <1>7, <1>8

LEMMA BeginRelates ==
  ASSUME RelationsInv, NEW c \in Call, NEW p \in Person, NEW op \in People!Operations, People!Begin(c, op, p)
  PROVE  RelationsInv'
<1> USE ApiAssumptions DEF People!Assumptions, RelationsInv, People!TypeOK, Requests, OpRecord
<1>1. /\ pairLock = Nobody
      /\ pairLock' = c
      /\ operation' = [operation EXCEPT ![c] = [People!Idle EXCEPT !.pc = "locked", !.op = op, !.by = p]]
      /\ UNCHANGED <<follows, blocks, asked, conversation, messages, rowLock>>
  BY DEF People!Begin, People!MayLockPair, People!tables
<1>2. People!TypeOK'
  <2>1. asked' \in Requests /\ Len(asked') <= MaxRequests
    BY <1>1
  <2>2. operation' \in [Call -> OpRecord]
    <3>1. operation \in [Call -> OpRecord]
      BY DEF OpRecord
    <3>2. operation' = [operation EXCEPT ![c] = [People!Idle EXCEPT !.pc = "locked", !.op = op, !.by = p]]
      BY <1>1
    <3> HIDE DEF OpRecord
    <3> DEFINE rec == [People!Idle EXCEPT !.pc = "locked", !.op = op, !.by = p]
    <3>3. rec \in OpRecord
      BY OpBegins
    <3> HIDE DEF rec
    <3>4. [operation EXCEPT ![c] = rec] \in [Call -> OpRecord]
      BY <3>1, <3>3
    <3> QED BY <3>2, <3>4 DEF rec
  <2>3. rowLock' \in [1..MaxRequests -> Call \cup {Nobody}] /\ pairLock' \in Call \cup {Nobody}
    BY <1>1
  <2>4. {follows', blocks'} \subseteq SUBSET Person /\ conversation' \in Nat /\ messages' \in 0..MaxMessages
    BY <1>1 DEF FindingsStand, OnThePair, BlockHoldsRows
  <2> QED BY <2>1, <2>2, <2>3, <2>4
<1>3. PairIsLocked'
  BY <1>1 DEF PairIsLocked, OnThePair
<1>4. RowIsLocked'
  BY <1>1 DEF RowIsLocked
<1>5. BlockHoldsRows'
  BY <1>1 DEF BlockHoldsRows, FindingsStand, OnThePair, PairIsLocked
<1>6. FindingsStand'
  BY <1>1 DEF FindingsStand, OnThePair, PairIsLocked
<1>7. Severed'
  BY <1>1 DEF Severed, FindingsStand, BlockHoldsRows
<1>8. AtMostOne'
  BY <1>1 DEF AtMostOne, FindingsStand
<1> QED BY <1>2, <1>3, <1>4, <1>5, <1>6, <1>7, <1>8

LEMMA BlockRelates ==
  ASSUME RelationsInv, NEW c \in Call, People!CheckBlock(c)
  PROVE  RelationsInv'
<1> USE ApiAssumptions DEF People!Assumptions, RelationsInv, People!TypeOK, Requests, OpRecord
<1>1. CASE blocks = {}
<2>1. /\ operation[c].pc = "locked"
      /\ operation' = [operation EXCEPT ![c].pc = "unblocked"]
      /\ UNCHANGED <<follows, blocks, asked, conversation, messages, pairLock, rowLock>>
  BY <1>1 DEF People!CheckBlock, People!Move, People!tables, People!locks
<2>2. People!TypeOK'
  <3>1. asked' \in Requests /\ Len(asked') <= MaxRequests
    BY <1>1, <2>1
  <3>2. operation' \in [Call -> OpRecord]
    <4>1. operation \in [Call -> OpRecord]
      BY DEF OpRecord
    <4>2. operation' = [operation EXCEPT ![c].pc = "unblocked"] /\ "unblocked" \in Pcs
      BY <2>1 DEF Pcs
    <4> HIDE DEF OpRecord
    <4> QED BY <4>1, <4>2, OpMoves
  <3>3. rowLock' \in [1..MaxRequests -> Call \cup {Nobody}] /\ pairLock' \in Call \cup {Nobody}
    BY <1>1, <2>1
  <3>4. {follows', blocks'} \subseteq SUBSET Person /\ conversation' \in Nat /\ messages' \in 0..MaxMessages
    BY <1>1, <2>1 DEF FindingsStand, OnThePair, BlockHoldsRows
  <3> QED BY <3>1, <3>2, <3>3, <3>4
<2>3. PairIsLocked'
  BY <1>1, <2>1 DEF PairIsLocked, OnThePair
<2>4. RowIsLocked'
  BY <1>1, <2>1 DEF RowIsLocked
<2>5. BlockHoldsRows'
  BY <1>1, <2>1 DEF BlockHoldsRows, FindingsStand, OnThePair, PairIsLocked
<2>6. FindingsStand'
  BY <1>1, <2>1 DEF FindingsStand, OnThePair, PairIsLocked
<2>7. Severed'
  BY <1>1, <2>1 DEF Severed, FindingsStand, BlockHoldsRows
<2>8. AtMostOne'
  BY <1>1, <2>1 DEF AtMostOne, FindingsStand
<2> QED BY <2>2, <2>3, <2>4, <2>5, <2>6, <2>7, <2>8
<1>2. CASE blocks # {}
  BY <1>2, RefuseRelates DEF People!CheckBlock
<1> QED BY <1>1, <1>2

LEMMA FriendsRelates ==
  ASSUME RelationsInv, NEW c \in Call, People!CheckFriends(c)
  PROVE  RelationsInv'
<1> USE ApiAssumptions DEF People!Assumptions, RelationsInv, People!TypeOK, Requests, OpRecord
<1>1. CASE People!InStatus("accepted") = {}
<2>1. /\ operation[c].pc = "unblocked"
      /\ operation' = [operation EXCEPT ![c].pc = "strangers"]
      /\ UNCHANGED <<follows, blocks, asked, conversation, messages, pairLock, rowLock>>
  BY <1>1 DEF People!CheckFriends, People!Move, People!tables, People!locks, People!InStatus
<2>2. People!TypeOK'
  <3>1. asked' \in Requests /\ Len(asked') <= MaxRequests
    BY <1>1, <2>1
  <3>2. operation' \in [Call -> OpRecord]
    <4>1. operation \in [Call -> OpRecord]
      BY DEF OpRecord
    <4>2. operation' = [operation EXCEPT ![c].pc = "strangers"] /\ "strangers" \in Pcs
      BY <2>1 DEF Pcs
    <4> HIDE DEF OpRecord
    <4> QED BY <4>1, <4>2, OpMoves
  <3>3. rowLock' \in [1..MaxRequests -> Call \cup {Nobody}] /\ pairLock' \in Call \cup {Nobody}
    BY <1>1, <2>1
  <3>4. {follows', blocks'} \subseteq SUBSET Person /\ conversation' \in Nat /\ messages' \in 0..MaxMessages
    BY <1>1, <2>1 DEF FindingsStand, OnThePair, BlockHoldsRows
  <3> QED BY <3>1, <3>2, <3>3, <3>4
<2>3. PairIsLocked'
  BY <1>1, <2>1 DEF PairIsLocked, OnThePair
<2>4. RowIsLocked'
  BY <1>1, <2>1 DEF RowIsLocked
<2>5. BlockHoldsRows'
  BY <1>1, <2>1 DEF BlockHoldsRows, FindingsStand, OnThePair, PairIsLocked
<2>6. FindingsStand'
  BY <1>1, <2>1 DEF FindingsStand, OnThePair, PairIsLocked
<2>7. Severed'
  BY <1>1, <2>1 DEF Severed, FindingsStand, BlockHoldsRows
<2>8. AtMostOne'
  BY <1>1, <2>1 DEF AtMostOne, FindingsStand
<2> QED BY <2>2, <2>3, <2>4, <2>5, <2>6, <2>7, <2>8
<1>2. CASE People!InStatus("accepted") # {}
  BY <1>2, RefuseRelates DEF People!CheckFriends
<1> QED BY <1>1, <1>2

LEMMA OpenRelates ==
  ASSUME RelationsInv, NEW c \in Call, People!CheckOpen(c)
  PROVE  RelationsInv'
<1> USE ApiAssumptions DEF People!Assumptions, RelationsInv, People!TypeOK, Requests, OpRecord
<1>1. CASE People!InStatus("pending") = {}
<2>1. /\ operation[c].pc = "strangers"
      /\ \A r \in DOMAIN asked : asked[r].status # "pending"
      /\ operation' = [operation EXCEPT ![c].pc = "clear"]
      /\ UNCHANGED <<follows, blocks, asked, conversation, messages, pairLock, rowLock>>
  BY <1>1 DEF People!CheckOpen, People!Move, People!tables, People!locks, People!InStatus
<2>2. People!TypeOK'
  <3>1. asked' \in Requests /\ Len(asked') <= MaxRequests
    BY <1>1, <2>1
  <3>2. operation' \in [Call -> OpRecord]
    <4>1. operation \in [Call -> OpRecord]
      BY DEF OpRecord
    <4>2. operation' = [operation EXCEPT ![c].pc = "clear"] /\ "clear" \in Pcs
      BY <2>1 DEF Pcs
    <4> HIDE DEF OpRecord
    <4> QED BY <4>1, <4>2, OpMoves
  <3>3. rowLock' \in [1..MaxRequests -> Call \cup {Nobody}] /\ pairLock' \in Call \cup {Nobody}
    BY <1>1, <2>1
  <3>4. {follows', blocks'} \subseteq SUBSET Person /\ conversation' \in Nat /\ messages' \in 0..MaxMessages
    BY <1>1, <2>1 DEF FindingsStand, OnThePair, BlockHoldsRows
  <3> QED BY <3>1, <3>2, <3>3, <3>4
<2>3. PairIsLocked'
  BY <1>1, <2>1 DEF PairIsLocked, OnThePair
<2>4. RowIsLocked'
  BY <1>1, <2>1 DEF RowIsLocked
<2>5. BlockHoldsRows'
  BY <1>1, <2>1 DEF BlockHoldsRows, FindingsStand, OnThePair, PairIsLocked
<2>6. FindingsStand'
  BY <1>1, <2>1 DEF FindingsStand, OnThePair, PairIsLocked
<2>7. Severed'
  BY <1>1, <2>1 DEF Severed, FindingsStand, BlockHoldsRows
<2>8. AtMostOne'
  BY <1>1, <2>1 DEF AtMostOne, FindingsStand
<2> QED BY <2>2, <2>3, <2>4, <2>5, <2>6, <2>7, <2>8
<1>2. CASE People!InStatus("pending") # {}
  BY <1>2, RefuseRelates DEF People!CheckOpen
<1> QED BY <1>1, <1>2

LEMMA CommitFollowRelates ==
  ASSUME RelationsInv, NEW c \in Call, People!CommitFollow(c)
  PROVE  RelationsInv'
<1> USE ApiAssumptions DEF People!Assumptions, RelationsInv, People!TypeOK, Requests, OpRecord
<1>1. /\ operation[c].pc = "unblocked"
      /\ follows' = follows \cup {operation[c].by}
      /\ operation' = [operation EXCEPT ![c] = [pc |-> "idle", op |-> "none", by |-> Nobody, row |-> 0, seen |-> "none"]]
      /\ pairLock' = IF pairLock = c THEN Nobody ELSE pairLock
      /\ rowLock' = [r \in DOMAIN rowLock |-> IF rowLock[r] = c THEN Nobody ELSE rowLock[r]]
      /\ UNCHANGED <<blocks, asked, conversation, messages>>
  BY DEF People!CommitFollow, People!Release, People!Idle
<1>2. People!TypeOK'
  <2>1. asked' \in Requests /\ Len(asked') <= MaxRequests
    BY <1>1
  <2>2. operation' \in [Call -> OpRecord]
    BY <1>1
  <2>3. rowLock' \in [1..MaxRequests -> Call \cup {Nobody}] /\ pairLock' \in Call \cup {Nobody}
    BY <1>1
  <2>4. {follows', blocks'} \subseteq SUBSET Person /\ conversation' \in Nat /\ messages' \in 0..MaxMessages
    BY <1>1 DEF FindingsStand, OnThePair, BlockHoldsRows
  <2> QED BY <2>1, <2>2, <2>3, <2>4
<1>3. PairIsLocked'
  BY <1>1 DEF PairIsLocked, OnThePair
<1>4. RowIsLocked'
  BY <1>1 DEF RowIsLocked
<1>5. BlockHoldsRows'
  BY <1>1 DEF BlockHoldsRows, FindingsStand, OnThePair, PairIsLocked
<1>6. FindingsStand'
  BY <1>1 DEF FindingsStand, OnThePair, PairIsLocked
<1>7. Severed'
  BY <1>1 DEF Severed, FindingsStand, BlockHoldsRows
<1>8. AtMostOne'
  BY <1>1 DEF AtMostOne, FindingsStand
<1> QED BY <1>2, <1>3, <1>4, <1>5, <1>6, <1>7, <1>8

LEMMA CommitRequestRelates ==
  ASSUME RelationsInv, NEW c \in Call, People!CommitRequest(c)
  PROVE  RelationsInv'
<1> USE ApiAssumptions DEF People!Assumptions, RelationsInv, People!TypeOK, Requests, OpRecord
<1>0. /\ asked' \in Requests /\ Len(asked') <= MaxRequests /\ DOMAIN asked' \subseteq 1..MaxRequests
      /\ \E n \in Nat : /\ n \notin DOMAIN asked /\ DOMAIN asked' = DOMAIN asked \cup {n}
                       /\ asked'[n].status = "pending" /\ \A r \in DOMAIN asked : asked'[r] = asked[r]
  <2> DEFINE new == [from |-> operation[c].by, status |-> "pending"]
             n == Len(asked) + 1
  <2>1. asked \in Requests /\ Len(asked) < MaxRequests /\ asked' = Append(asked, new)
    BY DEF People!CommitRequest
  <2>2. new \in [from : Person, status : People!Statuses] /\ new.status = "pending"
    BY DEF People!CommitRequest, FindingsStand, OnThePair, People!Statuses
  <2> HIDE DEF new
  <2>3. /\ asked' \in Requests /\ Len(asked') = n /\ asked'[n] = new /\ DOMAIN asked = 1..Len(asked)
        /\ DOMAIN asked' = 1..n /\ n \in Nat /\ \A r \in DOMAIN asked : asked'[r] = asked[r]
    BY <2>1, <2>2
  <2>4. n \notin DOMAIN asked /\ DOMAIN asked' = DOMAIN asked \cup {n} /\ n <= MaxRequests
    BY <2>1, <2>3
  <2>5. DOMAIN asked' \subseteq 1..MaxRequests
    BY <2>3, <2>4
  <2> HIDE DEF n
  <2> QED BY <2>2, <2>3, <2>4, <2>5

<1>1. /\ operation[c].pc = "clear"
      /\ operation' = [operation EXCEPT ![c] = [pc |-> "idle", op |-> "none", by |-> Nobody, row |-> 0, seen |-> "none"]]
      /\ pairLock' = IF pairLock = c THEN Nobody ELSE pairLock
      /\ rowLock' = [r \in DOMAIN rowLock |-> IF rowLock[r] = c THEN Nobody ELSE rowLock[r]]
      /\ UNCHANGED <<follows, blocks, conversation, messages>>
  BY DEF People!CommitRequest, People!Release, People!Idle
<1>2. People!TypeOK'
  <2>1. asked' \in Requests /\ Len(asked') <= MaxRequests
    BY <1>0, <1>1
  <2>2. operation' \in [Call -> OpRecord]
    BY <1>0, <1>1
  <2>3. rowLock' \in [1..MaxRequests -> Call \cup {Nobody}] /\ pairLock' \in Call \cup {Nobody}
    BY <1>0, <1>1
  <2>4. {follows', blocks'} \subseteq SUBSET Person /\ conversation' \in Nat /\ messages' \in 0..MaxMessages
    BY <1>0, <1>1 DEF FindingsStand, OnThePair, BlockHoldsRows
  <2> QED BY <2>1, <2>2, <2>3, <2>4
<1>3. PairIsLocked'
  BY <1>0, <1>1 DEF PairIsLocked, OnThePair
<1>4. RowIsLocked'
  BY <1>0, <1>1 DEF RowIsLocked
<1>5. BlockHoldsRows'
  BY <1>0, <1>1 DEF BlockHoldsRows, FindingsStand, OnThePair, PairIsLocked
<1>6. FindingsStand'
  BY <1>0, <1>1 DEF FindingsStand, OnThePair, PairIsLocked
<1>7. Severed'
  BY <1>0, <1>1 DEF Severed, FindingsStand, BlockHoldsRows
<1>8. AtMostOne'
  BY <1>0, <1>1 DEF AtMostOne, FindingsStand
<1> QED BY <1>2, <1>3, <1>4, <1>5, <1>6, <1>7, <1>8

LEMMA CommitConversationRelates ==
  ASSUME RelationsInv, NEW c \in Call, People!CommitConversation(c)
  PROVE  RelationsInv'
<1> USE ApiAssumptions DEF People!Assumptions, RelationsInv, People!TypeOK, Requests, OpRecord
<1>1. /\ operation[c].pc = "unblocked"
      /\ conversation' = IF conversation = 0 THEN 1 ELSE conversation
      /\ operation' = [operation EXCEPT ![c] = [pc |-> "idle", op |-> "none", by |-> Nobody, row |-> 0, seen |-> "none"]]
      /\ pairLock' = IF pairLock = c THEN Nobody ELSE pairLock
      /\ rowLock' = [r \in DOMAIN rowLock |-> IF rowLock[r] = c THEN Nobody ELSE rowLock[r]]
      /\ UNCHANGED <<follows, blocks, asked, messages>>
  BY DEF People!CommitConversation, People!Release, People!Idle
<1>2. People!TypeOK'
  <2>1. asked' \in Requests /\ Len(asked') <= MaxRequests
    BY <1>1
  <2>2. operation' \in [Call -> OpRecord]
    BY <1>1
  <2>3. rowLock' \in [1..MaxRequests -> Call \cup {Nobody}] /\ pairLock' \in Call \cup {Nobody}
    BY <1>1
  <2>4. {follows', blocks'} \subseteq SUBSET Person /\ conversation' \in Nat /\ messages' \in 0..MaxMessages
    BY <1>1 DEF FindingsStand, OnThePair, BlockHoldsRows
  <2> QED BY <2>1, <2>2, <2>3, <2>4
<1>3. PairIsLocked'
  BY <1>1 DEF PairIsLocked, OnThePair
<1>4. RowIsLocked'
  BY <1>1 DEF RowIsLocked
<1>5. BlockHoldsRows'
  BY <1>1 DEF BlockHoldsRows, FindingsStand, OnThePair, PairIsLocked
<1>6. FindingsStand'
  BY <1>1 DEF FindingsStand, OnThePair, PairIsLocked
<1>7. Severed'
  BY <1>1 DEF Severed, FindingsStand, BlockHoldsRows
<1>8. AtMostOne'
  BY <1>1 DEF AtMostOne, FindingsStand
<1> QED BY <1>2, <1>3, <1>4, <1>5, <1>6, <1>7, <1>8

LEMMA CommitMessageRelates ==
  ASSUME RelationsInv, NEW c \in Call, People!CommitMessage(c)
  PROVE  RelationsInv'
<1> USE ApiAssumptions DEF People!Assumptions, RelationsInv, People!TypeOK, Requests, OpRecord
<1>1. /\ operation[c].pc = "unblocked"
      /\ messages < MaxMessages
      /\ messages' = messages + 1
      /\ operation' = [operation EXCEPT ![c] = [pc |-> "idle", op |-> "none", by |-> Nobody, row |-> 0, seen |-> "none"]]
      /\ pairLock' = IF pairLock = c THEN Nobody ELSE pairLock
      /\ rowLock' = [r \in DOMAIN rowLock |-> IF rowLock[r] = c THEN Nobody ELSE rowLock[r]]
      /\ UNCHANGED <<follows, blocks, asked, conversation>>
  BY DEF People!CommitMessage, People!Release, People!Idle
<1>2. People!TypeOK'
  <2>1. asked' \in Requests /\ Len(asked') <= MaxRequests
    BY <1>1
  <2>2. operation' \in [Call -> OpRecord]
    BY <1>1
  <2>3. rowLock' \in [1..MaxRequests -> Call \cup {Nobody}] /\ pairLock' \in Call \cup {Nobody}
    BY <1>1
  <2>4. {follows', blocks'} \subseteq SUBSET Person /\ conversation' \in Nat /\ messages' \in 0..MaxMessages
    BY <1>1 DEF FindingsStand, OnThePair, BlockHoldsRows
  <2> QED BY <2>1, <2>2, <2>3, <2>4
<1>3. PairIsLocked'
  BY <1>1 DEF PairIsLocked, OnThePair
<1>4. RowIsLocked'
  BY <1>1 DEF RowIsLocked
<1>5. BlockHoldsRows'
  BY <1>1 DEF BlockHoldsRows, FindingsStand, OnThePair, PairIsLocked
<1>6. FindingsStand'
  BY <1>1 DEF FindingsStand, OnThePair, PairIsLocked
<1>7. Severed'
  BY <1>1 DEF Severed, FindingsStand, BlockHoldsRows
<1>8. AtMostOne'
  BY <1>1 DEF AtMostOne, FindingsStand
<1> QED BY <1>2, <1>3, <1>4, <1>5, <1>6, <1>7, <1>8

LEMMA LockRowsRelates ==
  ASSUME RelationsInv, NEW c \in Call, People!LockRows(c)
  PROVE  RelationsInv'
<1> USE ApiAssumptions DEF People!Assumptions, RelationsInv, People!TypeOK, Requests, OpRecord
<1>1. /\ operation[c].pc = "locked"
      /\ \A r \in DOMAIN asked : rowLock[r] = Nobody
      /\ rowLock' = [r \in DOMAIN rowLock |-> IF r \in DOMAIN asked THEN c ELSE Nobody]
      /\ operation' = [operation EXCEPT ![c].pc = "tearing"]
      /\ UNCHANGED <<follows, blocks, asked, conversation, messages, pairLock>>
  BY DEF People!LockRows, People!tables
<1>2. People!TypeOK'
  <2>1. asked' \in Requests /\ Len(asked') <= MaxRequests
    BY <1>1
  <2>2. operation' \in [Call -> OpRecord]
    <3>1. operation \in [Call -> OpRecord]
      BY DEF OpRecord
    <3>2. operation' = [operation EXCEPT ![c].pc = "tearing"] /\ "tearing" \in Pcs
      BY <1>1 DEF Pcs
    <3> HIDE DEF OpRecord
    <3> QED BY <3>1, <3>2, OpMoves
  <2>3. rowLock' \in [1..MaxRequests -> Call \cup {Nobody}] /\ pairLock' \in Call \cup {Nobody}
    BY <1>1
  <2>4. {follows', blocks'} \subseteq SUBSET Person /\ conversation' \in Nat /\ messages' \in 0..MaxMessages
    BY <1>1 DEF FindingsStand, OnThePair, BlockHoldsRows
  <2> QED BY <2>1, <2>2, <2>3, <2>4
<1>3. PairIsLocked'
  BY <1>1 DEF PairIsLocked, OnThePair
<1>4. RowIsLocked'
  BY <1>1 DEF RowIsLocked
<1>5. BlockHoldsRows'
  BY <1>1 DEF BlockHoldsRows, FindingsStand, OnThePair, PairIsLocked
<1>6. FindingsStand'
  BY <1>1 DEF FindingsStand, OnThePair, PairIsLocked
<1>7. Severed'
  BY <1>1 DEF Severed, FindingsStand, BlockHoldsRows
<1>8. AtMostOne'
  BY <1>1 DEF AtMostOne, FindingsStand
<1> QED BY <1>2, <1>3, <1>4, <1>5, <1>6, <1>7, <1>8

LEMMA CommitBlockRelates ==
  ASSUME RelationsInv, NEW c \in Call, People!CommitBlock(c)
  PROVE  RelationsInv'
<1> USE ApiAssumptions DEF People!Assumptions, RelationsInv, People!TypeOK, Requests, OpRecord
<1>0. /\ asked' \in Requests /\ Len(asked') = Len(asked) /\ DOMAIN asked' = DOMAIN asked
      /\ \A r \in DOMAIN asked : asked'[r].status \notin {"pending", "accepted"}
  <2> DEFINE torn(r) == People!TornDown(asked[r], operation[c].by)
             One == [from : Person, status : People!Statuses]
  <2>1. asked \in Seq(One) /\ asked' = [r \in DOMAIN asked |-> torn(r)]
    BY DEF People!CommitBlock
  <2>2. \A req \in One : \A p : /\ People!TornDown(req, p) \in One
                          /\ People!TornDown(req, p).status \notin {"pending", "accepted"}
    BY DEF People!TornDown, People!Statuses
  <2> HIDE DEF One
  <2>3. \A r \in DOMAIN asked : torn(r) \in One /\ torn(r).status \notin {"pending", "accepted"}
    <3>1. \A r \in DOMAIN asked : asked[r] \in One
      BY <2>1
    <3> QED BY <2>2, <3>1
  <2> HIDE DEF torn
  <2>4. asked' \in [1..Len(asked) -> One] /\ Len(asked) \in Nat /\ DOMAIN asked = 1..Len(asked)
    BY <2>1, <2>3
  <2>5. asked' \in Seq(One) /\ Len(asked') = Len(asked)
    BY <2>4, SequenceOf
  <2> QED BY <2>1, <2>3, <2>4, <2>5 DEF One

<1>1. /\ operation[c].pc = "tearing"
      /\ follows' = {}
      /\ blocks' = blocks \cup {operation[c].by}
      /\ operation' = [operation EXCEPT ![c] = [pc |-> "idle", op |-> "none", by |-> Nobody, row |-> 0, seen |-> "none"]]
      /\ pairLock' = IF pairLock = c THEN Nobody ELSE pairLock
      /\ rowLock' = [r \in DOMAIN rowLock |-> IF rowLock[r] = c THEN Nobody ELSE rowLock[r]]
      /\ UNCHANGED <<conversation, messages>>
  BY DEF People!CommitBlock, People!Release, People!Idle
<1>2. People!TypeOK'
  <2>1. asked' \in Requests /\ Len(asked') <= MaxRequests
    BY <1>0, <1>1
  <2>2. operation' \in [Call -> OpRecord]
    BY <1>0, <1>1
  <2>3. rowLock' \in [1..MaxRequests -> Call \cup {Nobody}] /\ pairLock' \in Call \cup {Nobody}
    BY <1>0, <1>1
  <2>4. {follows', blocks'} \subseteq SUBSET Person /\ conversation' \in Nat /\ messages' \in 0..MaxMessages
    BY <1>0, <1>1 DEF FindingsStand, OnThePair, BlockHoldsRows
  <2> QED BY <2>1, <2>2, <2>3, <2>4
<1>3. PairIsLocked'
  BY <1>0, <1>1 DEF PairIsLocked, OnThePair
<1>4. RowIsLocked'
  <2>1. SUFFICES ASSUME NEW d \in Call, operation'[d].pc = "answering"
               PROVE  LET r == operation'[d].row
                      IN /\ r \in DOMAIN asked' /\ rowLock'[r] = d /\ operation'[d].seen = asked'[r].status
                         /\ operation'[d].op \in {"accept", "decline", "cancel"}
    BY DEF RowIsLocked
  <2>2. d # c /\ operation'[d] = operation[d]
    BY <1>1, <2>1
  <2>3. operation[d].row \in DOMAIN asked /\ rowLock[operation[d].row] = d
    BY <2>1, <2>2 DEF RowIsLocked
  <2>4. rowLock[operation[d].row] = c
    BY <1>1, <2>3 DEF BlockHoldsRows
  <2> QED BY <2>2, <2>3, <2>4
<1>5. BlockHoldsRows'
  BY <1>0, <1>1 DEF BlockHoldsRows, FindingsStand, OnThePair, PairIsLocked
<1>6. FindingsStand'
  BY <1>0, <1>1 DEF FindingsStand, OnThePair, PairIsLocked
<1>7. Severed'
  BY <1>0, <1>1 DEF Severed, FindingsStand, BlockHoldsRows
<1>8. AtMostOne'
  BY <1>0, <1>1 DEF AtMostOne, FindingsStand
<1> QED BY <1>2, <1>3, <1>4, <1>5, <1>6, <1>7, <1>8

LEMMA ReadRequestRelates ==
  ASSUME RelationsInv, NEW c \in Call, NEW p \in Person, NEW r \in DOMAIN asked, NEW a \in {"accept", "decline", "cancel"}, People!ReadRequest(c, r, a, p)
  PROVE  RelationsInv'
<1> USE ApiAssumptions DEF People!Assumptions, RelationsInv, People!TypeOK, Requests, OpRecord
<1>1. /\ rowLock[r] = Nobody
      /\ rowLock' = [rowLock EXCEPT ![r] = c]
      /\ operation' = [operation EXCEPT ![c] = [pc |-> "answering", op |-> a, by |-> p, row |-> r, seen |-> asked[r].status]]
      /\ UNCHANGED <<follows, blocks, asked, conversation, messages, pairLock>>
  BY DEF People!ReadRequest, People!MayReadRow, People!tables
<1>2. People!TypeOK'
  <2>1. asked' \in Requests /\ Len(asked') <= MaxRequests
    BY <1>1
  <2>2. operation' \in [Call -> OpRecord]
    <3>1. asked[r].status \in People!Statuses
      <4> DEFINE One == [from : Person, status : People!Statuses]
      <4>1. asked \in Seq(One)
        OBVIOUS
      <4> HIDE DEF One
      <4>2. asked[r] \in One
        BY <4>1
      <4> QED BY <4>2 DEF One
    <3>2. r \in 0..MaxRequests
      OBVIOUS
    <3>3. [pc |-> "answering", op |-> a, by |-> p, row |-> r, seen |-> asked[r].status] \in OpRecord
      BY <3>1, <3>2
    <3> QED BY <1>1, <3>3
  <2>3. rowLock' \in [1..MaxRequests -> Call \cup {Nobody}] /\ pairLock' \in Call \cup {Nobody}
    BY <1>1
  <2>4. {follows', blocks'} \subseteq SUBSET Person /\ conversation' \in Nat /\ messages' \in 0..MaxMessages
    BY <1>1 DEF FindingsStand, OnThePair, BlockHoldsRows
  <2> QED BY <2>1, <2>2, <2>3, <2>4
<1>3. PairIsLocked'
  BY <1>1 DEF PairIsLocked, OnThePair
<1>4. RowIsLocked'
  BY <1>1 DEF RowIsLocked
<1>5. BlockHoldsRows'
  BY <1>1 DEF BlockHoldsRows, FindingsStand, OnThePair, PairIsLocked
<1>6. FindingsStand'
  BY <1>1 DEF FindingsStand, OnThePair, PairIsLocked
<1>7. Severed'
  BY <1>1 DEF Severed, FindingsStand, BlockHoldsRows
<1>8. AtMostOne'
  BY <1>1 DEF AtMostOne, FindingsStand
<1> QED BY <1>2, <1>3, <1>4, <1>5, <1>6, <1>7, <1>8

LEMMA AnsweredRelates ==
  ASSUME RelationsInv, NEW c \in Call, operation[c].pc = "answering", asked[operation[c].row].status = "pending",
         NEW st \in {"accepted", "declined", "cancelled"},
         st = "accepted" => People!InStatus("accepted") = {},
         asked' = [asked EXCEPT ![operation[c].row].status = st], People!Release(c),
         UNCHANGED <<follows, blocks, conversation, messages>>
  PROVE  RelationsInv'
<1> USE ApiAssumptions DEF People!Assumptions, RelationsInv, People!TypeOK, Requests, OpRecord
<1>0. LET r == operation[c].row
      IN /\ asked' \in Requests /\ Len(asked') = Len(asked) /\ DOMAIN asked' = DOMAIN asked
         /\ r \in DOMAIN asked /\ rowLock[r] = c /\ asked'[r].status = st
         /\ \A q \in DOMAIN asked : q # r => asked'[q] = asked[q]
  <2> DEFINE r == operation[c].row
             One == [from : Person, status : People!Statuses]
  <2>1. asked \in Seq(One) /\ r \in DOMAIN asked /\ rowLock[r] = c
    BY DEF RowIsLocked
  <2>2. \A req \in One : [req EXCEPT !.status = st] \in One /\ [req EXCEPT !.status = st].status = st
    BY DEF People!Statuses
  <2> DEFINE new == [asked[r] EXCEPT !.status = st]
  <2>3. new \in One /\ new.status = st
    <3> HIDE DEF One
    <3>1. asked[r] \in One
      BY <2>1
    <3> QED BY <2>2, <3>1
  <2>4. asked' = [asked EXCEPT ![r] = new]
    OBVIOUS
  <2> HIDE DEF new, One, r
  <2>5. asked' \in Seq(One) /\ Len(asked') = Len(asked) /\ DOMAIN asked' = DOMAIN asked
    <3>1. [asked EXCEPT ![r] = new] \in Seq(One) /\ Len([asked EXCEPT ![r] = new]) = Len(asked)
      BY <2>1, <2>3, EntryReplaced
    <3>2. asked' \in Seq(One) /\ Len(asked') = Len(asked)
      BY <2>4, <3>1
    <3>3. DOMAIN asked' = DOMAIN asked
      BY <2>4
    <3> QED BY <3>2, <3>3
  <2>6. asked'[r].status = st /\ \A q \in DOMAIN asked : q # r => asked'[q] = asked[q]
    BY <2>1, <2>3, <2>4
  <2> QED BY <2>1, <2>5, <2>6 DEF One, r

<1>1. /\ st = "accepted" => \A q \in DOMAIN asked : asked[q].status # "accepted"
      /\ operation' = [operation EXCEPT ![c] = [pc |-> "idle", op |-> "none", by |-> Nobody, row |-> 0, seen |-> "none"]]
      /\ pairLock' = IF pairLock = c THEN Nobody ELSE pairLock
      /\ rowLock' = [r \in DOMAIN rowLock |-> IF rowLock[r] = c THEN Nobody ELSE rowLock[r]]
      /\ UNCHANGED <<follows, blocks, conversation, messages>>
  BY DEF People!Release, People!Idle, People!InStatus
<1>2. People!TypeOK'
  <2>1. asked' \in Requests /\ Len(asked') <= MaxRequests
    BY <1>0, <1>1
  <2>2. operation' \in [Call -> OpRecord]
    BY <1>0, <1>1
  <2>3. rowLock' \in [1..MaxRequests -> Call \cup {Nobody}] /\ pairLock' \in Call \cup {Nobody}
    BY <1>0, <1>1
  <2>4. {follows', blocks'} \subseteq SUBSET Person /\ conversation' \in Nat /\ messages' \in 0..MaxMessages
    BY <1>0, <1>1 DEF FindingsStand, OnThePair, BlockHoldsRows
  <2> QED BY <2>1, <2>2, <2>3, <2>4
<1>3. PairIsLocked'
  BY <1>0, <1>1 DEF PairIsLocked, OnThePair
<1>4. RowIsLocked'
  BY <1>0, <1>1 DEF RowIsLocked
<1>5. BlockHoldsRows'
  BY <1>0, <1>1 DEF BlockHoldsRows, FindingsStand, OnThePair, PairIsLocked
<1>6. FindingsStand'
  BY <1>0, <1>1 DEF FindingsStand, OnThePair, PairIsLocked
<1>7. Severed'
  BY <1>0, <1>1 DEF Severed, FindingsStand, BlockHoldsRows
<1>8. AtMostOne'
  BY <1>0, <1>1 DEF AtMostOne, FindingsStand
<1> QED BY <1>2, <1>3, <1>4, <1>5, <1>6, <1>7, <1>8

LEMMA UnfollowRelates ==
  ASSUME RelationsInv, NEW p \in Person, People!Unfollow(p)
  PROVE  RelationsInv'
<1> USE ApiAssumptions DEF People!Assumptions, RelationsInv, People!TypeOK, Requests, OpRecord
<1>1. /\ follows' = follows \ {p}
      /\ UNCHANGED <<blocks, asked, conversation, messages, pairLock, rowLock, operation>>
  BY DEF People!Unfollow, People!locks
<1>2. People!TypeOK'
  <2>1. asked' \in Requests /\ Len(asked') <= MaxRequests
    BY <1>1
  <2>2. operation' \in [Call -> OpRecord]
    BY <1>1
  <2>3. rowLock' \in [1..MaxRequests -> Call \cup {Nobody}] /\ pairLock' \in Call \cup {Nobody}
    BY <1>1
  <2>4. {follows', blocks'} \subseteq SUBSET Person /\ conversation' \in Nat /\ messages' \in 0..MaxMessages
    BY <1>1 DEF FindingsStand, OnThePair, BlockHoldsRows
  <2> QED BY <2>1, <2>2, <2>3, <2>4
<1>3. PairIsLocked'
  BY <1>1 DEF PairIsLocked, OnThePair
<1>4. RowIsLocked'
  BY <1>1 DEF RowIsLocked
<1>5. BlockHoldsRows'
  BY <1>1 DEF BlockHoldsRows, FindingsStand, OnThePair, PairIsLocked
<1>6. FindingsStand'
  BY <1>1 DEF FindingsStand, OnThePair, PairIsLocked
<1>7. Severed'
  BY <1>1 DEF Severed, FindingsStand, BlockHoldsRows
<1>8. AtMostOne'
  BY <1>1 DEF AtMostOne, FindingsStand
<1> QED BY <1>2, <1>3, <1>4, <1>5, <1>6, <1>7, <1>8

LEMMA UnblockRelates ==
  ASSUME RelationsInv, NEW p \in Person, People!Unblock(p)
  PROVE  RelationsInv'
<1> USE ApiAssumptions DEF People!Assumptions, RelationsInv, People!TypeOK, Requests, OpRecord
<1>1. /\ blocks' = blocks \ {p}
      /\ UNCHANGED <<follows, asked, conversation, messages, pairLock, rowLock, operation>>
  BY DEF People!Unblock, People!locks
<1>2. People!TypeOK'
  <2>1. asked' \in Requests /\ Len(asked') <= MaxRequests
    BY <1>1
  <2>2. operation' \in [Call -> OpRecord]
    BY <1>1
  <2>3. rowLock' \in [1..MaxRequests -> Call \cup {Nobody}] /\ pairLock' \in Call \cup {Nobody}
    BY <1>1
  <2>4. {follows', blocks'} \subseteq SUBSET Person /\ conversation' \in Nat /\ messages' \in 0..MaxMessages
    BY <1>1 DEF FindingsStand, OnThePair, BlockHoldsRows
  <2> QED BY <2>1, <2>2, <2>3, <2>4
<1>3. PairIsLocked'
  BY <1>1 DEF PairIsLocked, OnThePair
<1>4. RowIsLocked'
  BY <1>1 DEF RowIsLocked
<1>5. BlockHoldsRows'
  BY <1>1 DEF BlockHoldsRows, FindingsStand, OnThePair, PairIsLocked
<1>6. FindingsStand'
  BY <1>1 DEF FindingsStand, OnThePair, PairIsLocked
<1>7. Severed'
  BY <1>1 DEF Severed, FindingsStand, BlockHoldsRows
<1>8. AtMostOne'
  BY <1>1 DEF AtMostOne, FindingsStand
<1> QED BY <1>2, <1>3, <1>4, <1>5, <1>6, <1>7, <1>8
-----------------------------------------------------------------------------

LEMMA RelationsInit == People!Init => RelationsInv
<1> SUFFICES ASSUME People!Init PROVE RelationsInv
  OBVIOUS
<1> USE ApiAssumptions DEF People!Assumptions, People!Init, People!Idle
<1>1. People!TypeOK
  BY DEF People!TypeOK
<1> QED BY <1>1 DEF RelationsInv, PairIsLocked, OnThePair, RowIsLocked, BlockHoldsRows, FindingsStand, Severed,
                    AtMostOne

LEMMA RespondRelates ==
  ASSUME RelationsInv, NEW c \in Call, People!Respond(c)
  PROVE  RelationsInv'
<1> DEFINE r == operation[c].row
           st == People!NextStatus(operation[c].op)
<1>1. /\ operation[c].pc = "answering" /\ r \in DOMAIN asked
      /\ operation[c].seen = asked[r].status /\ operation[c].op \in {"accept", "decline", "cancel"}
  BY DEF People!Respond, RelationsInv, RowIsLocked
<1>2. CASE People!Refuse(c)
  BY <1>2, RefuseRelates
<1>3. CASE /\ operation[c].seen = "pending"
           /\ operation[c].op = "accept" => People!InStatus("accepted") = {}
           /\ asked' = [asked EXCEPT ![r].status = st] /\ People!Release(c)
           /\ UNCHANGED <<follows, blocks, conversation, messages>>
  <2>1. st \in {"accepted", "declined", "cancelled"} /\ (st = "accepted" => operation[c].op = "accept")
    BY <1>1 DEF People!NextStatus
  <2> HIDE DEF st
  <2> QED BY <1>1, <1>3, <2>1, AnsweredRelates
<1> QED BY <1>2, <1>3 DEF People!Respond

LEMMA RelationsStep == RelationsInv /\ [People!Next]_relations => RelationsInv'
<1> SUFFICES ASSUME RelationsInv, [People!Next]_relations PROVE RelationsInv'
  OBVIOUS
<1>1. CASE UNCHANGED relations
  BY <1>1 DEF relations, RelationsInv, People!TypeOK, PairIsLocked, RowIsLocked, BlockHoldsRows, FindingsStand,
              Severed, AtMostOne
<1>2. CASE \E c \in Call : \/ People!CheckBlock(c) \/ People!CheckFriends(c) \/ People!CheckOpen(c)
                           \/ People!LockRows(c) \/ People!Respond(c) \/ People!RollsBack(c)
  BY <1>2, BlockRelates, FriendsRelates, OpenRelates, LockRowsRelates, RespondRelates, RefuseRelates
     DEF People!RollsBack
<1>3. CASE \E c \in Call : \/ People!CommitFollow(c) \/ People!CommitRequest(c) \/ People!CommitConversation(c)
                           \/ People!CommitMessage(c) \/ People!CommitBlock(c)
  BY <1>3, CommitFollowRelates, CommitRequestRelates, CommitConversationRelates, CommitMessageRelates,
     CommitBlockRelates
<1>4. CASE \E c \in Call, p \in Person, op \in People!Operations : People!Begin(c, op, p)
  BY <1>4, BeginRelates
<1>5. CASE \E c \in Call, p \in Person, r \in DOMAIN asked, a \in {"accept", "decline", "cancel"} :
             People!ReadRequest(c, r, a, p)
  BY <1>5, ReadRequestRelates
<1>6. CASE \E p \in Person : People!Unfollow(p) \/ People!Unblock(p)
  BY <1>6, UnfollowRelates, UnblockRelates
<1> QED BY <1>1, <1>2, <1>3, <1>4, <1>5, <1>6 DEF People!Next, relations

-----------------------------------------------------------------------------
(* What the invariant gives. *)

LEMMA PeopleCardinality == \A S : People!Cardinality(S) = Cardinality(S)
BY DEF People!Cardinality, Cardinality

LEMMA AtMostOneOf ==
  ASSUME NEW S, \A a, b \in S : a = b
  PROVE  Cardinality(S) <= 1
<1>1. CASE S = {}
  BY <1>1, FS_EmptySet
<1>2. CASE S # {}
  <2>1. PICK a \in S : S = {a}
    BY <1>2
  <2> QED BY <2>1, FS_Singleton
<1> QED BY <1>1, <1>2

LEMMA RelationsSafe == RelationsInv => People!BlockSevers /\ People!OneOfEach
<1> SUFFICES ASSUME RelationsInv PROVE People!BlockSevers /\ People!OneOfEach
  OBVIOUS
<1>1. People!BlockSevers
  BY DEF RelationsInv, Severed, People!BlockSevers, People!InStatus
<1>2. ASSUME NEW st \in {"pending", "accepted"}
      PROVE  Cardinality(People!InStatus(st)) <= 1
  <2>1. \A q, r \in People!InStatus(st) : q = r
    BY DEF RelationsInv, AtMostOne, People!InStatus
  <2> QED BY <2>1, AtMostOneOf
<1>3. People!OneOfEach
  BY <1>2, PeopleCardinality DEF RelationsInv, AtMostOne, People!OneOfEach
<1> QED BY <1>1, <1>3

LEMMA MessagesKeepOut ==
  RelationsInv /\ [People!Next]_relations => (messages' # messages => blocks = {})
<1> SUFFICES ASSUME RelationsInv, [People!Next]_relations, messages' # messages PROVE blocks = {}
  OBVIOUS
<1>1. ASSUME NEW c \in Call, People!CommitMessage(c) PROVE blocks = {}
  BY <1>1 DEF RelationsInv, FindingsStand, People!CommitMessage
<1>2. \E c \in Call : People!CommitMessage(c)
  BY DEF People!Next, relations, People!CheckBlock, People!CheckFriends, People!CheckOpen, People!LockRows,
         People!CommitFollow, People!CommitRequest, People!CommitConversation, People!CommitBlock, People!Respond,
         People!RollsBack, People!Begin, People!ReadRequest, People!Unfollow, People!Unblock, People!Refuse,
         People!Move, People!tables
<1> QED BY <1>1, <1>2

FinalAnswers ==
  \A r \in DOMAIN asked :
    LET from == asked[r].status
        to == asked'[r].status
    IN from # to => from = "pending" \/ (from = "accepted" /\ to = "ended" /\ blocks' # {})

LEMMA AnswersStay == RelationsInv /\ [People!Next]_relations => FinalAnswers
<1> SUFFICES ASSUME RelationsInv, [People!Next]_relations PROVE FinalAnswers
  OBVIOUS
<1>1. CASE asked' = asked
  BY <1>1 DEF FinalAnswers
<1>2. ASSUME NEW c \in Call, People!CommitRequest(c) PROVE FinalAnswers
  <2>1. asked \in Requests
    BY DEF RelationsInv, People!TypeOK, Requests
  <2>2. \A r \in DOMAIN asked : asked'[r] = asked[r]
    BY <1>2, <2>1 DEF People!CommitRequest, Requests
  <2> QED BY <2>2 DEF FinalAnswers
<1>3. ASSUME NEW c \in Call, People!CommitBlock(c) PROVE FinalAnswers
  <2>1. blocks' # {}
    BY <1>3 DEF People!CommitBlock
  <2>2. \A r \in DOMAIN asked : asked'[r] = People!TornDown(asked[r], operation[c].by)
    BY <1>3 DEF People!CommitBlock
  <2>3. \A req \in [from : Person, status : People!Statuses] : \A p :
          req.status \notin {"pending", "accepted"} => People!TornDown(req, p) = req
    BY DEF People!TornDown, People!Statuses
  <2>4. \A req \in [from : Person, status : People!Statuses] : \A p :
          req.status = "accepted" => People!TornDown(req, p).status = "ended"
    BY DEF People!TornDown, People!Statuses
  <2>5. \A r \in DOMAIN asked : asked[r] \in [from : Person, status : People!Statuses]
    <3> DEFINE One == [from : Person, status : People!Statuses]
    <3>1. asked \in Seq(One)
      BY DEF RelationsInv, People!TypeOK
    <3> HIDE DEF One
    <3>2. \A r \in DOMAIN asked : asked[r] \in One
      BY <3>1
    <3> QED BY <3>2 DEF One
  <2> QED BY <2>1, <2>2, <2>3, <2>4, <2>5 DEF FinalAnswers
<1>4. ASSUME NEW c \in Call, People!Respond(c), asked' # asked PROVE FinalAnswers
  <2> DEFINE r == operation[c].row
  <2>1. asked[r].status = "pending" /\ \A q \in DOMAIN asked : q # r => asked'[q] = asked[q]
    BY <1>4 DEF People!Respond, People!Refuse, People!tables, RelationsInv, RowIsLocked
  <2> QED BY <2>1 DEF FinalAnswers
<1>5. CASE asked' # asked
  <2>1. \E c \in Call : People!CommitRequest(c) \/ People!CommitBlock(c) \/ People!Respond(c)
    BY <1>5 DEF People!Next, relations, People!CheckBlock, People!CheckFriends, People!CheckOpen, People!LockRows,
           People!CommitFollow, People!CommitConversation, People!CommitMessage, People!RollsBack, People!Begin,
           People!ReadRequest, People!Unfollow, People!Unblock, People!Refuse, People!Move, People!tables
  <2> QED BY <1>2, <1>3, <1>4, <1>5, <2>1
<1> QED BY <1>1, <1>5

(* Relations of two people: for any calls, and any number of requests and  *)
(* messages, a block that stands leaves no follow, friendship or open      *)
(* request, whatever was in progress; a pair has one conversation and at   *)
(* most one open request and one friendship; nothing is said across a      *)
(* block; and an answer is final.                                          *)
THEOREM SoundRelations == People!Spec => RelationsHold
<1> USE DEF relations, People!vars
<1>1. RelationsInv /\ [People!Next]_relations => RelationsInv'
  BY RelationsStep
<1>2. RelationsInv /\ [People!Next]_relations => [messages' # messages => blocks = {}]_relations
  BY MessagesKeepOut
<1>3. RelationsInv /\ [People!Next]_relations => [FinalAnswers]_relations
  BY AnswersStay
<1>4. People!Spec => []RelationsInv
  BY <1>1, RelationsInit, PTL DEF People!Spec
<1>5. People!Spec => [](People!BlockSevers /\ People!OneOfEach)
  BY <1>4, RelationsSafe, PTL
<1>6. People!Spec => People!NoMessageAcrossABlock
  BY <1>2, <1>4, PTL DEF People!Spec, People!NoMessageAcrossABlock
<1>7. People!Spec => People!AnswersAreFinal
  BY <1>3, <1>4, PTL DEF People!Spec, People!AnswersAreFinal, FinalAnswers
<1> QED BY <1>5, <1>6, <1>7 DEF RelationsHold, People!RelationsHold

-----------------------------------------------------------------------------
(* Sessions.  What is said of the rows is said of a value r of the table.  *)

SessionRow == [from : Nat, revoked : Nat, expires : Nat, password : Nat]
Tables == {r \in Seq(SessionRow) : \A d \in DOMAIN r : r[d].from < d}

Downward(r, set) == \A d \in DOMAIN r : r[d].from \in set => d \in set
ChainIn(r, s) == {d \in DOMAIN r : \A set \in SUBSET DOMAIN r : s \in set /\ Downward(r, set) => d \in set}
LiveIn(r, s) == r[s].revoked = 0

\* The chain of a row is the least set with it that rotations do not leave.
LEMMA ChainIs ==
  ASSUME NEW r, NEW s \in DOMAIN r
  PROVE  /\ s \in ChainIn(r, s) /\ ChainIn(r, s) \subseteq DOMAIN r /\ Downward(r, ChainIn(r, s))
         /\ \A set \in SUBSET DOMAIN r : s \in set /\ Downward(r, set) => ChainIn(r, s) \subseteq set
<1>1. ChainIn(r, s) \subseteq DOMAIN r /\ s \in ChainIn(r, s)
  BY DEF ChainIn
<1>2. Downward(r, ChainIn(r, s))
  <2> SUFFICES ASSUME NEW d \in DOMAIN r, r[d].from \in ChainIn(r, s),
                      NEW set \in SUBSET DOMAIN r, s \in set, Downward(r, set)
               PROVE  d \in set
    BY DEF Downward, ChainIn
  <2>1. r[d].from \in set
    BY DEF ChainIn
  <2> QED BY <2>1 DEF Downward
<1>3. \A set \in SUBSET DOMAIN r : s \in set /\ Downward(r, set) => ChainIn(r, s) \subseteq set
  BY DEF ChainIn
<1> QED BY <1>1, <1>2, <1>3

LEMMA ChainsNest ==
  ASSUME NEW r, NEW s \in DOMAIN r, NEW d \in ChainIn(r, s)
  PROVE  d \in DOMAIN r /\ ChainIn(r, d) \subseteq ChainIn(r, s)
<1>1. ChainIn(r, s) \in SUBSET DOMAIN r /\ Downward(r, ChainIn(r, s)) /\ d \in DOMAIN r
  BY ChainIs
<1> QED BY <1>1, ChainIs

\* Below a row lies what its successors lead to.
LEMMA BelowARow ==
  ASSUME NEW r, NEW s \in DOMAIN r, NEW d \in ChainIn(r, s), d # s
  PROVE  \E c \in DOMAIN r : r[c].from = s /\ d \in ChainIn(r, c)
<1> DEFINE set == {s} \cup {y \in DOMAIN r : \E c \in DOMAIN r : r[c].from = s /\ y \in ChainIn(r, c)}
<1>1. set \in SUBSET DOMAIN r /\ s \in set
  OBVIOUS
<1>2. ASSUME NEW e \in DOMAIN r, r[e].from \in set
      PROVE  e \in set
  <2>1. CASE r[e].from = s
    <3>1. e \in ChainIn(r, e)
      BY ChainIs
    <3> QED BY <2>1, <3>1
  <2>2. CASE r[e].from # s
    <3>1. PICK c \in DOMAIN r : r[c].from = s /\ r[e].from \in ChainIn(r, c)
      BY <1>2, <2>2
    <3>2. e \in ChainIn(r, c)
      BY <3>1, ChainIs DEF Downward
    <3> QED BY <3>1, <3>2
  <2> QED BY <2>1, <2>2
<1>3. Downward(r, set)
  BY <1>2 DEF Downward
<1>4. ChainIn(r, s) \subseteq set
  <2> HIDE DEF set
  <2> QED BY <1>1, <1>3, ChainIs
<1> QED BY <1>4

\* Revocations do not change what was rotated from what.
LEMMA SameChains ==
  ASSUME NEW r, NEW r2, DOMAIN r2 = DOMAIN r, \A d \in DOMAIN r : r2[d].from = r[d].from
  PROVE  \A s : ChainIn(r2, s) = ChainIn(r, s)
<1>1. \A set : Downward(r2, set) <=> Downward(r, set)
  BY DEF Downward
<1> QED BY <1>1 DEF ChainIn

\* A row was added that no row comes from.
AddedRow(r, r2, x) ==
  /\ x \notin DOMAIN r /\ DOMAIN r2 = DOMAIN r \cup {x} /\ r2[x].from # x
  /\ \A d \in DOMAIN r : r2[d].from = r[d].from /\ r[d].from # x

\* It is in the chains of the row it was rotated from, and in no other.
NewChains(r, r2, x, from) ==
  /\ \A s \in DOMAIN r : \A d \in ChainIn(r2, s) : d \in ChainIn(r, s) \/ (d = x /\ from \in ChainIn(r, s))
  /\ ChainIn(r2, x) = {x}

LEMMA GrownChains ==
  ASSUME NEW r, NEW r2, NEW x, AddedRow(r, r2, x)
  PROVE  NewChains(r, r2, x, r2[x].from)
<1> USE DEF AddedRow
<1>1. ASSUME NEW s \in DOMAIN r
      PROVE  \A d \in ChainIn(r2, s) : d \in ChainIn(r, s) \/ (d = x /\ r2[x].from \in ChainIn(r, s))
  <2> DEFINE set == ChainIn(r, s) \cup {y \in {x} : r2[x].from \in ChainIn(r, s)}
  <2>1. set \in SUBSET DOMAIN r2 /\ s \in set /\ s \in DOMAIN r2
    BY ChainIs
  <2>2. ASSUME NEW e \in DOMAIN r2, r2[e].from \in set
        PROVE  e \in set
    <3>1. CASE e = x
      BY <2>2, <3>1
    <3>2. CASE e # x
      <4>1. e \in DOMAIN r /\ r[e].from \in ChainIn(r, s)
        BY <2>2, <3>2
      <4>2. e \in ChainIn(r, s)
        BY <4>1, ChainIs DEF Downward
      <4> QED BY <4>2
    <3> QED BY <3>1, <3>2
  <2>3. Downward(r2, set)
    BY <2>2 DEF Downward
  <2>4. ChainIn(r2, s) \subseteq set
    <3> HIDE DEF set
    <3> QED BY <2>1, <2>3, ChainIs
  <2> QED BY <2>4
<1>2. ChainIn(r2, x) = {x}
  <2>1. Downward(r2, {x}) /\ {x} \in SUBSET DOMAIN r2 /\ x \in DOMAIN r2
    BY DEF Downward
  <2> QED BY <2>1, ChainIs
<1> QED BY <1>1, <1>2 DEF NewChains

\* A row is rotated once, and is revoked by that.
Successions(r) ==
  /\ \A d, e \in DOMAIN r : r[d].from # 0 /\ r[d].from = r[e].from => d = e
  /\ \A d \in DOMAIN r : r[d].from # 0 => ~LiveIn(r, r[d].from)

OneLive(r) == \A q \in DOMAIN r : \A s, d \in ChainIn(r, q) : LiveIn(r, s) /\ LiveIn(r, d) => s = d

\* Nothing under the rows of a set is live.
Dead(r, set) == set \subseteq DOMAIN r /\ \A s \in set : \A d \in ChainIn(r, s) : ~LiveIn(r, d)

\* Live tokens that were handed out are of logins with a password that is new enough.
Handed(r, set, least) == set \subseteq DOMAIN r /\ \A s \in set : LiveIn(r, s) => least <= r[s].password

Rows(r, given, over, out, least) ==
  /\ r \in Tables /\ Successions(r) /\ OneLive(r)
  /\ Dead(r, over) /\ Dead(r, out) /\ Handed(r, given, least)

RevokedIn(r, set, t) == [s \in DOMAIN r |-> IF s \in set /\ LiveIn(r, s) THEN [r[s] EXCEPT !.revoked = t] ELSE r[s]]

LEMMA RevokedIs ==
  ASSUME NEW r \in Tables, NEW set, NEW t \in Nat \ {0}, NEW r2, r2 = RevokedIn(r, set, t)
  PROVE  /\ r2 \in Tables /\ DOMAIN r2 = DOMAIN r /\ Len(r2) = Len(r)
         /\ \A d \in DOMAIN r : r2[d].from = r[d].from /\ r2[d].password = r[d].password
         /\ \A d \in DOMAIN r : LiveIn(r2, d) <=> (LiveIn(r, d) /\ d \notin set)
<1>1. r \in Seq(SessionRow) /\ DOMAIN r = 1..Len(r) /\ Len(r) \in Nat
  BY DEF Tables
<1>2. \A d \in DOMAIN r : r[d] \in SessionRow
  BY <1>1
<1>3. \A d \in DOMAIN r : r2[d] = IF d \in set /\ LiveIn(r, d) THEN [r[d] EXCEPT !.revoked = t] ELSE r[d]
  BY DEF RevokedIn
<1>4. DOMAIN r2 = DOMAIN r /\ r2 = [d \in DOMAIN r |-> r2[d]]
  BY DEF RevokedIn
<1>5. \A e \in SessionRow : LET u == [e EXCEPT !.revoked = t]
                           IN u \in SessionRow /\ u.from = e.from /\ u.password = e.password /\ u.revoked = t
  BY DEF SessionRow
<1>6. ASSUME NEW d \in DOMAIN r
      PROVE  /\ r2[d] \in SessionRow
             /\ r2[d].from = r[d].from
             /\ r2[d].password = r[d].password
             /\ (LiveIn(r2, d) <=> (LiveIn(r, d) /\ d \notin set))
  <2>1. CASE d \in set /\ LiveIn(r, d)
    <3>1. r2[d] = [r[d] EXCEPT !.revoked = t]
      BY <1>3, <2>1
    <3>2. r2[d] \in SessionRow /\ r2[d].from = r[d].from /\ r2[d].password = r[d].password /\ r2[d].revoked = t
      BY <1>2, <1>5, <3>1
    <3> QED BY <2>1, <3>2 DEF LiveIn
  <2>2. CASE ~(d \in set /\ LiveIn(r, d))
    <3>1. r2[d] = r[d]
      BY <1>3, <2>2
    <3> QED BY <1>2, <2>2, <3>1 DEF LiveIn
  <2> QED BY <2>1, <2>2
<1>7. r2 \in [1..Len(r) -> SessionRow]
  BY <1>1, <1>4, <1>6
<1>8. r2 \in Seq(SessionRow) /\ Len(r2) = Len(r)
  BY <1>1, <1>7, SeqDef
<1>9. \A d \in DOMAIN r2 : r2[d].from < d
  BY <1>4, <1>6 DEF Tables
<1> QED BY <1>4, <1>6, <1>8, <1>9 DEF Tables

LEMMA FromIs ==
  ASSUME NEW r \in Tables, NEW d \in DOMAIN r
  PROVE  /\ r[d].from \in Nat /\ r[d].password \in Nat /\ r[d].revoked \in Nat /\ d \in Nat \ {0}
         /\ r[d].from # 0 => r[d].from \in DOMAIN r
<1>1. r \in Seq(SessionRow) /\ DOMAIN r = 1..Len(r) /\ Len(r) \in Nat /\ r[d].from < d
  BY DEF Tables
<1>2. r[d] \in SessionRow
  BY <1>1
<1>3. r[d].from \in Nat /\ r[d].password \in Nat /\ r[d].revoked \in Nat
  BY <1>2 DEF SessionRow
<1> QED BY <1>1, <1>3

\* Whatever is revoked, and when.
LEMMA Revoking ==
  ASSUME NEW r, NEW given, NEW over, NEW out, NEW least, Rows(r, given, over, out, least),
         NEW set, NEW t \in Nat \ {0}, NEW r2, r2 = RevokedIn(r, set, t)
  PROVE  Rows(r2, given, over, out, least)
<1>1. /\ r \in Tables /\ r2 \in Tables /\ DOMAIN r2 = DOMAIN r
      /\ \A d \in DOMAIN r : r2[d].from = r[d].from /\ r2[d].password = r[d].password
      /\ \A d \in DOMAIN r : LiveIn(r2, d) => LiveIn(r, d)
  BY RevokedIs DEF Rows
<1>2. \A s : ChainIn(r2, s) = ChainIn(r, s)
  BY <1>1, SameChains
<1>3. \A s \in DOMAIN r : ChainIn(r, s) \subseteq DOMAIN r
  BY ChainIs
<1>4. Successions(r2)
  <2>1. \A d \in DOMAIN r : r[d].from # 0 => r[d].from \in DOMAIN r
    BY <1>1, FromIs
  <2> QED BY <1>1, <2>1 DEF Rows, Successions
<1>5. OneLive(r2)
  BY <1>1, <1>2, <1>3 DEF Rows, OneLive
<1>6. Dead(r2, over) /\ Dead(r2, out)
  BY <1>1, <1>2, <1>3 DEF Rows, Dead
<1>7. Handed(r2, given, least)
  BY <1>1 DEF Rows, Handed
<1> QED BY <1>1, <1>4, <1>5, <1>6, <1>7 DEF Rows

\* Nothing was rotated from a row, and nothing is live in the chains it is in.
Retired(r, over, out, f) ==
  /\ \A e \in DOMAIN r : r[e].from # f
  /\ \A q \in DOMAIN r : f \in ChainIn(r, q) =>
       q \notin over \cup out /\ \A d \in ChainIn(r, q) : ~LiveIn(r, d)

\* A live row that is rotated may be followed by a successor.
LEMMA RotatedRow ==
  ASSUME NEW r, NEW given, NEW over, NEW out, NEW least, Rows(r, given, over, out, least),
         NEW f \in DOMAIN r, LiveIn(r, f), NEW t \in Nat \ {0}, NEW r2, r2 = RevokedIn(r, {f}, t)
  PROVE  Retired(r2, over, out, f)
<1>1. /\ r \in Tables /\ DOMAIN r2 = DOMAIN r
      /\ \A d \in DOMAIN r : r2[d].from = r[d].from
      /\ \A d \in DOMAIN r : LiveIn(r2, d) <=> LiveIn(r, d) /\ d # f
  BY RevokedIs DEF Rows
<1>2. \A s : ChainIn(r2, s) = ChainIn(r, s)
  BY <1>1, SameChains
<1>3. \A e \in DOMAIN r2 : r2[e].from # f
  <2>1. f # 0
    BY <1>1, FromIs
  <2> QED BY <1>1, <2>1 DEF Rows, Successions
<1>4. ASSUME NEW q \in DOMAIN r, f \in ChainIn(r, q)
      PROVE  q \notin over \cup out /\ \A d \in ChainIn(r, q) : ~LiveIn(r2, d)
  <2>1. \A d \in ChainIn(r, q) : d \in DOMAIN r /\ (LiveIn(r, d) => d = f)
    BY <1>4, ChainIs DEF Rows, OneLive
  <2>2. q \notin over \cup out
    BY <1>4 DEF Rows, Dead
  <2> QED BY <1>1, <2>1, <2>2
<1> QED BY <1>1, <1>2, <1>3, <1>4 DEF Retired

\* A row that may be inserted: of a login, or after a row that was just retired.
Fits(r, over, out, n) ==
  /\ n \in SessionRow /\ n.revoked = 0
  /\ \/ n.from = 0
     \/ n.from \in DOMAIN r /\ ~LiveIn(r, n.from) /\ Retired(r, over, out, n.from)

Larger(r, r2, n) ==
  /\ DOMAIN r2 = DOMAIN r \cup {Len(r) + 1} /\ r2[Len(r) + 1] = n
  /\ \A d \in DOMAIN r : r2[d] = r[d]

LEMMA Inserting ==
  ASSUME NEW r, NEW given, NEW over, NEW out, NEW least, Rows(r, given, over, out, least),
         NEW n, Fits(r, over, out, n), NEW r2, r2 = Append(r, n)
  PROVE  Rows(r2, given, over, out, least) /\ Larger(r, r2, n)
<1> DEFINE x == Len(r) + 1
<1>1. r \in Tables /\ r \in Seq(SessionRow) /\ DOMAIN r = 1..Len(r) /\ Len(r) \in Nat /\ n \in SessionRow
  BY DEF Rows, Tables, Fits
<1>2. r2 \in Seq(SessionRow) /\ Len(r2) = x /\ DOMAIN r2 = 1..x
  BY <1>1
<1>3. DOMAIN r2 = DOMAIN r \cup {x} /\ x \notin DOMAIN r
  BY <1>1, <1>2
<1>4. r2[x] = n /\ \A d \in DOMAIN r : r2[d] = r[d]
  BY <1>1
<1>5. n.from \in Nat /\ n.from < x /\ x \in Nat \ {0}
  BY <1>1 DEF SessionRow, Fits
<1>6. \A d \in DOMAIN r : r[d].from \in Nat /\ r[d].from < d /\ d < x /\ (r[d].from # 0 => r[d].from \in DOMAIN r)
  <2>1. \A d \in DOMAIN r : r[d].from \in Nat /\ (r[d].from # 0 => r[d].from \in DOMAIN r)
    BY <1>1, FromIs
  <2> QED BY <1>1, <2>1 DEF Tables
<1>7. r2 \in Tables
  BY <1>2, <1>3, <1>4, <1>5, <1>6 DEF Tables
<1> HIDE DEF x
<1>8. /\ \A s \in DOMAIN r : \A d \in ChainIn(r2, s) :
           d \in ChainIn(r, s) \/ (d = x /\ n.from \in ChainIn(r, s))
      /\ ChainIn(r2, x) = {x}
  <2>1. \A d \in DOMAIN r : r2[d].from = r[d].from /\ r[d].from # x
    BY <1>3, <1>4, <1>5, <1>6
  <2>2. r2[x].from # x /\ r2[x].from = n.from
    BY <1>4, <1>5
  <2>3. AddedRow(r, r2, x)
    BY <1>3, <2>1, <2>2 DEF AddedRow
  <2>4. NewChains(r, r2, x, r2[x].from)
    BY <2>3, GrownChains
  <2> QED BY <2>2, <2>4 DEF NewChains
<1>9. \A s \in DOMAIN r : ChainIn(r, s) \subseteq DOMAIN r
  BY ChainIs
<1>10. \A d \in DOMAIN r : LiveIn(r2, d) <=> LiveIn(r, d)
  BY <1>4 DEF LiveIn
<1>11. Successions(r2)
  <2>1. \A d, e \in DOMAIN r2 : r2[d].from # 0 /\ r2[d].from = r2[e].from => d = e
    BY <1>3, <1>4 DEF Rows, Successions, Fits, Retired
  <2>2. \A d \in DOMAIN r2 : r2[d].from # 0 => ~LiveIn(r2, r2[d].from)
    <3>1. \A d \in DOMAIN r : r[d].from # 0 => ~LiveIn(r2, r[d].from)
      BY <1>6, <1>10 DEF Rows, Successions
    <3>2. n.from # 0 => ~LiveIn(r2, n.from)
      BY <1>10 DEF Fits
    <3> QED BY <1>3, <1>4, <3>1, <3>2
  <2> QED BY <2>1, <2>2 DEF Successions
<1>12. 0 \notin DOMAIN r
  BY <1>1
<1>13. \A q \in DOMAIN r : n.from \in ChainIn(r, q) =>
          q \notin over \cup out /\ \A d \in ChainIn(r, q) : ~LiveIn(r, d)
  BY <1>9, <1>12 DEF Fits, Retired
<1>14. OneLive(r2)
  <2> SUFFICES ASSUME NEW q \in DOMAIN r2, NEW s \in ChainIn(r2, q), NEW d \in ChainIn(r2, q),
                      LiveIn(r2, s), LiveIn(r2, d)
               PROVE  s = d
    BY DEF OneLive
  <2>1. CASE q = x
    BY <1>8, <2>1
  <2>2. CASE q \in DOMAIN r /\ n.from \in ChainIn(r, q)
    <3>1. \A e \in ChainIn(r2, q) : LiveIn(r2, e) => e = x
      BY <1>8, <1>9, <1>10, <1>13, <2>2
    <3> QED BY <3>1
  <2>3. CASE q \in DOMAIN r /\ n.from \notin ChainIn(r, q)
    <3>1. s \in ChainIn(r, q) /\ d \in ChainIn(r, q)
      BY <1>8, <2>3
    <3> QED BY <1>9, <1>10, <2>3, <3>1 DEF Rows, OneLive
  <2> QED BY <1>3, <2>1, <2>2, <2>3
<1>15. ASSUME NEW set \in {over, out}
       PROVE  Dead(r2, set)
  <2>1. Dead(r, set)
    BY <1>15 DEF Rows
  <2>2. ASSUME NEW s \in set, NEW d \in ChainIn(r2, s)
        PROVE  ~LiveIn(r2, d)
    <3>1. s \in DOMAIN r /\ n.from \notin ChainIn(r, s)
      BY <1>13, <1>15, <2>1, <2>2 DEF Dead
    <3>2. d \in ChainIn(r, s) /\ d \in DOMAIN r
      BY <1>8, <1>9, <2>2, <3>1
    <3> QED BY <1>10, <2>1, <2>2, <3>2 DEF Dead
  <2> QED BY <1>3, <2>1, <2>2 DEF Dead
<1>16. Handed(r2, given, least)
  BY <1>3, <1>4, <1>10 DEF Rows, Handed
<1>17. Dead(r2, over) /\ Dead(r2, out)
  BY <1>15
<1> QED BY <1>3, <1>4, <1>7, <1>11, <1>14, <1>16, <1>17 DEF Rows, Larger, x

\* In one login a live row is in the chain of every other row: a sign-out reaches it.
LEMMA LiveIsLast ==
  ASSUME NEW r \in Tables, Successions(r), NEW q \in DOMAIN r, NEW s \in ChainIn(r, q), NEW x \in ChainIn(r, q),
         LiveIn(r, x)
  PROVE  x \in ChainIn(r, s)
<1> DEFINE A == {d \in ChainIn(r, q) : s \in ChainIn(r, d)}
           set == A \cup ChainIn(r, s)
<1>1. ChainIn(r, q) \subseteq DOMAIN r /\ s \in DOMAIN r /\ x \in DOMAIN r
  BY ChainIs
<1>2. set \in SUBSET DOMAIN r /\ q \in set
  <2>1. q \in ChainIn(r, q) /\ ChainIn(r, s) \subseteq DOMAIN r
    BY <1>1, ChainIs
  <2> QED BY <1>1, <2>1
<1>3. ASSUME NEW e \in DOMAIN r, r[e].from \in set
      PROVE  e \in set
  <2>1. CASE r[e].from \in ChainIn(r, s)
    BY <1>1, <2>1, ChainIs DEF Downward
  <2>2. CASE r[e].from \in A /\ r[e].from = s
    <3>1. s \in ChainIn(r, s)
      BY <1>1, ChainIs
    <3> QED BY <1>1, <2>2, <3>1, ChainIs DEF Downward
  <2>3. CASE r[e].from \in A /\ r[e].from # s
    <3> DEFINE d == r[e].from
    <3>1. d \in ChainIn(r, q) /\ s \in ChainIn(r, d) /\ d \in DOMAIN r /\ d # s
      BY <1>1, <2>3
    <3>2. PICK c \in DOMAIN r : r[c].from = d /\ s \in ChainIn(r, c)
      BY <3>1, BelowARow
    <3>3. d # 0
      BY <3>1, FromIs
    <3>4. c = e
      BY <3>2, <3>3 DEF Successions
    <3>5. e \in ChainIn(r, q)
      BY <3>1, ChainIs DEF Downward
    <3> QED BY <3>2, <3>4, <3>5
  <2> QED BY <1>3, <2>1, <2>2, <2>3
<1>4. Downward(r, set)
  BY <1>3 DEF Downward
<1>5. ChainIn(r, q) \subseteq set
  <2> HIDE DEF set
  <2> QED BY <1>2, <1>4, ChainIs
<1>6. CASE x \in A
  <2>1. s \in ChainIn(r, x)
    BY <1>6
  <2>2. CASE s # x
    <3>1. PICK c \in DOMAIN r : r[c].from = x
      BY <1>1, <2>1, <2>2, BelowARow
    <3>2. x # 0
      BY <1>1, FromIs
    <3> QED BY <3>1, <3>2 DEF Successions
  <2>3. CASE s = x
    BY <2>1, <2>3
  <2> QED BY <2>2, <2>3
<1> QED BY <1>5, <1>6

-----------------------------------------------------------------------------
(* The calls of an account. *)

CallState ==
  [pc : {"idle", "verified", "created", "outdated", "rotating", "rejecting", "burning", "hashing", "revoking"},
   row : Nat, at : Nat, password : Nat]

\* What a call knows stays true: the row it made, the token it was shown, the password it saw.
CallKnows(k, r, pw, given, t) ==
  /\ k \in CallState /\ k.at <= t /\ k.password <= pw
  /\ k.pc \in {"created", "outdated"} => k.row \in DOMAIN r
  /\ k.pc = "created" => r[k.row].password = k.password
  /\ k.pc \in {"rotating", "rejecting", "burning"} => k.row \in given /\ k.at # 0

AccountsInv ==
  /\ Rows(session, handed, ended, signedOut, changed)
  /\ password \in Nat /\ time \in Nat \ {0} /\ changed \in Nat /\ changed <= password
  /\ request = [c \in Call |-> request[c]]
  /\ \A c \in Call : CallKnows(request[c], session, password, handed, time)

\* Nothing is lost: rows keep their passwords, tokens stay handed out, and time passes.
Gains(r, r2, pw, pw2, given, given2, t, t2) ==
  /\ \A d \in DOMAIN r : d \in DOMAIN r2 /\ r2[d].password = r[d].password
  /\ pw2 \in Nat /\ pw <= pw2 /\ given \subseteq given2 /\ t2 \in Nat \ {0} /\ t <= t2

LEMMA StillKnows ==
  ASSUME NEW r, NEW r2, NEW pw \in Nat, NEW pw2, NEW given, NEW given2, NEW t \in Nat, NEW t2,
         Gains(r, r2, pw, pw2, given, given2, t, t2), NEW k, CallKnows(k, r, pw, given, t)
  PROVE  CallKnows(k, r2, pw2, given2, t2)
<1>1. k.at \in Nat /\ k.password \in Nat
  BY DEF CallKnows, CallState
<1>2. k.at <= t2 /\ k.password <= pw2
  BY <1>1 DEF Gains, CallKnows
<1> QED BY <1>2 DEF Gains, CallKnows

\* A step of one call, or of none.
LEMMA AccountStep ==
  ASSUME AccountsInv, Rows(session, handed, ended, signedOut, changed)',
         Gains(session, session', password, password', handed, handed', time, time'),
         changed' \in Nat, changed' <= password',
         \/ request' = request
         \/ \E c \in Call : \E to : /\ request' = [request EXCEPT ![c] = to]
                                    /\ CallKnows(to, session', password', handed', time')
  PROVE  AccountsInv'
<1>1. /\ password \in Nat /\ time \in Nat /\ request = [c \in Call |-> request[c]]
      /\ \A c \in Call : CallKnows(request[c], session, password, handed, time)
  BY DEF AccountsInv
<1>2. \A c \in Call : CallKnows(request[c], session', password', handed', time')
  BY <1>1, StillKnows
<1>3. password' \in Nat /\ time' \in Nat \ {0}
  BY DEF Gains
<1>4. CASE request' = request
  BY <1>1, <1>2, <1>3, <1>4 DEF AccountsInv
<1>5. CASE \E c \in Call : \E to : /\ request' = [request EXCEPT ![c] = to]
                                   /\ CallKnows(to, session', password', handed', time')
  <2>1. PICK c \in Call : \E to : /\ request' = [request EXCEPT ![c] = to]
                                  /\ CallKnows(to, session', password', handed', time')
    BY <1>5
  <2>2. PICK to : request' = [request EXCEPT ![c] = to] /\ CallKnows(to, session', password', handed', time')
    BY <2>1
  <2>3. request' = [d \in Call |-> IF d = c THEN to ELSE request[d]]
    BY <1>1, <2>2
  <2>4. request' = [d \in Call |-> request'[d]] /\ \A d \in Call : request'[d] = IF d = c THEN to ELSE request[d]
    BY <2>3
  <2>5. \A d \in Call : CallKnows(request'[d], session', password', handed', time')
    BY <1>2, <2>2, <2>4
  <2> QED BY <1>3, <2>4, <2>5 DEF AccountsInv
<1> QED BY <1>4, <1>5

LEMMA SameRows ==
  ASSUME AccountsInv, UNCHANGED <<session, password, time>>, handed \subseteq handed'
  PROVE  Gains(session, session', password, password', handed, handed', time, time')
BY DEF AccountsInv, Gains

\* A token is handed out, for a login with the newest password there is.
LEMMA HandingOut ==
  ASSUME NEW r, NEW given, NEW over, NEW out, NEW least, Rows(r, given, over, out, least),
         NEW s \in DOMAIN r, LiveIn(r, s) => least <= r[s].password
  PROVE  Rows(r, given \cup {s}, over, out, least)
BY DEF Rows, Handed

\* The instance says of the table what the lemmas say of a value.
LEMMA OfTheTable ==
  /\ \A s : Accounts!Chain(s) = ChainIn(session, s)
  /\ \A set, t : Accounts!RevokedAt(set, t) = RevokedIn(session, set, t)
  /\ \A s : Accounts!Live(s) <=> LiveIn(session, s)
BY DEF Accounts!Chain, Accounts!Closed, Accounts!RevokedAt, Accounts!Live, ChainIn, Downward, RevokedIn, LiveIn

LEMMA ClocksRun ==
  ASSUME AccountsInv, NEW t \in Accounts!Clocks
  PROVE  t \in Nat \ {0} /\ t <= time
BY DEF AccountsInv, Accounts!Clocks

LEMMA RevokingGains ==
  ASSUME AccountsInv, NEW set, NEW t \in Nat \ {0}, session' = RevokedIn(session, set, t), UNCHANGED <<time, handed>>,
         password' = password
  PROVE  Gains(session, session', password, password', handed, handed', time, time')
<1>1. session \in Tables
  BY DEF AccountsInv, Rows
<1>2. DOMAIN session' = DOMAIN session /\ \A d \in DOMAIN session : session'[d].password = session[d].password
  <2>1. PICK r2 : r2 = RevokedIn(session, set, t)
    OBVIOUS
  <2>2. DOMAIN r2 = DOMAIN session /\ \A d \in DOMAIN session : r2[d].password = session[d].password
    BY <1>1, <2>1, RevokedIs
  <2> QED BY <2>1, <2>2
<1> QED BY <1>2 DEF AccountsInv, Gains

LEMMA CallFields ==
  ASSUME NEW k \in CallState
  PROVE  k.row \in Nat /\ k.at \in Nat /\ k.password \in Nat
BY DEF CallState

\* A call that has ended knows nothing.
LEMMA NothingKnown ==
  ASSUME NEW r, NEW pw \in Nat, NEW given, NEW t \in Nat
  PROVE  CallKnows(Accounts!Idle, r, pw, given, t)
<1>1. /\ Accounts!Idle \in CallState /\ Accounts!Idle.pc = "idle"
      /\ Accounts!Idle.at = 0 /\ Accounts!Idle.password = 0
  BY DEF CallState, Accounts!Idle
<1> QED BY <1>1 DEF CallKnows

LEMMA ResettingKeepsAccounts ==
  ASSUME AccountsInv, NEW c \in Call,
         Accounts!VerifyPassword(c) \/ Accounts!StartReset(c) \/ Accounts!SetPassword(c) \/ Accounts!Fails(c)
  PROVE  AccountsInv'
<1>1. /\ password \in Nat /\ changed \in Nat /\ changed <= password /\ time \in Nat \ {0}
      /\ CallKnows(request[c], session, password, handed, time)
      /\ Rows(session, handed, ended, signedOut, changed)
  BY DEF AccountsInv
<1>2. UNCHANGED <<session, time, handed, ended, signedOut, changed>> /\ password' \in Nat /\ password <= password'
  BY <1>1 DEF Accounts!VerifyPassword, Accounts!StartReset, Accounts!SetPassword, Accounts!Fails, Accounts!history
<1>3. Gains(session, session', password, password', handed, handed', time, time')
  BY <1>1, <1>2 DEF Gains
<1>4. request[c] \in CallState /\ request[c].at \in Nat /\ request[c].at <= time
  BY <1>1, CallFields DEF CallKnows
<1>5. \E to : request' = [request EXCEPT ![c] = to] /\ CallKnows(to, session', password', handed', time')
  <2>1. CASE Accounts!VerifyPassword(c)
    <3> DEFINE to == [Accounts!Idle EXCEPT !.pc = "verified", !.password = password]
    <3>1. to \in CallState /\ to.pc = "verified" /\ to.at = 0 /\ to.password = password
      BY <1>1 DEF CallState, Accounts!Idle
    <3>2. CallKnows(to, session', password', handed', time')
      BY <1>1, <1>2, <3>1 DEF CallKnows
    <3>3. request' = [request EXCEPT ![c] = to]
      BY <2>1 DEF Accounts!VerifyPassword, Accounts!Do
    <3> QED BY <3>2, <3>3
  <2>2. CASE Accounts!StartReset(c)
    <3> DEFINE to == [Accounts!Idle EXCEPT !.pc = "hashing"]
    <3>1. to \in CallState /\ to.pc = "hashing" /\ to.at = 0 /\ to.password = 0
      BY DEF CallState, Accounts!Idle
    <3>2. CallKnows(to, session', password', handed', time')
      BY <1>1, <1>2, <3>1 DEF CallKnows
    <3>3. request' = [request EXCEPT ![c] = to]
      BY <2>2 DEF Accounts!StartReset, Accounts!Do
    <3> QED BY <3>2, <3>3
  <2>3. CASE Accounts!SetPassword(c)
    <3> DEFINE m == [request[c] EXCEPT !.pc = "revoking"]
               to == [m EXCEPT !.password = password + 1]
    <3>0. m \in CallState /\ m.pc = "revoking" /\ m.at = request[c].at
      BY <1>4 DEF CallState
    <3>1. to \in CallState /\ to.pc = "revoking" /\ to.at = request[c].at /\ to.password = password + 1
      <4> HIDE DEF m
      <4> QED BY <1>1, <3>0 DEF CallState
    <3>2. password' = password + 1 /\ request' = [request EXCEPT ![c] = to]
      BY <2>3 DEF Accounts!SetPassword, Accounts!Do
    <3>3. CallKnows(to, session', password', handed', time')
      <4> HIDE DEF to
      <4> QED BY <1>1, <1>2, <1>4, <3>1, <3>2 DEF CallKnows
    <3> QED BY <3>2, <3>3
  <2>4. CASE Accounts!Fails(c)
    <3>1. CallKnows(Accounts!Idle, session', password', handed', time')
      BY <1>1, <1>2, NothingKnown
    <3>2. request' = [request EXCEPT ![c] = Accounts!Idle]
      BY <2>4 DEF Accounts!Fails, Accounts!Do
    <3> QED BY <3>1, <3>2
  <2> QED BY <2>1, <2>2, <2>3, <2>4
<1>6. Rows(session, handed, ended, signedOut, changed)' /\ changed' \in Nat /\ changed' <= password'
  BY <1>1, <1>2
<1> QED BY <1>3, <1>5, <1>6, AccountStep

LEMMA CreatingKeepsAccounts ==
  ASSUME AccountsInv, NEW c \in Call, NEW t \in Accounts!Clocks, Accounts!CreateSession(c, t)
  PROVE  AccountsInv'
<1>1. /\ password \in Nat /\ changed \in Nat /\ changed <= password /\ time \in Nat \ {0}
      /\ CallKnows(request[c], session, password, handed, time)
      /\ Rows(session, handed, ended, signedOut, changed)
  BY DEF AccountsInv
<1>2. UNCHANGED <<password, time, handed, ended, signedOut, changed>>
  BY DEF Accounts!CreateSession, Accounts!history
<1> DEFINE k == request[c]
           n == [from |-> 0, revoked |-> 0, expires |-> t + Ttl, password |-> k.password]
           m == [k EXCEPT !.pc = "created"]
           to == [m EXCEPT !.row = Len(session) + 1]
<1>3. k \in CallState /\ k.row \in Nat /\ k.at \in Nat /\ k.password \in Nat /\ k.at <= time /\ k.password <= password
  BY <1>1, CallFields DEF CallKnows
<1>4. n \in SessionRow /\ n.revoked = 0 /\ n.from = 0 /\ n.password = k.password
  BY <1>3, ClocksRun, ApiAssumptions DEF SessionRow, Accounts!Assumptions
<1>5. session' = Append(session, n) /\ request' = [request EXCEPT ![c] = to]
  BY DEF Accounts!CreateSession, Accounts!Insert, Accounts!Do
<1>6. Len(session) \in Nat
  BY <1>1 DEF Rows, Tables
<1>7. to \in CallState /\ to.pc = "created" /\ to.row = Len(session) + 1 /\ to.at = k.at /\ to.password = k.password
  <2>1. m \in CallState /\ m.pc = "created" /\ m.at = k.at /\ m.password = k.password
    BY <1>3 DEF CallState
  <2> HIDE DEF m
  <2> QED BY <1>6, <2>1 DEF CallState
<1>8. PICK r2 : r2 = Append(session, n)
  OBVIOUS
<1> HIDE DEF n, to, k
<1>9. /\ Rows(r2, handed, ended, signedOut, changed) /\ r2[Len(session) + 1] = n
      /\ DOMAIN r2 = DOMAIN session \cup {Len(session) + 1} /\ \A d \in DOMAIN session : r2[d] = session[d]
  <2>1. Fits(session, ended, signedOut, n)
    BY <1>4 DEF Fits
  <2>2. Rows(r2, handed, ended, signedOut, changed) /\ Larger(session, r2, n)
    BY <1>1, <1>8, <2>1, Inserting
  <2> QED BY <2>2 DEF Larger
<1>10. Gains(session, session', password, password', handed, handed', time, time')
  BY <1>1, <1>2, <1>5, <1>8, <1>9 DEF Gains
<1>11. CallKnows(to, session', password', handed', time')
  BY <1>2, <1>3, <1>4, <1>5, <1>7, <1>8, <1>9 DEF CallKnows
<1>12. Rows(session, handed, ended, signedOut, changed)'
  BY <1>2, <1>5, <1>8, <1>9
<1> QED BY <1>1, <1>2, <1>5, <1>10, <1>11, <1>12, AccountStep

LEMMA AnsweringKeepsAccounts ==
  ASSUME AccountsInv, NEW c \in Call, Accounts!ReadHashAgain(c)
  PROVE  AccountsInv'
<1>1. /\ password \in Nat /\ changed \in Nat /\ changed <= password /\ time \in Nat \ {0}
      /\ CallKnows(request[c], session, password, handed, time)
      /\ Rows(session, handed, ended, signedOut, changed)
  BY DEF AccountsInv
<1>2. UNCHANGED <<session, password, time, ended, signedOut, changed>> /\ request[c].pc = "created"
  BY DEF Accounts!ReadHashAgain, Accounts!history
<1> DEFINE k == request[c]
<1>3. /\ k \in CallState /\ k.at <= time /\ k.password <= password /\ k.row \in DOMAIN session
      /\ session[k.row].password = k.password
  BY <1>1, <1>2 DEF CallKnows
<1>4. CASE Accounts!SamePassword(c)
  <2>1. handed' = handed \cup {k.row} /\ request' = [request EXCEPT ![c] = Accounts!Idle]
    BY <1>4 DEF Accounts!ReadHashAgain, Accounts!Do
  <2>2. changed <= session[k.row].password
    BY <1>1, <1>3, <1>4 DEF Accounts!SamePassword
  <2>3. Rows(session, handed, ended, signedOut, changed)'
    BY <1>1, <1>2, <1>3, <2>1, <2>2, HandingOut
  <2>4. Gains(session, session', password, password', handed, handed', time, time')
    BY <1>2, <2>1, SameRows
  <2>5. CallKnows(Accounts!Idle, session', password', handed', time')
    BY <1>1, <1>2, NothingKnown
  <2> QED BY <1>1, <1>2, <2>1, <2>3, <2>4, <2>5, AccountStep
<1>5. CASE ~Accounts!SamePassword(c)
  <2> DEFINE to == [k EXCEPT !.pc = "outdated"]
  <2>1. handed' = handed /\ request' = [request EXCEPT ![c] = to]
    BY <1>5 DEF Accounts!ReadHashAgain, Accounts!Do
  <2>2. to \in CallState /\ to.pc = "outdated" /\ to.row = k.row /\ to.at = k.at /\ to.password = k.password
    BY <1>3 DEF CallState
  <2>3. CallKnows(to, session', password', handed', time')
    <3> HIDE DEF to, k
    <3> QED BY <1>2, <1>3, <2>1, <2>2 DEF CallKnows
  <2>4. Gains(session, session', password, password', handed, handed', time, time')
    BY <1>2, <2>1, SameRows
  <2> QED BY <1>1, <1>2, <2>1, <2>3, <2>4, AccountStep
<1> QED BY <1>4, <1>5

LEMMA RefusingKeepsAccounts ==
  ASSUME AccountsInv, NEW c \in Call, NEW t \in Accounts!Clocks, Accounts!RefuseLogin(c, t)
  PROVE  AccountsInv'
<1>1. /\ password \in Nat /\ changed \in Nat /\ changed <= password /\ time \in Nat \ {0}
      /\ CallKnows(request[c], session, password, handed, time)
      /\ Rows(session, handed, ended, signedOut, changed)
  BY DEF AccountsInv
<1>2. /\ UNCHANGED <<password, time, handed, ended, signedOut, changed>>
      /\ session' = Accounts!RevokedAt({request[c].row}, t) /\ request' = [request EXCEPT ![c] = Accounts!Idle]
  BY DEF Accounts!RefuseLogin, Accounts!history, Accounts!Do
<1>3. t \in Nat \ {0}
  BY ClocksRun
<1>4. session' = RevokedIn(session, {request[c].row}, t)
  BY <1>2, OfTheTable
<1>5. PICK r2 : r2 = RevokedIn(session, {request[c].row}, t)
  OBVIOUS
<1>6. Rows(r2, handed, ended, signedOut, changed)
  BY <1>1, <1>3, <1>5, Revoking
<1>7. Gains(session, session', password, password', handed, handed', time, time')
  BY <1>2, <1>3, <1>4, RevokingGains
<1>8. CallKnows(Accounts!Idle, session', password', handed', time')
  BY <1>1, <1>2, NothingKnown
<1> QED BY <1>1, <1>2, <1>4, <1>5, <1>6, <1>7, <1>8, AccountStep

LEMMA PresentingKeepsAccounts ==
  ASSUME AccountsInv, NEW c \in Call, NEW t \in Accounts!Clocks,
         \/ \E s \in DOMAIN session : Accounts!Present(c, s, t)
         \/ Accounts!RotationCollides(c, t)
         \/ Accounts!Reject(c)
  PROVE  AccountsInv'
<1>1. /\ password \in Nat /\ changed \in Nat /\ changed <= password /\ time \in Nat \ {0}
      /\ CallKnows(request[c], session, password, handed, time)
      /\ Rows(session, handed, ended, signedOut, changed)
  BY DEF AccountsInv
<1>2. UNCHANGED <<session, password, time, handed, ended, signedOut, changed>>
  BY DEF Accounts!Present, Accounts!RotationCollides, Accounts!Reject, Accounts!history
<1>3. t \in Nat \ {0} /\ t <= time
  BY ClocksRun
<1>4. request[c] \in CallState /\ request[c].at <= time /\ request[c].password <= password
  BY <1>1 DEF CallKnows
<1>5. \E to : request' = [request EXCEPT ![c] = to] /\ CallKnows(to, session', password', handed', time')
  <2>1. ASSUME NEW s \in DOMAIN session, Accounts!Present(c, s, t)
        PROVE  \E to : request' = [request EXCEPT ![c] = to] /\ CallKnows(to, session', password', handed', time')
    <3>1. PICK pc \in {"rotating", "rejecting"} :
            request' = [request EXCEPT ![c] = [Accounts!Idle EXCEPT !.pc = pc, !.row = s, !.at = t]]
      <4>1. request' = [request EXCEPT ![c] = [Accounts!Idle EXCEPT
              !.pc = IF Accounts!Live(s) THEN "rotating" ELSE "rejecting", !.row = s, !.at = t]]
        BY <2>1 DEF Accounts!Present, Accounts!Do
      <4> QED BY <4>1
    <3> DEFINE to == [Accounts!Idle EXCEPT !.pc = pc, !.row = s, !.at = t]
    <3>2. to = [pc |-> pc, row |-> s, at |-> t, password |-> 0]
      <4> DEFINE m == [Accounts!Idle EXCEPT !.pc = pc]
                 m2 == [m EXCEPT !.row = s]
      <4>1. m = [pc |-> pc, row |-> 0, at |-> 0, password |-> 0]
        BY DEF Accounts!Idle
      <4> HIDE DEF m
      <4>2. m2 = [pc |-> pc, row |-> s, at |-> 0, password |-> 0]
        BY <4>1
      <4> HIDE DEF m2
      <4>3. [m2 EXCEPT !.at = t] = [pc |-> pc, row |-> s, at |-> t, password |-> 0]
        BY <4>2
      <4> QED BY <4>3 DEF m, m2
    <3>3. s \in Nat /\ s \in handed
      <4>1. s \in handed
        BY <2>1 DEF Accounts!Present
      <4>2. s \in Nat
        BY <1>1, FromIs DEF Rows
      <4> QED BY <4>1, <4>2
    <3> HIDE DEF to
    <3>4. to \in CallState /\ to.pc = pc /\ to.row = s /\ to.at = t /\ to.password = 0
      BY <1>3, <3>2, <3>3 DEF CallState
    <3>5. CallKnows(to, session', password', handed', time')
      BY <1>1, <1>2, <1>3, <3>3, <3>4 DEF CallKnows
    <3> QED BY <3>1, <3>5 DEF to
  <2>2. CASE Accounts!RotationCollides(c, t)
    <3> DEFINE m == [request[c] EXCEPT !.pc = "rejecting"]
               to == [m EXCEPT !.at = t]
    <3>1. m \in CallState /\ m.pc = "rejecting" /\ m.row = request[c].row /\ m.password = request[c].password
      BY <1>4 DEF CallState
    <3>2. /\ to \in CallState /\ to.pc = "rejecting" /\ to.row = request[c].row
          /\ to.password = request[c].password /\ to.at = t
      <4> HIDE DEF m
      <4> QED BY <1>3, <3>1 DEF CallState
    <3>3. request' = [request EXCEPT ![c] = to] /\ request[c].pc = "rotating"
      BY <2>2 DEF Accounts!RotationCollides, Accounts!Do
    <3> HIDE DEF to
    <3>4. request[c].row \in handed
      BY <1>1, <3>3 DEF CallKnows
    <3>5. CallKnows(to, session', password', handed', time')
      BY <1>2, <1>3, <1>4, <3>2, <3>4 DEF CallKnows
    <3> QED BY <3>3, <3>5
  <2>3. CASE Accounts!Reject(c)
    <3> DEFINE to == [request[c] EXCEPT !.pc = "burning"]
    <3>1. CASE request' = [request EXCEPT ![c] = to]
      <4>1. /\ to \in CallState /\ to.pc = "burning" /\ to.row = request[c].row /\ to.at = request[c].at
            /\ to.password = request[c].password
        BY <1>4 DEF CallState
      <4>2. request[c].pc = "rejecting"
        BY <2>3 DEF Accounts!Reject
      <4> HIDE DEF to
      <4>3. CallKnows(to, session', password', handed', time')
        BY <1>1, <1>2, <1>4, <4>1, <4>2 DEF CallKnows
      <4> QED BY <3>1, <4>3
    <3>2. CASE request' = [request EXCEPT ![c] = Accounts!Idle]
      BY <1>1, <1>2, <3>2, NothingKnown
    <3> QED BY <2>3, <3>1, <3>2 DEF Accounts!Reject, Accounts!Do
  <2> QED BY <2>1, <2>2, <2>3
<1>6. Gains(session, session', password, password', handed, handed', time, time')
  BY <1>2, SameRows
<1> QED BY <1>1, <1>2, <1>5, <1>6, AccountStep

LEMMA RotatingKeepsAccounts ==
  ASSUME AccountsInv, NEW c \in Call, NEW t \in request[c].at..time, Accounts!Rotate(c, t)
  PROVE  AccountsInv'
<1>1. /\ password \in Nat /\ changed \in Nat /\ changed <= password /\ time \in Nat \ {0}
      /\ CallKnows(request[c], session, password, handed, time)
      /\ Rows(session, handed, ended, signedOut, changed)
  BY DEF AccountsInv
<1>2. /\ UNCHANGED <<password, time, ended, signedOut, changed>> /\ request[c].pc = "rotating"
      /\ handed' = handed \cup {Len(session) + 1} /\ request' = [request EXCEPT ![c] = Accounts!Idle]
  BY DEF Accounts!Rotate, Accounts!history, Accounts!Do
<1> DEFINE f == request[c].row
           at == request[c].at
           n == [from |-> f, revoked |-> 0, expires |-> t + Ttl, password |-> session[f].password]
<1>3. request[c] \in CallState /\ at \in Nat \ {0} /\ f \in handed
  BY <1>1, <1>2, CallFields DEF CallKnows
<1>4. f \in DOMAIN session /\ LiveIn(session, f) /\ session \in Tables
  <2>1. LiveIn(session, f)
    BY OfTheTable DEF Accounts!Rotate, Accounts!MayRotate
  <2> QED BY <1>1, <1>3, <2>1 DEF Rows, Handed
<1>5. session' = Append(RevokedIn(session, {f}, at), n)
  BY OfTheTable DEF Accounts!Rotate
<1>6. PICK r2 : r2 = RevokedIn(session, {f}, at)
  OBVIOUS
<1>7. /\ r2 \in Tables /\ DOMAIN r2 = DOMAIN session /\ Len(r2) = Len(session) /\ ~LiveIn(r2, f)
      /\ \A d \in DOMAIN session : r2[d].password = session[d].password
  BY <1>3, <1>4, <1>6, RevokedIs
<1>8. Rows(r2, handed, ended, signedOut, changed)
  BY <1>1, <1>3, <1>6, Revoking
<1>9. Retired(r2, ended, signedOut, f)
  BY <1>1, <1>3, <1>4, <1>6, RotatedRow
<1>10. n \in SessionRow /\ n.revoked = 0 /\ n.from = f /\ n.password = session[f].password
  <2>1. f \in Nat /\ session[f].password \in Nat
    BY <1>4, FromIs
  <2>2. t + Ttl \in Nat
    BY <1>3, ApiAssumptions DEF Accounts!Assumptions
  <2> HIDE DEF f
  <2> QED BY <2>1, <2>2 DEF SessionRow
<1>11. PICK r3 : r3 = Append(r2, n)
  OBVIOUS
<1> HIDE DEF n, f, at
<1>12. Fits(r2, ended, signedOut, n)
  BY <1>4, <1>7, <1>9, <1>10 DEF Fits
<1>13. Rows(r3, handed, ended, signedOut, changed) /\ Larger(r2, r3, n)
  BY <1>8, <1>11, <1>12, Inserting
<1>14. /\ session' = r3 /\ Len(session) + 1 \in DOMAIN r3 /\ r3[Len(session) + 1].password = session[f].password
       /\ \A d \in DOMAIN session : d \in DOMAIN r3 /\ r3[d].password = session[d].password
  BY <1>5, <1>6, <1>7, <1>10, <1>11, <1>13 DEF Larger
<1>15. changed <= session[f].password
  BY <1>1, <1>3, <1>4 DEF Rows, Handed
<1>16. Rows(r3, handed \cup {Len(session) + 1}, ended, signedOut, changed)
  BY <1>13, <1>14, <1>15, HandingOut
<1>17. Gains(session, session', password, password', handed, handed', time, time')
  BY <1>1, <1>2, <1>14 DEF Gains
<1>18. CallKnows(Accounts!Idle, session', password', handed', time')
  BY <1>1, <1>2, NothingKnown
<1> QED BY <1>1, <1>2, <1>14, <1>16, <1>17, <1>18, AccountStep

\* Once every row is revoked, nothing is said of any password.
LEMMA AllRevoked ==
  ASSUME NEW r, NEW given, NEW over, NEW out, NEW least, Rows(r, given, over, out, least),
         NEW t \in Nat \ {0}, NEW r2, r2 = RevokedIn(r, DOMAIN r, t)
  PROVE  \A l : Rows(r2, given, over \cup DOMAIN r, out, l)
<1>1. r \in Tables /\ DOMAIN r2 = DOMAIN r /\ \A d \in DOMAIN r : ~LiveIn(r2, d)
  BY RevokedIs DEF Rows
<1>2. Rows(r2, given, over, out, least)
  BY Revoking
<1>3. \A s \in DOMAIN r : ChainIn(r2, s) \subseteq DOMAIN r
  BY <1>1, ChainIs
<1>4. Dead(r2, over \cup DOMAIN r)
  BY <1>1, <1>2, <1>3 DEF Rows, Dead
<1>5. \A l : Handed(r2, given, l)
  BY <1>1, <1>2 DEF Rows, Handed
<1> QED BY <1>2, <1>4, <1>5 DEF Rows

LEMMA RevokingAllKeepsAccounts ==
  ASSUME AccountsInv, NEW c \in Call,
         Accounts!Burn(c) \/ \E t \in Accounts!Clocks : Accounts!RevokeForReset(c, t)
  PROVE  AccountsInv'
<1>1. /\ password \in Nat /\ changed \in Nat /\ changed <= password /\ time \in Nat \ {0}
      /\ CallKnows(request[c], session, password, handed, time)
      /\ Rows(session, handed, ended, signedOut, changed)
  BY DEF AccountsInv
<1>2. /\ UNCHANGED <<password, time, handed, signedOut>> /\ request' = [request EXCEPT ![c] = Accounts!Idle]
      /\ ended' = ended \cup DOMAIN session
  BY DEF Accounts!Burn, Accounts!RevokeForReset, Accounts!Do
<1>3. request[c] \in CallState /\ request[c].password \in Nat /\ request[c].password <= password
  BY <1>1, CallFields DEF CallKnows
<1>4. PICK t \in Nat \ {0} : session' = RevokedIn(session, DOMAIN session, t)
  <2>1. CASE Accounts!Burn(c)
    <3>1. request[c].at \in Nat \ {0}
      BY <1>1, <1>3, <2>1, CallFields DEF CallKnows, Accounts!Burn
    <3> QED BY <2>1, <3>1, OfTheTable DEF Accounts!Burn
  <2>2. ASSUME NEW t \in Accounts!Clocks, Accounts!RevokeForReset(c, t)
        PROVE  \E u \in Nat \ {0} : session' = RevokedIn(session, DOMAIN session, u)
    BY <2>2, ClocksRun, OfTheTable DEF Accounts!RevokeForReset
  <2> QED BY <2>1, <2>2
<1>5. changed' \in Nat /\ changed' <= password
  BY <1>1, <1>3 DEF Accounts!Burn, Accounts!RevokeForReset
<1>6. PICK r2 : r2 = RevokedIn(session, DOMAIN session, t)
  OBVIOUS
<1>7. \A l : Rows(r2, handed, ended \cup DOMAIN session, signedOut, l)
  BY <1>1, <1>6, AllRevoked
<1>8. Rows(session, handed, ended, signedOut, changed)'
  BY <1>2, <1>4, <1>6, <1>7
<1>9. Gains(session, session', password, password', handed, handed', time, time')
  BY <1>2, <1>4, RevokingGains
<1>10. CallKnows(Accounts!Idle, session', password', handed', time')
  BY <1>1, <1>2, NothingKnown
<1> QED BY <1>2, <1>5, <1>8, <1>9, <1>10, AccountStep

\* The owner's sign-out of a row reaches whatever is live in its login.
LEMMA SigningOut ==
  ASSUME NEW r, NEW given, NEW over, NEW out, NEW least, Rows(r, given, over, out, least),
         NEW s \in DOMAIN r, NEW t \in Nat \ {0}, NEW r2, r2 = RevokedIn(r, ChainIn(r, s), t),
         NEW login, \A x \in login : \E q \in DOMAIN r : s \in ChainIn(r, q) /\ x \in ChainIn(r, q)
  PROVE  Rows(r2, given, over \cup ChainIn(r, s), out \cup login, least)
<1>1. /\ r \in Tables /\ DOMAIN r2 = DOMAIN r /\ Successions(r)
      /\ \A d \in DOMAIN r : r2[d].from = r[d].from
      /\ \A d \in DOMAIN r : LiveIn(r2, d) <=> (LiveIn(r, d) /\ d \notin ChainIn(r, s))
  BY RevokedIs DEF Rows
<1>2. Rows(r2, given, over, out, least)
  BY Revoking
<1>3. \A x : ChainIn(r2, x) = ChainIn(r, x)
  BY <1>1, SameChains
<1>4. ASSUME NEW x \in ChainIn(r, s)
      PROVE  x \in DOMAIN r /\ \A d \in ChainIn(r, x) : ~LiveIn(r2, d)
  <2>1. x \in DOMAIN r /\ ChainIn(r, x) \subseteq ChainIn(r, s) /\ ChainIn(r, s) \subseteq DOMAIN r
    BY ChainsNest, ChainIs
  <2> QED BY <1>1, <2>1
<1>5. ASSUME NEW x \in login
      PROVE  x \in DOMAIN r /\ \A d \in ChainIn(r, x) : ~LiveIn(r2, d)
  <2>1. PICK q \in DOMAIN r : s \in ChainIn(r, q) /\ x \in ChainIn(r, q)
    OBVIOUS
  <2>2. x \in DOMAIN r /\ ChainIn(r, x) \subseteq ChainIn(r, q) /\ ChainIn(r, q) \subseteq DOMAIN r
    BY <2>1, ChainsNest, ChainIs
  <2>3. \A d \in ChainIn(r, q) : LiveIn(r, d) => d \in ChainIn(r, s)
    BY <1>1, <2>1, LiveIsLast
  <2> QED BY <1>1, <2>2, <2>3
<1>6. Dead(r2, over \cup ChainIn(r, s)) /\ Dead(r2, out \cup login)
  BY <1>1, <1>2, <1>3, <1>4, <1>5 DEF Rows, Dead
<1> QED BY <1>2, <1>6 DEF Rows

LEMMA SigningOutKeepsAccounts ==
  ASSUME AccountsInv, NEW s \in DOMAIN session, NEW t \in Accounts!Clocks, Accounts!SignOut(s, t)
  PROVE  AccountsInv'
<1>1. /\ password \in Nat /\ changed \in Nat /\ changed <= password /\ time \in Nat \ {0}
      /\ Rows(session, handed, ended, signedOut, changed)
  BY DEF AccountsInv
<1>2. /\ UNCHANGED <<password, time, request, handed, changed>>
      /\ ended' = ended \cup ChainIn(session, s) /\ signedOut' = signedOut \cup Accounts!Login(s)
      /\ session' = RevokedIn(session, ChainIn(session, s), t)
  BY OfTheTable DEF Accounts!SignOut, Accounts!Revocable
<1>3. t \in Nat \ {0}
  BY ClocksRun
<1>4. PICK login : login = Accounts!Login(s)
  OBVIOUS
<1>5. \A x \in login : \E q \in DOMAIN session : s \in ChainIn(session, q) /\ x \in ChainIn(session, q)
  <2>1. \A x \in Accounts!Login(s) : \E q \in DOMAIN session : s \in Accounts!Chain(q) /\ x \in Accounts!Chain(q)
    BY DEF Accounts!Login
  <2> QED BY <1>4, <2>1, OfTheTable
<1>6. PICK r2 : r2 = RevokedIn(session, ChainIn(session, s), t)
  OBVIOUS
<1>7. Rows(r2, handed, ended \cup ChainIn(session, s), signedOut \cup login, changed)
  BY <1>1, <1>3, <1>5, <1>6, SigningOut
<1>8. Rows(session, handed, ended, signedOut, changed)'
  BY <1>2, <1>4, <1>6, <1>7
<1>9. Gains(session, session', password, password', handed, handed', time, time')
  BY <1>2, <1>3, RevokingGains
<1> QED BY <1>1, <1>2, <1>8, <1>9, AccountStep

LEMMA AccountsInit == Accounts!Init => AccountsInv
<1> SUFFICES ASSUME Accounts!Init
             PROVE  AccountsInv
  OBVIOUS
<1>1. /\ session = <<>> /\ password = 0 /\ time = 1 /\ changed = 0
      /\ handed = {} /\ ended = {} /\ signedOut = {} /\ request = [c \in Call |-> Accounts!Idle]
  BY DEF Accounts!Init
<1>2. session \in Tables /\ DOMAIN session = {}
  BY <1>1 DEF Tables
<1>3. Rows(session, handed, ended, signedOut, changed)
  BY <1>1, <1>2 DEF Rows, Successions, OneLive, Dead, Handed
<1>4. \A c \in Call : request[c] = Accounts!Idle
  BY <1>1
<1>5. \A c \in Call : CallKnows(request[c], session, password, handed, time)
  BY <1>1, <1>4, NothingKnown
<1> QED BY <1>1, <1>3, <1>5 DEF AccountsInv

LEMMA TickKeepsAccounts == AccountsInv /\ Accounts!Tick => AccountsInv'
<1> SUFFICES ASSUME AccountsInv, Accounts!Tick
             PROVE  AccountsInv'
  OBVIOUS
<1>1. /\ password \in Nat /\ changed \in Nat /\ changed <= password /\ time \in Nat \ {0}
      /\ Rows(session, handed, ended, signedOut, changed)
  BY DEF AccountsInv
<1>2. time' = time + 1 /\ UNCHANGED <<session, password, request, handed, ended, signedOut, changed>>
  BY DEF Accounts!Tick, Accounts!history
<1>3. Gains(session, session', password, password', handed, handed', time, time')
  BY <1>1, <1>2 DEF Gains
<1> QED BY <1>1, <1>2, <1>3, AccountStep

LEMMA AccountsNext == AccountsInv /\ [Accounts!Next]_sessions => AccountsInv'
<1> SUFFICES ASSUME AccountsInv, [Accounts!Next]_sessions
             PROVE  AccountsInv'
  OBVIOUS
<1>1. CASE UNCHANGED sessions
  BY <1>1 DEF sessions, AccountsInv
<1>2. ASSUME NEW c \in Call, \/ Accounts!VerifyPassword(c) \/ Accounts!StartReset(c)
                             \/ Accounts!SetPassword(c) \/ Accounts!Fails(c)
      PROVE  AccountsInv'
  BY <1>2, ResettingKeepsAccounts
<1>3. ASSUME NEW c \in Call, Accounts!ReadHashAgain(c)
      PROVE  AccountsInv'
  BY <1>3, AnsweringKeepsAccounts
<1>4. ASSUME NEW c \in Call, Accounts!Reject(c)
      PROVE  AccountsInv'
  <2>1. time \in Accounts!Clocks
    <3>1. time \in Nat \ {0} /\ Drift \in Nat
      BY ApiAssumptions DEF AccountsInv, Accounts!Assumptions
    <3> QED BY <3>1 DEF Accounts!Clocks
  <2> QED BY <1>4, <2>1, PresentingKeepsAccounts
<1>5. ASSUME NEW c \in Call, Accounts!Burn(c) \/ \E t \in Accounts!Clocks : Accounts!RevokeForReset(c, t)
      PROVE  AccountsInv'
  BY <1>5, RevokingAllKeepsAccounts
<1>6. ASSUME NEW c \in Call, NEW t \in request[c].at..time, Accounts!Rotate(c, t)
      PROVE  AccountsInv'
  BY <1>6, RotatingKeepsAccounts
<1>7. ASSUME NEW c \in Call, NEW t \in Accounts!Clocks, Accounts!CreateSession(c, t)
      PROVE  AccountsInv'
  BY <1>7, CreatingKeepsAccounts
<1>8. ASSUME NEW c \in Call, NEW t \in Accounts!Clocks, Accounts!RefuseLogin(c, t)
      PROVE  AccountsInv'
  BY <1>8, RefusingKeepsAccounts
<1>9. ASSUME NEW c \in Call, NEW t \in Accounts!Clocks,
             Accounts!RotationCollides(c, t) \/ \E s \in DOMAIN session : Accounts!Present(c, s, t)
      PROVE  AccountsInv'
  BY <1>9, PresentingKeepsAccounts
<1>10. ASSUME NEW s \in DOMAIN session, NEW t \in Accounts!Clocks, Accounts!SignOut(s, t)
       PROVE  AccountsInv'
  BY <1>10, SigningOutKeepsAccounts
<1>11. CASE Accounts!Tick
  BY <1>11, TickKeepsAccounts
<1> QED BY <1>1, <1>2, <1>3, <1>4, <1>5, <1>6, <1>7, <1>8, <1>9, <1>10, <1>11 DEF Accounts!Next

LEMMA AccountsSafe ==
  AccountsInv => Accounts!SessionsStayRevoked /\ Accounts!OneSessionPerLogin /\ Accounts!PasswordCutsOff
<1> SUFFICES ASSUME AccountsInv
             PROVE  Accounts!SessionsStayRevoked /\ Accounts!OneSessionPerLogin /\ Accounts!PasswordCutsOff
  OBVIOUS
<1>1. Rows(session, handed, ended, signedOut, changed)
  BY DEF AccountsInv
<1>2. \A s \in Accounts!LiveRows : s \in DOMAIN session /\ LiveIn(session, s)
  BY OfTheTable DEF Accounts!LiveRows
<1>3. Accounts!SessionsStayRevoked
  <2>1. \A s \in ended : \A d \in Accounts!Chain(s) : d \notin Accounts!LiveRows
    BY <1>1, <1>2, OfTheTable DEF Rows, Dead
  <2> QED BY <2>1 DEF Accounts!SessionsStayRevoked
<1>4. ASSUME NEW s \in Accounts!LiveRows, NEW d \in Accounts!LiveRows, d \in Accounts!Login(s)
      PROVE  d = s
  <2>1. PICK q \in DOMAIN session : s \in Accounts!Chain(q) /\ d \in Accounts!Chain(q)
    BY <1>4 DEF Accounts!Login
  <2>2. s \in ChainIn(session, q) /\ d \in ChainIn(session, q)
    BY <2>1, OfTheTable
  <2> QED BY <1>1, <1>2, <2>2 DEF Rows, OneLive
<1>5. Accounts!OneSessionPerLogin
  BY <1>4 DEF Accounts!OneSessionPerLogin
<1>6. Accounts!PasswordCutsOff
  <2>1. \A s \in handed : Accounts!Live(s) => session[s].password \in Nat /\ changed <= session[s].password
    <3>1. \A s \in handed : s \in DOMAIN session /\ (LiveIn(session, s) => changed <= session[s].password)
      BY <1>1 DEF Rows, Handed
    <3>2. \A s \in handed : session[s].password \in Nat
      BY <1>1, <3>1, FromIs DEF Rows
    <3> QED BY <3>1, <3>2, OfTheTable
  <2>2. changed \in Nat
    BY DEF AccountsInv
  <2> QED BY <2>1, <2>2 DEF Accounts!PasswordCutsOff
<1> QED BY <1>3, <1>5, <1>6

\* A call that asks whether a row of such a login was rotated away finds nothing live.
BurnsNoOthers == \A c \in Call : request[c].pc = "rejecting" /\ request[c].row \in signedOut => request'[c].pc # "burning"

LEMMA SignOutsStayLocal == AccountsInv /\ [Accounts!Next]_sessions => [BurnsNoOthers]_sessions
<1> SUFFICES ASSUME AccountsInv, Accounts!Next,
                    NEW c \in Call, request[c].pc = "rejecting", request[c].row \in signedOut
             PROVE  request'[c].pc # "burning"
  BY DEF BurnsNoOthers
<1>1. ~Accounts!RotatedAway(request[c].row, request[c].at)
  <2>1. \A d \in Accounts!Chain(request[c].row) : ~Accounts!Live(d)
    BY OfTheTable DEF AccountsInv, Rows, Dead
  <2> QED BY <2>1 DEF Accounts!RotatedAway
<1>2. request = [d \in Call |-> request[d]]
  BY DEF AccountsInv
<1>3. ASSUME NEW e \in Call, e # c, NEW to, request' = [request EXCEPT ![e] = to]
      PROVE  request'[c] = request[c]
  BY <1>2, <1>3
<1>4. ASSUME NEW to, request' = [request EXCEPT ![c] = to], to.pc # "burning"
      PROVE  request'[c].pc # "burning"
  BY <1>2, <1>4
<1>5. CASE request' = request
  BY <1>5
<1>6. ASSUME NEW e \in Call,
             \/ Accounts!VerifyPassword(e) \/ Accounts!ReadHashAgain(e) \/ Accounts!Burn(e)
             \/ \E t \in request[e].at..time : Accounts!Rotate(e, t)
             \/ Accounts!StartReset(e) \/ Accounts!SetPassword(e)
             \/ \E t \in Accounts!Clocks : \/ Accounts!CreateSession(e, t) \/ Accounts!RefuseLogin(e, t)
                                           \/ Accounts!RotationCollides(e, t) \/ Accounts!RevokeForReset(e, t)
                                           \/ \E s \in DOMAIN session : Accounts!Present(e, s, t)
      PROVE  request'[c].pc # "burning"
  <2>1. e # c /\ \E to : request' = [request EXCEPT ![e] = to]
    BY <1>6 DEF Accounts!VerifyPassword, Accounts!ReadHashAgain, Accounts!Burn, Accounts!Rotate, Accounts!StartReset,
       Accounts!SetPassword, Accounts!CreateSession, Accounts!RefuseLogin, Accounts!RotationCollides,
       Accounts!RevokeForReset, Accounts!Present, Accounts!Do
  <2> QED BY <1>3, <2>1
<1>7. ASSUME NEW e \in Call, Accounts!Fails(e)
      PROVE  request'[c].pc # "burning"
  <2>1. request' = [request EXCEPT ![e] = Accounts!Idle] /\ Accounts!Idle.pc # "burning"
    BY <1>7 DEF Accounts!Fails, Accounts!Do, Accounts!Idle
  <2> QED BY <1>3, <1>4, <2>1
<1>8. ASSUME NEW e \in Call, Accounts!Reject(e)
      PROVE  request'[c].pc # "burning"
  <2>1. CASE e # c
    <3>1. \E to : request' = [request EXCEPT ![e] = to]
      BY <1>8 DEF Accounts!Reject, Accounts!Do
    <3> QED BY <1>3, <2>1, <3>1
  <2>2. CASE e = c
    <3>1. request' = [request EXCEPT ![c] = Accounts!Idle] /\ Accounts!Idle.pc # "burning"
      BY <1>1, <1>8, <2>2 DEF Accounts!Reject, Accounts!Do, Accounts!Idle
    <3> QED BY <1>4, <3>1
  <2> QED BY <2>1, <2>2
<1> QED BY <1>5, <1>6, <1>7, <1>8 DEF Accounts!Next, Accounts!SignOut, Accounts!Tick

(* Sessions: for any number of calls, rows, resets, any grace period and   *)
(* drift of the clocks, whatever was under a revocation that returned and  *)
(* what is rotated from it stays revoked; racing refreshes leave a login   *)
(* one live row; no token of a login that proved an older password lives   *)
(* once the reset has returned; and the token of a login that was signed   *)
(* out is never taken for a stolen one.                                    *)
THEOREM SoundSessions == Accounts!Spec => SessionsAreSound
<1> USE DEF sessions, Accounts!vars
<1>1. AccountsInv /\ [Accounts!Next]_sessions => AccountsInv'
  BY AccountsNext
<1>2. AccountsInv /\ [Accounts!Next]_sessions => [BurnsNoOthers]_sessions
  BY SignOutsStayLocal
<1>3. Accounts!Spec => []AccountsInv
  BY <1>1, AccountsInit, PTL DEF Accounts!Spec
<1>4. Accounts!Spec => [](Accounts!SessionsStayRevoked /\ Accounts!OneSessionPerLogin /\ Accounts!PasswordCutsOff)
  BY <1>3, AccountsSafe, PTL
<1>5. Accounts!Spec => Accounts!SignOutIsLocal
  BY <1>2, <1>3, PTL DEF Accounts!Spec, Accounts!SignOutIsLocal, BurnsNoOthers
<1> QED BY <1>4, <1>5 DEF SessionsAreSound, Accounts!SessionsAreSound

=============================================================================

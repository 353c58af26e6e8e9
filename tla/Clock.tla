-------------------------------- MODULE Clock --------------------------------
(***************************************************************************)
(* The chess clock (packages/game/src/clock.ts) as pure operators.  Times  *)
(* and durations are naturals; NoTime is the null of turnStartedAt and of  *)
(* a deadline that does not exist.                                         *)
(***************************************************************************)
EXTENDS Integers

NoTime == -1
Side == {"w", "b"}
Opponent(side) == IF side = "w" THEN "b" ELSE "w"

Kinds == {"unlimited", "sudden_death", "increment", "delay"}
TimeControl == [kind : Kinds, initial : Nat, increment : Nat, delay : Nat]
ClockState == [remaining : [Side -> Nat], startedAt : Nat \cup {NoTime}]

NonNegative(x) == IF x < 0 THEN 0 ELSE x

InitClock(tc, startedAt) ==
  [remaining |-> [side \in Side |-> tc.initial], startedAt |-> startedAt]

Elapsed(clock, now) ==
  IF clock.startedAt = NoTime THEN 0 ELSE NonNegative(now - clock.startedAt)

DelayOf(tc) == IF tc.kind = "delay" THEN tc.delay ELSE 0

\* What is left to the side to move at now, negative when overdrawn.
LeftAt(clock, side, now, tc) ==
  clock.remaining[side] - NonNegative(Elapsed(clock, now) - DelayOf(tc))

\* Mutant: the flag falls only once the clock is overdrawn.
Flags_Overdrawn(clock, side, now, tc) ==
  tc.kind # "unlimited" /\ LeftAt(clock, side, now, tc) < 0

\* The flagged field of charge.
Flags(clock, side, now, tc) ==
  tc.kind # "unlimited" /\ LeftAt(clock, side, now, tc) <= 0

\* The clock field of charge.
Charge(clock, side, now, tc) ==
  IF tc.kind = "unlimited" THEN clock
  ELSE [remaining |-> [clock.remaining EXCEPT ![side] =
                         IF Flags(clock, side, now, tc) THEN 0
                         ELSE LeftAt(clock, side, now, tc)
                                + (IF tc.kind = "increment" THEN tc.increment ELSE 0)],
        startedAt |-> now]

HasFlagged(clock, side, now, tc) ==
  clock.startedAt # NoTime /\ Flags(clock, side, now, tc)

FlagDeadline(clock, side, tc) ==
  IF tc.kind = "unlimited" \/ clock.startedAt = NoTime THEN NoTime
  ELSE IF clock.remaining[side] <= 0 THEN clock.startedAt
  ELSE clock.startedAt + DelayOf(tc) + clock.remaining[side]

=============================================================================

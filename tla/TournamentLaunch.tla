--------------------------- MODULE TournamentLaunch ---------------------------
(***************************************************************************)
(* One pairing of a round-based tournament: API replicas that decide it,   *)
(* launch its game, and report how the game ended.  The tournament is one  *)
(* row under compare-and-set; the games live in the event log, at ids that *)
(* every replica derives from the pairing and its attempt.                 *)
(*                                                                         *)
(* A version is modelled by what it is compared for: whether the row has   *)
(* been saved since a process read it.                                     *)
(***************************************************************************)
EXTENDS Naturals, FiniteSets

CONSTANTS Process, None,
          Tries,      \* attempts of a compare-and-set (3)
          MaxSlot,    \* bound: attempts of the pairing
          Legacy,     \* whether games of the older launch identity may exist
          MaxOrders,  \* bound: withdrawals and manual results
          MaxFaults   \* bound: crashes, failed calls and saves by other pairings

Side == {"white", "black"}
Other(side) == CHOOSE s \in Side : s # side
Result == Side  \* a draw and a double forfeit are treated as a win is
Ended == Result \cup {"aborted"}  \* "aborted" stands for '*', which is launched again
Slot == [space : {"committed", "legacy"}, n : 0..MaxSlot]
At(space, n) == [space |-> space, n |-> n]

VARIABLES row,        \* the tournament's row, as far as the pairing goes
          game,       \* the event log: what became of the game in each slot
          theirs,     \* legacy slots that hold another pairing's game
          proc,
          processed,  \* games each reporter has done with
          abandoned,  \* games the tournament has abandoned
          orders, faults

vars == <<row, game, theirs, proc, processed, abandoned, orders, faults>>

Assumptions ==
  /\ None \notin Process \cup Slot \cup Ended /\ Legacy \in BOOLEAN /\ Tries \in Nat \ {0}
  /\ {MaxSlot, MaxOrders, MaxFaults} \subseteq Nat

NewRow == [link |-> None, attempt |-> 0, result |-> None, forfeit |-> None, unconfirmed |-> FALSE,
           withdrawn |-> {}, over |-> FALSE]
Idle == [pc |-> "idle", op |-> "none", arg |-> None, game |-> None, tries |-> 0, draft |-> NewRow,
         fresh |-> FALSE, probe |-> 0, ambiguous |-> FALSE]

IsEnded(g) == game[g] \in Ended
InPlay == {g \in Slot \ theirs : game[g] \in {"live", "played"}}

Rows == [link : Slot \cup {None}, attempt : 0..MaxSlot + 1, result : Result \cup {None},
         forfeit : Side \cup {None}, unconfirmed : BOOLEAN, withdrawn : SUBSET Side, over : BOOLEAN]
Steps == {"idle", "read", "save", "reconcile", "committed", "legacy", "create", "link", "pick", "look"}

TypeOK ==
  /\ row \in Rows /\ game \in [Slot -> Ended \cup {"none", "live", "played"}] /\ theirs \subseteq Slot
  /\ \A p \in Process : proc[p].pc \in Steps /\ proc[p].draft \in Rows /\ proc[p].tries \in 0..Tries
  /\ processed \in [Process -> SUBSET Slot] /\ abandoned \subseteq Slot
  /\ orders \in 0..MaxOrders /\ faults \in 0..MaxFaults

(* The older launches filled slots in turn; at most the last one that is   *)
(* this pairing's is still being played.  They counted how many games were *)
(* abandoned and not which.                                                *)
Init ==
  /\ orders = 0 /\ faults = 0
  /\ \E n \in 0..(IF Legacy THEN MaxSlot + 1 ELSE 0), was \in [0..MaxSlot -> {"live", "aborted", "white"}] :
       /\ \A i \in 0..MaxSlot : i >= n => was[i] = "live"
       /\ game = [g \in Slot |-> IF g.space = "legacy" /\ g.n < n THEN was[g.n] ELSE "none"]
  /\ theirs \in SUBSET {g \in Slot : game[g] # "none"}
  /\ Cardinality(InPlay) <= 1 /\ \A g \in InPlay : \A h \in Slot \ theirs : game[h] # "none" => h.n <= g.n
  /\ abandoned \in SUBSET {g \in Slot \ theirs : game[g] = "aborted"}
  /\ row = [NewRow EXCEPT !.attempt = Cardinality(abandoned)]
  /\ proc = [p \in Process |-> Idle] /\ processed = [p \in Process |-> {}]

-----------------------------------------------------------------------------
(* What an operation makes of the row it has read: a row to save, the same *)
(* row, or None when it throws.                                            *)

\* Mutant: a forfeit of a linked game is not marked as one.
WithdrawFrom_Unmarked(r, side) ==
  IF r.over THEN None
  ELSE IF side \in r.withdrawn THEN r
  ELSE [r EXCEPT !.withdrawn = @ \cup {side}, !.result = IF @ = None THEN Other(side) ELSE @]

WithdrawFrom(r, side) ==
  IF r.over THEN None
  ELSE IF side \in r.withdrawn THEN r
  ELSE [r EXCEPT !.withdrawn = @ \cup {side},
                 !.result = IF @ = None THEN Other(side) ELSE @,
                 !.forfeit = IF r.result = None /\ r.link # None THEN side ELSE @]

\* Mutant: an organiser's result leaves the mark of a forfeit standing.
RecordManual_KeepsForfeit(r, result) ==
  IF r.over THEN None ELSE [r EXCEPT !.result = result, !.unconfirmed = r.unconfirmed \/ r.link # None]

RecordManual(r, result) ==
  IF r.over THEN None
  ELSE [r EXCEPT !.result = result, !.forfeit = None, !.unconfirmed = r.unconfirmed \/ r.link # None]

\* Mutant: the attempt stays where it is.
Abandon_SameAttempt(r) == [r EXCEPT !.link = None]

\* The next attempt is the one after the slot where the game really was.
Abandon(r) == [r EXCEPT !.link = None, !.attempt = (IF r.link.n >= @ THEN r.link.n ELSE @) + 1]

\* Mutant: whatever result stands is taken for confirmed.
Confirm_Any(r, result) == [r EXCEPT !.forfeit = None, !.unconfirmed = FALSE]

\* correctWithdrawalForfeit, confirmCommittedResult.
Confirm(r, result) ==
  IF r.result = result THEN [r EXCEPT !.forfeit = None, !.unconfirmed = FALSE]
  ELSE IF r.forfeit # None THEN [r EXCEPT !.result = result, !.forfeit = None, !.unconfirmed = FALSE]
  ELSE None

RecordOutcome(r, g, outcome) ==
  IF r.link # g THEN r
  ELSE IF r.result # None THEN IF outcome = "aborted" THEN None ELSE Confirm(r, outcome)
  ELSE IF outcome = "aborted" THEN Abandon(r)
  ELSE [r EXCEPT !.result = outcome]

Decision(s) ==
  CASE s.op = "withdraw" -> WithdrawFrom(row, s.arg)
    [] s.op = "manual" -> RecordManual(row, s.arg)
    [] s.op = "outcome" -> RecordOutcome(row, s.game, s.arg)

-----------------------------------------------------------------------------
(* The operations of a process. *)

Goto(p, s) == proc' = [proc EXCEPT ![p] = s]
Do(p, pc) == proc[p].pc = pc
Wait == UNCHANGED <<row, game, theirs, processed, abandoned, orders, faults>>
\* An operation is over, or has failed; a scan goes on with the results.
Over(s) == IF s.op = "scan" THEN [Idle EXCEPT !.pc = "pick", !.op = "scan"] ELSE Idle

Order(p) ==
  /\ Do(p, "idle") /\ orders < MaxOrders /\ orders' = orders + 1
  /\ \/ \E side \in Side : Goto(p, [Idle EXCEPT !.pc = "read", !.op = "withdraw", !.arg = side, !.tries = 1])
     \/ \E result \in Result : Goto(p, [Idle EXCEPT !.pc = "read", !.op = "manual", !.arg = result, !.tries = 1])
  /\ UNCHANGED <<row, game, theirs, processed, abandoned, faults>>

Reconciling(s) == [s EXCEPT !.pc = "reconcile", !.tries = 1, !.fresh = FALSE, !.draft = NewRow]

\* withRetry reads the row and applies the operation to it.
Read(p) ==
  /\ Do(p, "read") /\ Wait
  /\ LET s == proc[p]
         next == Decision(s)
     IN Goto(p, IF next = None THEN Idle
                ELSE IF next = row /\ s.op = "outcome" THEN Reconciling(s)
                ELSE [s EXCEPT !.pc = "save", !.draft = next, !.fresh = TRUE])

\* Nobody else's draft is fresh after a save.
Saved(s, q) == [proc EXCEPT ![q] = s]
Outdated(procs) == [q \in Process |-> [procs[q] EXCEPT !.fresh = FALSE]]

\* Mutant: a save overwrites whatever was saved since.
CanSave_Blindly(s) == TRUE

CanSave(s) == s.fresh

Store(p, then, again) ==
  LET s == proc[p]
  IN IF CanSave(s)
     THEN /\ row' = s.draft /\ proc' = Outdated(Saved(then, p))
          /\ abandoned' = abandoned \cup {g \in {row.link} \ {None} : s.draft.link = None}
     ELSE /\ Goto(p, IF s.tries < Tries THEN [s EXCEPT !.pc = again, !.tries = @ + 1] ELSE Over(s))
          /\ UNCHANGED <<row, abandoned>>

Save(p) ==
  /\ Do(p, "save") /\ Store(p, Reconciling(proc[p]), "read")
  /\ UNCHANGED <<game, theirs, processed, orders, faults>>

\* A reporter that got through remembers the game.
Remember(p) ==
  processed' = IF proc[p].op = "outcome" THEN [processed EXCEPT ![p] = @ \cup {proc[p].game}] ELSE processed

\* reconcile reads the row again and looks for a pairing without a game.
Reconcile(p) ==
  /\ Do(p, "reconcile")
  /\ IF row.over \/ row.result # None \/ row.link # None
     THEN Goto(p, Over(proc[p])) /\ Remember(p)
     ELSE /\ Goto(p, [proc[p] EXCEPT !.pc = "committed", !.draft = row, !.fresh = TRUE,
                                     !.probe = row.attempt, !.ambiguous = FALSE])
          /\ UNCHANGED processed
  /\ UNCHANGED <<row, game, theirs, abandoned, orders, faults>>

Linked(s, g) ==
  [s EXCEPT !.pc = "link", !.draft.link = g, !.draft.attempt = IF g.n > @ THEN g.n ELSE @]

\* A game that is already in the committed slot is the pairing's, even if it has ended.
FindCommitted(p) ==
  /\ Do(p, "committed") /\ proc[p].draft.attempt <= MaxSlot /\ Wait
  /\ LET g == At("committed", proc[p].draft.attempt)
     IN Goto(p, IF game[g] # "none" THEN Linked(proc[p], g) ELSE [proc[p] EXCEPT !.pc = "legacy"])

\* Mutant: an ended game of the older identity is recovered at any attempt.
Recoverable_Any(s, g) == TRUE

\* Attempt zero proves that no abandon has consumed the ending yet.
Recoverable(s, g) == ~IsEnded(g) \/ s.draft.attempt = 0

(* Slots of the older identity in turn: the pairing's own game is taken, a *)
(* game of another pairing is aborted while the rules allow it.            *)
FindLegacy(p) ==
  /\ Do(p, "legacy")
  /\ LET s == proc[p]
         g == At("legacy", s.probe)
         next == [s EXCEPT !.probe = @ + 1]
     IN IF s.probe > MaxSlot \/ game[g] = "none"
        THEN Goto(p, IF s.ambiguous THEN Over(s) ELSE [s EXCEPT !.pc = "create"]) /\ UNCHANGED game
        ELSE IF g \notin theirs
        THEN /\ Goto(p, IF Recoverable(s, g) THEN Linked(s, g) ELSE [next EXCEPT !.ambiguous = TRUE])
             /\ UNCHANGED game
        ELSE /\ Goto(p, IF game[g] = "played" THEN Over(s) ELSE next)
             /\ game' = IF game[g] = "live" THEN [game EXCEPT ![g] = "aborted"] ELSE game
  /\ UNCHANGED <<row, theirs, processed, abandoned, orders, faults>>

\* The loser of the race for the id takes the winner's game.
Create(p) ==
  /\ Do(p, "create")
  /\ LET g == At("committed", proc[p].draft.attempt)
     IN /\ game' = IF game[g] = "none" THEN [game EXCEPT ![g] = "live"] ELSE game
        /\ Goto(p, Linked(proc[p], g))
  /\ UNCHANGED <<row, theirs, processed, abandoned, orders, faults>>

Link(p) ==
  /\ Do(p, "link") /\ Store(p, Over(proc[p]), "reconcile")
  /\ IF CanSave(proc[p]) THEN Remember(p) ELSE UNCHANGED processed
  /\ UNCHANGED <<game, theirs, orders, faults>>

-----------------------------------------------------------------------------
(* The reporter. *)

Marked(r) == r.forfeit # None \/ r.unconfirmed

\* The timer: launches first, then the results.
Scan(p) ==
  /\ Do(p, "idle") /\ (~row.over \/ Marked(row))
  /\ Goto(p, Reconciling([Idle EXCEPT !.op = "scan"])) /\ Wait

\* Mutant: what was processed once stays so.
Forget_Never(p) == processed

\* A later withdrawal or manual result invalidates an earlier confirmation.
Forget(p) == IF Marked(row) THEN [processed EXCEPT ![p] = @ \ {row.link}] ELSE processed

Pick(p) ==
  /\ Do(p, "pick")
  /\ IF row.link = None \/ (row.result # None /\ ~Marked(row))
     THEN Goto(p, Idle) /\ UNCHANGED processed
     ELSE /\ Goto(p, [Idle EXCEPT !.pc = "look", !.game = row.link]) /\ processed' = Forget(p)
  /\ UNCHANGED <<row, game, theirs, abandoned, orders, faults>>

\* The broadcast of an ending wakes a reporter that has not done with the game.
Wake(p) ==
  /\ Do(p, "idle") /\ row.link # None /\ row.link \notin processed[p] /\ IsEnded(row.link)
  /\ Goto(p, [Idle EXCEPT !.pc = "look", !.game = row.link]) /\ Wait

Look(p) ==
  /\ Do(p, "look") /\ Wait
  /\ LET g == proc[p].game
     IN Goto(p, IF g \in processed[p] \/ row.link # g \/ ~IsEnded(g) THEN Idle
                ELSE [proc[p] EXCEPT !.pc = "read", !.op = "outcome", !.arg = game[g], !.tries = 1])

-----------------------------------------------------------------------------
(* The games, the other pairings and failures. *)

Play(g) ==
  /\ \/ g.space = "legacy" /\ game[g] = "live" /\ game' = [game EXCEPT ![g] = "played"]
     \/ \E r \in Result : game[g] \in {"live", "played"} /\ game' = [game EXCEPT ![g] = r]
     \/ game[g] = "live" /\ g.n < MaxSlot /\ game' = [game EXCEPT ![g] = "aborted"]
  /\ UNCHANGED <<row, theirs, proc, processed, abandoned, orders, faults>>

\* The round goes on without this pairing, and the tournament ends.
Finish ==
  /\ row.result # None /\ ~row.over
  /\ row' = [row EXCEPT !.over = TRUE] /\ proc' = Outdated(proc)
  /\ UNCHANGED <<game, theirs, processed, abandoned, orders, faults>>

Faulty == faults < MaxFaults /\ faults' = faults + 1

OtherSave ==
  /\ Faulty /\ proc' = Outdated(proc)
  /\ UNCHANGED <<row, game, theirs, processed, abandoned, orders>>

\* An append that fails, or one whose reply is lost and that nobody finds.
CreateFails(p) ==
  /\ Do(p, "create") /\ Faulty
  /\ LET g == At("committed", proc[p].draft.attempt)
     IN game' \in {game} \cup {[game EXCEPT ![g] = "live"] : x \in {g} \cap {h \in Slot : game[h] = "none"}}
  /\ Goto(p, Over(proc[p]))
  /\ UNCHANGED <<row, theirs, processed, abandoned, orders>>

Crash(p) ==
  /\ ~Do(p, "idle") /\ Faulty
  /\ Goto(p, Idle) /\ processed' = [processed EXCEPT ![p] = {}]
  /\ UNCHANGED <<row, game, theirs, abandoned, orders>>

Proceed(p) ==
  \/ Read(p) \/ Save(p) \/ Reconcile(p) \/ FindCommitted(p) \/ FindLegacy(p) \/ Create(p) \/ Link(p)
  \/ Pick(p) \/ Look(p)

Next ==
  \/ \E p \in Process : Order(p) \/ Proceed(p) \/ Scan(p) \/ Wake(p) \/ CreateFails(p) \/ Crash(p)
  \/ \E g \in Slot : Play(g)
  \/ Finish \/ OtherSave

Spec == Init /\ [][Next]_vars

\* The scan's timer fires again and again, and calls return.
Fairness == \A p \in Process : WF_vars(Proceed(p)) /\ WF_vars(Scan(p))

-----------------------------------------------------------------------------

(* A result that stands without a mark is the one the linked game ended    *)
(* with, however withdrawals, organisers and reporters raced for it.       *)
ResultIsTheGames ==
  row.result # None /\ row.link # None /\ ~Marked(row) => game[row.link] = row.result

(* The replicas converge on one game: never are two being played for one   *)
(* pairing, whoever crashed or lost the race.                              *)
OneGameAtATime == Cardinality(InPlay) <= 1

(* The pairing is never linked to another pairing's game, and never again  *)
(* to a game it has abandoned: it would wait for a game that is over.      *)
LinksAreLive ==
  [][row'.link # row.link /\ row'.link # None => row'.link \notin abandoned \cup theirs]_vars

(* The row can always be restored: a mark that contradicts the result, or  *)
(* a result marked twice, makes restore throw and the tournament is lost.  *)
RowRestores ==
  /\ row.forfeit # None => row.forfeit \in row.withdrawn /\ row.result = Other(row.forfeit)
  /\ row.unconfirmed => row.link # None /\ row.result # None /\ row.forfeit = None

LaunchIsOnce == [](ResultIsTheGames /\ OneGameAtATime /\ RowRestores) /\ LinksAreLive

Confirmed(g) == row.link # g \/ (row.result = game[g] /\ ~Marked(row))
(* A pairing in play gets a game, and how its game ended is recorded, even *)
(* over a forfeit set meanwhile.  Only an organiser's own result, and an   *)
(* abort after a forfeit, may stand against the game.                      *)
PairingSettles ==
  /\ (row.link = None) ~> (row.link # None \/ row.result # None)
  /\ \A g \in Slot : (row.link = g /\ IsEnded(g)) ~>
       \/ Confirmed(g)
       \/ row.result # game[g] /\ (row.unconfirmed \/ game[g] = "aborted")

=============================================================================

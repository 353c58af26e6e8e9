--------------------------------- MODULE Arena ---------------------------------
(***************************************************************************)
(* The arena: players are paired again as soon as they are free, until a   *)
(* deadline the database's clock decides.  A decision holds the row's lock *)
(* from reading the clock to the commit; the games it authorises are       *)
(* launched afterwards, by whoever gets there, at ids made of the pairing. *)
(*                                                                         *)
(* Players are 1..n in the order of their ids.  A process that loses the   *)
(* lock, its connection or its life before the commit has changed nothing. *)
(***************************************************************************)
EXTENDS Integers, Sequences, SequencesExt, FiniteSets, Functions

CONSTANTS Player, Process,
          Founders,     \* players who have registered to begin with
          Outcome,      \* results of games that are not aborted
          MaxSeq,       \* bound: pairings
          MaxRequests,  \* bound: registrations, withdrawals and a director's results
          MaxFaults     \* bound: crashes and launches that fail

Ended == Outcome \cup {"aborted"}
Pairing == 1..MaxSeq

VARIABLES row,      \* the arena's row
          expired,  \* whether the database's clock has reached the deadline
          lock,     \* processes that hold the row's lock: at most one
          game,     \* the event log: what became of the game of each pairing
          proc,
          counted,  \* the results counted, in order
          requests, faults

vars == <<row, expired, lock, game, proc, counted, requests, faults>>

Assumptions ==
  /\ Founders \subseteq Player /\ Player \subseteq Nat \ {0}
  /\ Outcome \subseteq {"white_win", "black_win", "draw", "double_forfeit"}
  /\ {MaxSeq, MaxRequests, MaxFaults} \subseteq Nat

NewPlayer == [points |-> 0, run |-> 0, fire |-> FALSE, played |-> 0]
NewRow == [phase |-> "registration", joined |-> Founders, gone |-> {}, active |-> <<>>, seq |-> 0,
           last |-> [p \in Player |-> 0], balance |-> [p \in Player |-> 0],
           stats |-> [p \in Player |-> NewPlayer]]
NoRequest == [op |-> "none", arg |-> 0, result |-> "none"]
Idle == [pc |-> "idle", job |-> NoRequest, late |-> FALSE, todo |-> {}]

Active(r) == DOMAIN r.active
Linked(r) == {k \in Active(r) : r.active[k].linked}
Playing(r) == UNION {{r.active[k].white, r.active[k].black} : k \in Active(r)}
Available(r) == r.joined \ (r.gone \cup Playing(r))

TypeOK ==
  /\ row.phase \in {"registration", "running", "finished"} /\ row.seq \in 0..MaxSeq
  /\ Active(row) \subseteq 1..row.seq /\ row.joined \subseteq Player
  /\ expired \in BOOLEAN /\ lock \subseteq Process 
  /\ requests \in 0..MaxRequests /\ faults \in 0..MaxFaults
  /\ game \in [Pairing -> Ended \cup {"none", "live"}]
  /\ \A p \in Process : proc[p].pc \in {"idle", "lock", "commit", "read", "launch"} /\ proc[p].todo \subseteq Pairing

Init ==
  /\ row = NewRow /\ expired = FALSE /\ lock = {} /\ game = [k \in Pairing |-> "none"]
  /\ proc = [p \in Process |-> Idle] /\ counted = <<>>
  /\ requests = 0 /\ faults = 0

-----------------------------------------------------------------------------
(* What a decision makes of the row; late: the clock had reached the deadline. *)

\* Mutant: an arena is over although games are still being played.
Settle_WithGames(r, late) == IF r.phase = "running" /\ late THEN [r EXCEPT !.phase = "finished"] ELSE r

Settle(r, late) ==
  IF r.phase = "running" /\ late /\ Active(r) = {} THEN [r EXCEPT !.phase = "finished"] ELSE r

\* The player with fewer whites to spare is white.
Coloured(r, p, q) ==
  LET pIsWhite == r.balance[p] < r.balance[q] \/ (r.balance[p] = r.balance[q] /\ p < q)
  IN [white |-> IF pIsWhite THEN p ELSE q, black |-> IF pIsWhite THEN q ELSE p, linked |-> FALSE]

(* The best player left meets the next one, or the one after that if the   *)
(* next one was the last opponent.                                         *)
PairOff(r) ==
  LET better(p, q) ==
        \/ r.stats[p].points > r.stats[q].points
        \/ r.stats[p].points = r.stats[q].points /\ p < q
      off[pool \in Seq(Player)] ==
        IF Len(pool) < 2 THEN <<>>
        ELSE LET p == Head(pool)
                 rest == Tail(pool)
                 i == IF Len(rest) > 1 /\ r.last[p] = rest[1] THEN 2 ELSE 1
             IN <<Coloured(r, p, rest[i])>> \o off[RemoveAt(rest, i)]
  IN off[SetToSortSeq(Available(r), better)]

Authorise(r, pairs) ==
  LET ids == r.seq + 1..r.seq + Len(pairs)
      whites == {pairs[i].white : i \in DOMAIN pairs}
      blacks == {pairs[i].black : i \in DOMAIN pairs}
  IN [r EXCEPT !.seq = @ + Len(pairs),
               !.active = [k \in DOMAIN @ \cup ids |-> IF k \in ids THEN pairs[k - r.seq] ELSE @[k]],
               !.balance = [p \in Player |-> @[p] + (IF p \in whites THEN 1 ELSE IF p \in blacks THEN -1 ELSE 0)]]

PairAvailable(r, late) ==
  IF r.phase # "running" \/ late THEN Settle(r, late) ELSE Authorise(r, PairOff(r))

\* Mutant: a streak survives a draw.
Score_KeepsFire(s, result) ==
  CASE result = "win" -> [s EXCEPT !.points = @ + (IF s.fire THEN 4 ELSE 2), !.run = @ + 1,
                                   !.fire = @ \/ s.run >= 1, !.played = @ + 1]
    [] result = "draw" -> [s EXCEPT !.points = @ + (IF s.fire THEN 2 ELSE 1), !.played = @ + 1]
    [] result = "loss" -> [s EXCEPT !.run = 0, !.fire = FALSE, !.played = @ + 1]

\* applyResult: a streak starts with the second win in a row and doubles what follows.
Score(s, result) ==
  CASE result = "win" -> [s EXCEPT !.points = @ + (IF s.fire THEN 4 ELSE 2), !.run = @ + 1,
                                   !.fire = @ \/ s.run >= 1, !.played = @ + 1]
    [] result = "draw" -> [s EXCEPT !.points = @ + (IF s.fire THEN 2 ELSE 1), !.run = 0, !.fire = FALSE,
                                    !.played = @ + 1]
    [] result = "loss" -> [s EXCEPT !.run = 0, !.fire = FALSE, !.played = @ + 1]

ForPlayer(p, pairing, outcome) ==
  CASE outcome = "draw" -> "draw"
    [] outcome = "white_win" -> IF p = pairing.white THEN "win" ELSE "loss"
    [] outcome = "black_win" -> IF p = pairing.black THEN "win" ELSE "loss"
    [] OTHER -> "loss"

\* Mutant: a resolved pairing only loses its link.
Abandon_Unlinks(r, k) == [r EXCEPT !.active[k].linked = FALSE]

\* abandonPairing
Abandon(r, k) == [r EXCEPT !.active = Restrict(@, DOMAIN @ \ {k})]

\* recordResult
Record(r, k, outcome, late) ==
  LET pairing == r.active[k]
      both == {pairing.white, pairing.black}
      other(p) == IF p = pairing.white THEN pairing.black ELSE pairing.white
  IN Settle([Abandon(r, k) EXCEPT
       !.last = [p \in Player |-> IF p \in both THEN other(p) ELSE @[p]],
       !.stats = [p \in Player |-> IF p \in both THEN Score(@[p], ForPlayer(p, pairing, outcome)) ELSE @[p]]], late)

Resolve(r, k, outcome, late) ==
  PairAvailable(IF outcome = "aborted" THEN Abandon(r, k) ELSE Record(r, k, outcome, late), late)

(* A report finds its pairing by the link, which is gone once it has been  *)
(* resolved; a launch that found a finished game needs no link.            *)
Awaits(r, job) == job.arg \in (IF job.op = "launched" THEN Active(r) ELSE Linked(r))

Decision(r, job, late) ==
  CASE job.op = "register" ->
         PairAvailable(IF r.phase = "finished" THEN r ELSE [r EXCEPT !.joined = @ \cup {job.arg}], late)
    [] job.op = "withdraw" -> [r EXCEPT !.gone = @ \cup ({job.arg} \cap r.joined)]
    [] job.op = "start" -> PairAvailable([r EXCEPT !.phase = IF @ = "registration" THEN "running" ELSE @], late)
    [] job.op = "settle" -> Settle(r, late)
    [] job.op \in {"report", "manual", "launched"} ->
         IF ~Awaits(r, job) THEN r
         ELSE IF job.result = "live" THEN [r EXCEPT !.active[job.arg].linked = TRUE]
         ELSE Resolve(r, job.arg, job.result, late)

-----------------------------------------------------------------------------
(* decide and mutateArena. *)

Goto(p, s) == proc' = [proc EXCEPT ![p] = s]
Do(p, pc) == proc[p].pc = pc
Job(op, arg, result) == [Idle EXCEPT !.pc = "lock", !.job = [op |-> op, arg |-> arg, result |-> result]]

\* The row's lock, then the clock.  The bound: pairings are left.
Lock(p) ==
  /\ Do(p, "lock") /\ lock = {} /\ lock' = {p}
  /\ Len(PairOff(Decision(row, proc[p].job, TRUE))) + row.seq <= MaxSeq \/ expired
  /\ Goto(p, [proc[p] EXCEPT !.pc = "commit", !.late = expired])
  /\ UNCHANGED <<row, expired, game, counted, requests, faults>>

\* Mutant: the write does not look at the clock again.
MayWrite_Late(next) == TRUE

\* New pairings are authorised by the clock at the write.
MayWrite(next) == next.seq > row.seq => ~expired

\* The pairing that a decision counts a result for.
Counts(job, next) ==
  IF job.arg \in Active(row) \ Active(next) /\ job.result \in Outcome
  THEN <<[pairing |-> row.active[job.arg], k |-> job.arg, result |-> job.result, by |-> job.op]>>
  ELSE <<>>

(* A refused write is tried again, and by then the clock is late for good. *)
(* Afterwards launches that are missing are recovered; a withdrawal does   *)
(* not, and a launch goes on with the pairings it has read.                *)
Commit(p) ==
  /\ Do(p, "commit") /\ lock' = {}
  /\ LET s == proc[p]
         next == Decision(row, s.job, s.late)
     IN IF MayWrite(next)
        THEN /\ row' = next /\ counted' = counted \o Counts(s.job, next)
             /\ Goto(p, CASE s.job.op = "withdraw" -> Idle
                          [] s.job.op = "launched" -> [Idle EXCEPT !.pc = "launch", !.todo = s.todo]
                          [] OTHER -> [Idle EXCEPT !.pc = "read"])
        ELSE Goto(p, [s EXCEPT !.pc = "lock"]) /\ UNCHANGED <<row, counted>>
  /\ UNCHANGED <<expired, game, requests, faults>>

-----------------------------------------------------------------------------
(* reconcile: launches the pairings a read found without a game. *)

Read(p) ==
  /\ Do(p, "read")
  /\ Goto(p, IF row.phase = "running" /\ expired /\ Active(row) = {} THEN Job("settle", 0, "none")
             ELSE [Idle EXCEPT !.pc = "launch", !.todo = Active(row) \ Linked(row)])
  /\ UNCHANGED <<row, expired, lock, game, counted, requests, faults>>

\* Mutant: a game of the pairing that has ended is launched over.
Launched_Anew(k) == "live"

\* The loser of a race for the id finds the winner's game, which may have ended.
Launched(k) == IF game[k] = "none" THEN "live" ELSE game[k]

Launch(p) ==
  /\ Do(p, "launch")
  /\ IF proc[p].todo = {} THEN Goto(p, Idle) /\ UNCHANGED game
     ELSE LET k == Min(proc[p].todo)
          IN /\ game' = [game EXCEPT ![k] = Launched(k)]
             /\ Goto(p, [Job("launched", k, Launched(k)) EXCEPT !.todo = proc[p].todo \ {k}])
  /\ UNCHANGED <<row, expired, lock, counted, requests, faults>>

-----------------------------------------------------------------------------
(* Requests, the worker, the reporter, the players and the clock. *)

Begin(p, s) == Do(p, "idle") /\ Goto(p, s) /\ UNCHANGED <<row, expired, lock, game, counted, faults>>

\* A director decides a game whatever its players do; the route takes no aborts.
Request(p) ==
  /\ requests < MaxRequests /\ requests' = requests + 1
  /\ \/ \E who \in Player \ row.joined : Begin(p, Job("register", who, "none"))
     \/ \E who \in row.joined \ row.gone : Begin(p, Job("withdraw", who, "none"))
     \/ \E k \in Linked(row), r \in Outcome \ {"double_forfeit"} : Begin(p, Job("manual", k, r))

Start(p) == row.phase = "registration" /\ Begin(p, Job("start", 0, "none")) /\ UNCHANGED requests

\* arena_deadlines: a launch is missing, or the deadline has passed.
Work == row.phase = "running" /\ (expired \/ Active(row) # Linked(row))
Poll(p) == Work /\ Begin(p, [Idle EXCEPT !.pc = "read"]) /\ UNCHANGED requests

\* A scan, or the broadcast of the ending; the same ending may be reported again.
Report(p) == \E k \in Linked(row) : game[k] \in Ended /\ Begin(p, Job("report", k, game[k])) /\ UNCHANGED requests

End(k) ==
  /\ game[k] = "live" /\ \E outcome \in Ended : game' = [game EXCEPT ![k] = outcome]
  /\ UNCHANGED <<row, expired, lock, proc, counted, requests, faults>>

Expire ==
  /\ row.phase = "running" /\ ~expired /\ expired' = TRUE
  /\ UNCHANGED <<row, lock, game, proc, counted, requests, faults>>

Faulty == faults < MaxFaults /\ faults' = faults + 1

\* The game's players are taken, the store is away, or the reply is lost.
LaunchFails(p) ==
  /\ Do(p, "launch") /\ proc[p].todo # {} /\ Faulty
  /\ LET k == Min(proc[p].todo)
     IN game' \in {game, [game EXCEPT ![k] = Launched(k)]}
  /\ Goto(p, Idle) /\ UNCHANGED <<row, expired, lock, counted, requests>>

Crash(p) ==
  /\ ~Do(p, "idle") /\ Faulty
  /\ Goto(p, Idle) /\ lock' = lock \ {p} /\ UNCHANGED <<row, expired, game, counted, requests>>

Proceed(p) == Lock(p) \/ Commit(p) \/ Read(p) \/ Launch(p)

Next ==
  \/ \E p \in Process :
       Request(p) \/ Start(p) \/ Poll(p) \/ Report(p) \/ Proceed(p) \/ LaunchFails(p) \/ Crash(p)
  \/ \E k \in Pairing : End(k)
  \/ Expire

Spec == Init /\ [][Next]_vars

\* The worker and the reporter poll for ever, calls return, games end and time passes.
Fairness ==
  /\ \A p \in Process : WF_vars(Proceed(p)) /\ SF_vars(Poll(p)) /\ SF_vars(Report(p))
  /\ \A k \in Pairing : WF_vars(End(k))
  /\ WF_vars(Expire)

-----------------------------------------------------------------------------

(* Nobody is expected at two boards: the replicas' decisions never overlap, *)
(* and a game still being played belongs to a pairing that waits for it,    *)
(* unless a director decided it over the players' heads.                    *)
Decided == {counted[i].k : i \in {j \in DOMAIN counted : counted[j].by = "manual"}}
OneBoardEach ==
  /\ \A k, j \in Active(row) : k # j =>
       {row.active[k].white, row.active[k].black} \cap {row.active[j].white, row.active[j].black} = {}
  /\ \A k \in Pairing : game[k] = "live" => k \in Active(row) \cup Decided

(* However often and by whomever an ending is reported, it counts once, and *)
(* as the game ended unless a director decided it.                          *)
CountedOnce ==
  \A i \in DOMAIN counted :
    /\ counted[i].by # "manual" => counted[i].result = game[counted[i].k]
    /\ \A j \in DOMAIN counted : counted[j].k = counted[i].k => i = j

(* The standings are what the counted results are worth: a win two points,  *)
(* a draw one, twice that directly after two wins or more in a row.         *)
Of(p) == SelectSeq(counted, LAMBDA c : p \in {c.pairing.white, c.pairing.black})
Worth(p, i) ==
  LET won(j) == j >= 1 /\ ForPlayer(p, Of(p)[j].pairing, Of(p)[j].result) = "win"
      base == CASE won(i) -> 2 [] Of(p)[i].result = "draw" -> 1 [] OTHER -> 0
  IN IF won(i - 1) /\ won(i - 2) THEN 2 * base ELSE base
StandingsAreTheResults ==
  \A p \in Player :
    /\ row.stats[p].played = Len(Of(p))
    /\ row.stats[p].points = FoldFunctionOnSet(+, 0, [i \in DOMAIN Of(p) |-> Worth(p, i)], DOMAIN Of(p))

(* Nobody who could be paired is left waiting before the deadline, and an   *)
(* arena that is over has no game to wait for.                              *)
NobodyWaits ==
  /\ row.phase = "running" /\ ~expired => Cardinality(Available(row)) <= 1
  /\ row.phase # "running" => Active(row) = {}

(* No pairing is authorised after the deadline, wherever the clock was      *)
(* when its decision was made.                                              *)
DeadlineHolds == [][row'.seq # row.seq => ~expired]_vars

RowIsSound == OneBoardEach /\ CountedOnce /\ StandingsAreTheResults /\ NobodyWaits
ArenaIsSound == []RowIsSound /\ DeadlineHolds

(* An arena past its deadline is over in the end: no pairing that crashed   *)
(* before its launch, or ended before it was linked, keeps it open.         *)
ArenaEnds == expired ~> row.phase = "finished"

=============================================================================

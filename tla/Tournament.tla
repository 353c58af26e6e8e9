------------------------------ MODULE Tournament ------------------------------
(***************************************************************************)
(* The round-based tournament: Swiss and round-robin pairing, rounds that  *)
(* follow one another when every game is decided, and withdrawals at any   *)
(* time.  Players are known by their seeds 1..n.                           *)
(***************************************************************************)
EXTENDS Integers, Sequences, SequencesExt, FiniteSetsExt, Functions

CONSTANTS MaxField,        \* bound: players who register
          Fields,          \* the tournaments that are played, as [format, n]
          TotalRounds,     \* rounds of a Swiss tournament
          Outcome,         \* results of games, of GameResult
          MaxChanges       \* bound: withdrawals while it runs, and results that replace another

VARIABLES t,          \* the tournament
          changes

vars == <<t, changes>>

Assumptions ==
  /\ {MaxField, TotalRounds, MaxChanges} \subseteq Nat
  /\ Outcome \subseteq {"white_win", "black_win", "draw", "double_forfeit"}
  /\ \A f \in Fields : f.format \in {"swiss", "round_robin"} /\ f.n \in 2..MaxField

(* rounds: each a sequence of pairings <<white, black>>, or <<player, 0>>  *)
(* for a bye, with the results beside them.  left: the round in which a    *)
(* player withdrew.  forfeits: matches that a withdrawal decided while     *)
(* their game was linked.                                                  *)
Blank(format) == [format |-> format, n |-> 0, phase |-> "registration", rounds |-> <<>>, results |-> <<>>,
                  left |-> <<>>, forfeits |-> {}]

IsBye(pairing) == pairing[2] = 0
Withdrawn(s) == DOMAIN s.left
Active(s) == 1..s.n \ Withdrawn(s)
Results == Outcome \cup {"none", "bye", "void", "white_win", "black_win", "double_forfeit"}

TypeOK ==
  /\ t.phase \in {"registration", "running", "finished"} /\ t.n \in 0..MaxField
  /\ Withdrawn(t) \subseteq 1..t.n /\ changes \in 0..MaxChanges
  /\ Len(t.rounds) = Len(t.results)
  /\ \A r \in DOMAIN t.rounds : t.results[r] \in [DOMAIN t.rounds[r] -> Results]

Init == changes = 0 /\ \E format \in {"swiss", "round_robin"} : t = Blank(format)

-----------------------------------------------------------------------------
(* buildContext: what decided games say about each player. *)

Matches(s) == UNION {{r} \X DOMAIN s.rounds[r] : r \in DOMAIN s.rounds}
Pairing(s, m) == s.rounds[m[1]][m[2]]
ResultOf(s, m) == s.results[m[1]][m[2]]
Foe(pairing, p) == IF pairing[1] = p THEN pairing[2] ELSE pairing[1]
Of(s, p) == {m \in Matches(s) : p \in Range(Pairing(s, m))}
Games(s, p) == {m \in Of(s, p) : ~IsBye(Pairing(s, m)) /\ ResultOf(s, m) # "none"}

Opponents(s, p) == {Foe(Pairing(s, m), p) : m \in Games(s, p)}
Whites(s, p) == Cardinality({m \in Games(s, p) : Pairing(s, m)[1] = p})
ColourDebt(s, p) == 2 * Whites(s, p) - Cardinality(Games(s, p))
HadBye(s, p) == \E m \in Of(s, p) : ResultOf(s, m) = "bye"

\* In half points.
PointsFrom(s, p, m) ==
  CASE ResultOf(s, m) = "draw" -> 1
    [] ResultOf(s, m) \in {"bye", "white_win"} /\ Pairing(s, m)[1] = p -> 2
    [] ResultOf(s, m) = "black_win" /\ Pairing(s, m)[2] = p -> 2
    [] OTHER -> 0
Points(s, p) == LET score(m) == PointsFrom(s, p, m) IN MapThenSumSet(score, Of(s, p))

-----------------------------------------------------------------------------
(* Swiss pairing.  Exhausted stands for the lack of a round. *)

Exhausted == <<<<0, 0>>>>

\* The lowest seed has the bye, the top half meets the bottom half.
FirstRound(n) ==
  LET half == n \div 2
  IN (IF n % 2 = 1 THEN <<<<n, 0>>>> ELSE <<>>) \o [i \in 1..half |-> <<i, half + i>>]

\* Mutant: a rematch is no obstacle.
MayMeet_Again(s, p, q) == p # q

MayMeet(s, p, q) == q \notin Opponents(s, p)

(* findMatching: the best player left takes the nearest opponent with whom *)
(* everybody else can still be paired.                                     *)
Matching(s, pool) ==
  LET left[S \in SUBSET DOMAIN pool] ==
        IF S = {} THEN <<>>
        ELSE LET i == Min(S)
                 js == {j \in S \ {i} : MayMeet(s, pool[i], pool[j]) /\ left[S \ {i, j}] # Exhausted}
             IN IF js = {} THEN Exhausted ELSE <<<<pool[i], pool[Min(js)]>>>> \o left[S \ {i, Min(js)}]
  IN left[DOMAIN pool]

\* White for the player with fewer whites to spare, then for the higher seed.
Coloured(s, pairing) ==
  LET p == pairing[1]
      q == pairing[2]
      pIsWhite == \/ ColourDebt(s, p) < ColourDebt(s, q)
                  \/ ColourDebt(s, p) = ColourDebt(s, q) /\ p < q
  IN IF pIsWhite THEN <<p, q>> ELSE <<q, p>>

\* Mutant: a bye may be given twice.
MayHaveBye_Again(s, p) == TRUE

MayHaveBye(s, p) == ~HadBye(s, p)

ByScore(players, score) ==
  SetToSortSeq(players, LAMBDA p, q : score[p] > score[q] \/ (score[p] = score[q] /\ p < q))

\* The last in the order who may still have a bye and leaves a pairing has it.
PairedInOrder(s, order) ==
  LET without(bye) == SelectSeq(order, LAMBDA p : p # bye)
      byes == IF Len(order) % 2 = 0 THEN <<0>>
              ELSE Reverse(SelectSeq(order, LAMBDA p : MayHaveBye(s, p)))
      games == [k \in DOMAIN byes |-> Matching(s, without(byes[k]))]
      fitting == {k \in DOMAIN byes : games[k] # Exhausted}
      round(bye, pairs) ==
        (IF bye = 0 THEN <<>> ELSE <<<<bye, 0>>>>) \o [i \in DOMAIN pairs |-> Coloured(s, pairs[i])]
  IN IF fitting = {} THEN Exhausted ELSE round(byes[Min(fitting)], games[Min(fitting)])

LaterRound(s) == PairedInOrder(s, ByScore(Active(s), [p \in Active(s) |-> Points(s, p)]))

SwissRound(s) ==
  IF Cardinality(Active(s)) < 2 \/ Len(s.rounds) >= TotalRounds THEN Exhausted
  ELSE IF s.rounds = <<>> THEN FirstRound(s.n) ELSE LaterRound(s)

-----------------------------------------------------------------------------
(* Round-robin pairing, by the circle method. *)

\* Mutant: the fixed player always has the same colour.
FixedIsWhite_Never(r, half) == FALSE

FixedIsWhite(r, half) == r > half

\* createPairing, where the last of an even number is the fixed player or the bye.
Meeting(n, a, b, r) ==
  LET even == n + (n % 2)
      x == IF a = even THEN b ELSE a
      y == IF a = even THEN a ELSE b
      xIsWhite == IF y = even THEN ~FixedIsWhite(r, even \div 2)
                  ELSE ((x + y) % 2 = 1) <=> x < y
  IN IF y > n THEN <<x, 0>> ELSE IF xIsWhite THEN <<x, y>> ELSE <<y, x>>

\* computeFullSchedule: round r of n players.
BergerRound(n, r) ==
  LET even == n + (n % 2)
      circle == even - 1
  IN [i \in 1..even \div 2 |->
        IF i = 1 THEN Meeting(n, r, even, r)
        ELSE Meeting(n, ((r + i - 2) % circle) + 1, ((r - i + circle) % circle) + 1, r)]

RoundRobinRound(s) ==
  IF Len(s.rounds) >= s.n + (s.n % 2) - 1 THEN Exhausted ELSE BergerRound(s.n, Len(s.rounds) + 1)

-----------------------------------------------------------------------------
(* The rounds. *)

\* indexRound: byes count at once, and who has withdrawn forfeits.
FirstResult(s, pairing) ==
  LET gone == Range(pairing) \cap Withdrawn(s)
  IN IF IsBye(pairing) THEN IF gone = {} THEN "bye" ELSE "void"
     ELSE IF gone = {} THEN "none"
     ELSE IF Cardinality(gone) = 2 THEN "double_forfeit"
     ELSE IF pairing[1] \in gone THEN "black_win" ELSE "white_win"

WithRound(s, round) ==
  IF round = Exhausted THEN [s EXCEPT !.phase = "finished"]
  ELSE [s EXCEPT !.rounds = Append(@, round),
                 !.results = Append(@, [i \in DOMAIN round |-> FirstResult(s, round[i])])]

Extended(s) == WithRound(s, IF s.format = "swiss" THEN SwissRound(s) ELSE RoundRobinRound(s))

\* Mutant: one undecided game does not hold up the round.
IsComplete_AllButOne(results) == Cardinality({i \in DOMAIN results : results[i] = "none"}) <= 1

IsComplete(results) == \A i \in DOMAIN results : results[i] # "none"

\* tryAdvance: again while the new round is decided by itself.
Advanced(s) ==
  LET tries[k \in 0..MaxField + 1] ==
        IF k = 0 THEN s
        ELSE LET u == tries[k - 1]
             IN IF u.phase = "running" /\ IsComplete(Last(u.results)) THEN Extended(u) ELSE u
  IN tries[MaxField + 1]

-----------------------------------------------------------------------------

Register ==
  /\ t.phase = "registration" /\ t.n < MaxField
  /\ t' = [t EXCEPT !.n = @ + 1]
  /\ UNCHANGED changes

Start ==
  /\ t.phase = "registration" /\ [format |-> t.format, n |-> t.n] \in Fields
  /\ t' = Advanced(Extended([t EXCEPT !.phase = "running"]))
  /\ UNCHANGED changes

\* Who withdraws forfeits the game of the current round, or loses the bye.
Forfeited(s, p) ==
  LET r == Len(s.rounds)
      after(i) == LET pairing == s.rounds[r][i]
                      result == s.results[r][i]
                  IN IF p \notin Range(pairing) \/ result \notin {"none", "bye"} THEN result
                     ELSE IF IsBye(pairing) THEN "void"
                     ELSE IF pairing[1] = p THEN "black_win" ELSE "white_win"
  IN [s EXCEPT !.results[r] = [i \in DOMAIN @ |-> after(i)]]

\* Mutant: the round is not looked at after a withdrawal.
AfterWithdrawal_Waits(s) == s

LastOneStanding(s) == IF Cardinality(Active(s)) < 2 THEN [s EXCEPT !.phase = "finished"] ELSE s

AfterWithdrawal(s) == LastOneStanding(Advanced(s))

Withdraw(p) ==
  /\ t.phase = "running" /\ p \in Active(t)
  /\ LET gone == Forfeited([t EXCEPT !.left = (p :> Len(t.rounds)) @@ @], p)
         lost == {<<Len(t.rounds), i>> : i \in {j \in DOMAIN Last(t.results) :
                     Last(t.results)[j] = "none" /\ Last(gone.results)[j] # "none"}}
     IN \E linked \in {{}, lost} : t' = AfterWithdrawal([gone EXCEPT !.forfeits = @ \cup linked])
  /\ changes < MaxChanges /\ changes' = changes + 1

\* recordResult takes a result for any game there is, also over another one.
RecordResult(m, result) ==
  /\ t.phase = "running" /\ ~IsBye(Pairing(t, m))
  /\ \/ ResultOf(t, m) = "none" /\ UNCHANGED changes
     \/ ResultOf(t, m) # "none" /\ changes < MaxChanges /\ changes' = changes + 1
  /\ t' = Advanced([t EXCEPT !.results[m[1]][m[2]] = result, !.forfeits = @ \ {m}])

\* correctWithdrawalForfeit: what the game said replaces the forfeit, even afterwards.
CorrectForfeit(m, result) ==
  /\ m \in t.forfeits
  /\ t' = [t EXCEPT !.results[m[1]][m[2]] = result, !.forfeits = @ \ {m}]
  /\ UNCHANGED changes

Next ==
  \/ Register \/ Start
  \/ \E p \in Active(t) : Withdraw(p)
  \/ \E m \in Matches(t), result \in Outcome : RecordResult(m, result) \/ CorrectForfeit(m, result)

Spec == Init /\ [][Next]_vars

-----------------------------------------------------------------------------

Started == t.phase # "registration"

\* Who was to be paired in a round: Swiss leaves out who has withdrawn before.
Expected(r) ==
  {p \in 1..t.n : t.format = "round_robin" \/ p \notin Withdrawn(t) \/ t.left[p] >= r}

(* "No player is ever silently dropped from a round": every round pairs    *)
(* everybody it should, once.                                              *)
EverybodyIsPaired ==
  \A r \in DOMAIN t.rounds :
    \A p \in 1..t.n : Cardinality({i \in DOMAIN t.rounds[r] : p \in Range(t.rounds[r][i])})
                        = IF p \in Expected(r) THEN 1 ELSE 0

(* Two players meet at most once, and nobody has two byes.                 *)
NobodyMeetsTwice ==
  /\ \A m \in Matches(t), o \in Matches(t) :
       m # o /\ ~IsBye(Pairing(t, m)) => Range(Pairing(t, m)) # Range(Pairing(t, o))
  /\ \A p \in 1..t.n : Cardinality({m \in Of(t, p) : IsBye(Pairing(t, m))}) <= 1

(* A running tournament waits for a game that can still be played: it is   *)
(* never stuck in a round that is complete.  A finished one waits for none. *)
ItWaitsForAGame ==
  /\ t.phase = "running" =>
       \E i \in DOMAIN Last(t.results) : Last(t.results)[i] = "none" /\ Range(Last(t.rounds)[i]) \subseteq Active(t)
  /\ Started => \A r \in DOMAIN t.results : IsComplete(t.results[r]) \/ (t.phase = "running" /\ r = Len(t.rounds))

\* A round that could have been played: a bye for one without, and no rematch.
CouldPair(players) ==
  \E games \in kSubset(Cardinality(players) \div 2, kSubset(2, players)) :
    /\ UNION games = players
    /\ \A g \in games : \A m \in Matches(t) : Range(Pairing(t, m)) # g
CouldGoOn ==
  IF Cardinality(Active(t)) % 2 = 0 THEN CouldPair(Active(t))
  ELSE \E p \in Active(t) : ~HadBye(t, p) /\ CouldPair(Active(t) \ {p})

(* A Swiss tournament ends early only if no complete pairing without a     *)
(* rematch or a second bye exists, and a round-robin when all have met.    *)
EndsWhenExhausted ==
  t.phase = "finished" /\ Cardinality(Active(t)) >= 2 =>
    IF t.format = "swiss" THEN Len(t.rounds) = TotalRounds \/ ~CouldGoOn
    ELSE \A p \in 1..t.n, q \in 1..t.n : p < q => \E m \in Matches(t) : Range(Pairing(t, m)) = {p, q}

(* The schedule of every field: everybody meets everybody, rests at most   *)
(* once, and has one colour at most once more than the other.              *)
ScheduleIsBalanced ==
  t.format = "round_robin" /\ ~Started /\ t.n >= 2 =>
    LET schedule == [r \in 1..t.n + (t.n % 2) - 1 |-> BergerRound(t.n, r)]
        seats(p, k) == Cardinality({r \in DOMAIN schedule : \E i \in DOMAIN schedule[r] :
                                      schedule[r][i][k] = p /\ ~IsBye(schedule[r][i])})
    IN /\ \A p \in 1..t.n : seats(p, 1) - seats(p, 2) \in -1..1 /\ seats(p, 1) + seats(p, 2) = t.n - 1
       /\ kSubset(2, 1..t.n) \subseteq UNION {{Range(schedule[r][i]) : i \in DOMAIN schedule[r]} : r \in DOMAIN schedule}

(* "Existing rounds are published history": they are never paired again,   *)
(* whatever is corrected in them.                                          *)
RoundsArePublished == [][IsPrefix(t.rounds, t'.rounds)]_vars

TournamentIsSound ==
  /\ [](EverybodyIsPaired /\ NobodyMeetsTwice /\ ItWaitsForAGame /\ EndsWhenExhausted /\ ScheduleIsBalanced)
  /\ RoundsArePublished

=============================================================================

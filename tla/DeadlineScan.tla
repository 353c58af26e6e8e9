----------------------------- MODULE DeadlineScan -----------------------------
(***************************************************************************)
(* The rotation of an expiry worker over the queue of overdue games: pages *)
(* in the order of deadlines, behind a cursor that moves past what failed. *)
(* What settling a game does to it is the subject of module Game; here it  *)
(* succeeds, fails, or fails for ever.                                     *)
(***************************************************************************)
EXTENDS Naturals, FiniteSets, FiniteSetsExt

CONSTANTS Games,      \* games by the order of their ids
          Poison,     \* games whose settling always fails
          Scanner,    \* expiry workers, one to a gateway
          PageSize,
          MaxNow,     \* bound: the clock, and deadlines
          MaxFaults   \* bound: calls that fail and restarts

VARIABLES time, due, scanner, faults

vars == <<time, due, scanner, faults>>

Never == 0  \* no row
First == <<0, 0>>  \* the cursor that is null

Assumptions ==
  /\ Games \subseteq Nat \ {0} /\ Poison \subseteq Games
  /\ PageSize \in Nat \ {0} /\ {MaxNow, MaxFaults} \subseteq Nat

Waiting == [cursor |-> First, page |-> {}]
TypeOK ==
  /\ time \in 1..MaxNow /\ due \in [Games -> 0..MaxNow + 1] /\ faults \in 0..MaxFaults
  /\ \A s \in Scanner : scanner[s].page \subseteq (1..MaxNow) \X Games

\* Games that became overdue while nobody ran are among the first.
Init ==
  /\ time = 1 /\ faults = 0 /\ due \in [Games -> 1..MaxNow]
  /\ scanner = [s \in Scanner |-> Waiting]

Before(x, y) == x[1] < y[1] \/ (x[1] = y[1] /\ x[2] < y[2])
Overdue(after) == {x \in {<<due[g], g>> : g \in {h \in Games : due[h] \in 1..time}} : Before(after, x)}
Page(after) == {x \in Overdue(after) : Cardinality({y \in Overdue(after) : Before(y, x)}) < PageSize}
Last(page) == CHOOSE x \in page : \A y \in page : x = y \/ Before(y, x)

Do(s, w) == scanner' = [scanner EXCEPT ![s] = w]

\* Mutant: the cursor goes on after a short page.
NextCursor_Onwards(s, page) == IF page = {} THEN scanner[s].cursor ELSE Last(page)

\* Mutant: every pass starts at the front.
NextCursor_Front(s, page) == First

\* Only a full page leaves the cursor behind it.
NextCursor(s, page) == IF Cardinality(page) = PageSize THEN Last(page) ELSE First

Pass(s) ==
  /\ scanner[s].page = {}
  /\ LET page == Page(scanner[s].cursor)
     IN Do(s, [cursor |-> NextCursor(s, page), page |-> page])
  /\ UNCHANGED <<time, due, faults>>

Head(s) == CHOOSE x \in scanner[s].page : \A y \in scanner[s].page : x = y \/ Before(x, y)
Done(s) == Do(s, [scanner[s] EXCEPT !.page = @ \ {Head(s)}])

\* The log decides: a game whose deadline a move has put off stays.
Settle(s) ==
  /\ scanner[s].page # {} /\ Done(s)
  /\ LET g == Head(s)[2]
     IN due' = IF g \in Poison \/ due[g] > time THEN due ELSE [due EXCEPT ![g] = Never]
  /\ UNCHANGED <<time, faults>>

Faulty == faults < MaxFaults /\ faults' = faults + 1

SettleFails(s) == scanner[s].page # {} /\ Faulty /\ Done(s) /\ UNCHANGED <<time, due>>

\* A failed query leaves the cursor where it is.
Restart(s) == Faulty /\ Do(s, Waiting) /\ UNCHANGED <<time, due>>

Tick == time < MaxNow /\ time' = time + 1 /\ UNCHANGED <<due, scanner, faults>>

\* A move of an overdue game that came before its ending.
PutOff(g) ==
  /\ due[g] \in 1..MaxNow /\ \E d \in due[g] + 1..MaxNow + 1 : d > time /\ due' = [due EXCEPT ![g] = d]
  /\ UNCHANGED <<time, scanner, faults>>

Next ==
  \/ \E s \in Scanner : Pass(s) \/ Settle(s) \/ SettleFails(s) \/ Restart(s)
  \/ \E g \in Games : PutOff(g)
  \/ Tick

Spec == Init /\ [][Next]_vars

\* A pass is always scheduled after the last, and routed commands return.
Fairness == \A s \in Scanner : WF_vars(Pass(s)) /\ WF_vars(Settle(s))

-----------------------------------------------------------------------------

(* Every game that is overdue is settled, or put off by a move, in spite of *)
(* those before it that fail for ever and of calls that fail once.          *)
EveryDueGameIsReached ==
  \A g \in Games \ Poison : (due[g] \in 1..time) ~> (due[g] = Never \/ due[g] > time)

=============================================================================

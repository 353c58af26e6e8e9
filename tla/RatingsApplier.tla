---------------------------- MODULE RatingsApplier ----------------------------
(***************************************************************************)
(* The appliers that rate every finished game once, in the order of the    *)
(* log, from a checkpoint they share.  Games have one event here, their    *)
(* ending; what an ending does to two ratings is its place in the ledger.  *)
(***************************************************************************)
EXTENDS CommittedPrefix

CONSTANTS Applier, BatchSize

VARIABLES checkpoint,  \* rating_checkpoint
          ledger,      \* rating_applications, in the order they were applied
          unrated,     \* rating_ineligible_games and rating_blocked_games
          batch        \* the batch each applier has in progress

vars == <<logVars, checkpoint, ledger, unrated, batch>>

Assumptions == EndSeq = 0 /\ BatchSize \in Nat \ {0} /\ MaxXid \in Nat

Idle == [phase |-> "idle", horizon |-> 0, page |-> {}, rewound |-> FALSE]

Init ==
  /\ LogInit /\ checkpoint = 0 /\ ledger = <<>> /\ unrated = {}
  /\ batch = [a \in Applier |-> Idle]

TypeOK ==
  /\ LogTypeOK /\ checkpoint \in 0..MaxXid
  /\ ledger \in Seq(Game) /\ unrated \subseteq Game
  /\ \A a \in Applier : batch[a].phase \in {"idle", "snapped", "held"} /\ batch[a].page \subseteq committed
  /\ \A a, b \in Applier : batch[a].phase = "held" /\ batch[b].phase = "held" => a = b

Decided == ToSet(ledger) \cup unrated

\* The horizon is read before the checkpoint is locked.
TakeSnapshot(a) ==
  /\ batch[a].phase = "idle"
  /\ batch' = [batch EXCEPT ![a] = [Idle EXCEPT !.phase = "snapped", !.horizon = Horizon]]
  /\ UNCHANGED <<logVars, checkpoint, ledger, unrated>>

\* Mutant: the rewind is judged by the first horizon.
Rewound_First(a) == checkpoint >= batch[a].horizon

\* "The rewind is judged by a horizon read now."
Rewound(a) == checkpoint >= Horizon

\* The checkpoint is locked and a page read from it, or another applier holds it.
LockCheckpoint(a) ==
  /\ batch[a].phase = "snapped"
  /\ batch' = [batch EXCEPT ![a] =
       IF \E b \in Applier : batch[b].phase = "held" THEN Idle
       ELSE [phase |-> "held", horizon |-> @.horizon, rewound |-> Rewound(a),
             page |-> Page(committed, IF Rewound(a) THEN 0 ELSE checkpoint, @.horizon, BatchSize)]]
  /\ UNCHANGED <<logVars, checkpoint, ledger, unrated>>

\* Earlier decisions are sticky (rateOne).
Undecided(page) == {e.game : e \in page} \ Decided

XidOf(g) == CHOOSE x \in Positions(committed) : [x |-> x, game |-> g, seq |-> 0] \in committed

\* The one sequence of some games in the order of their endings.
InLogOrder(some) ==
  {s \in [1..Cardinality(some) -> some] :
     ToSet(s) = some /\ \A i, j \in DOMAIN s : i < j => XidOf(s[i]) < XidOf(s[j])}

(* The page is rated in order; a game whose accounts or stream do not      *)
(* qualify is recorded as such.  Ratings, ledger and checkpoint commit     *)
(* together.                                                               *)
CommitBatch(a) ==
  /\ batch[a].phase = "held"
  /\ LET page == batch[a].page
     IN \E out \in SUBSET Undecided(page) :
          /\ \E rated \in InLogOrder(Undecided(page) \ out) : ledger' = ledger \o rated
          /\ unrated' = unrated \cup out
          /\ checkpoint' = IF page # {} THEN Max(Positions(page))
                           ELSE IF batch[a].rewound THEN 0 ELSE checkpoint
  /\ batch' = [batch EXCEPT ![a] = Idle]
  /\ UNCHANGED logVars

\* A failure or a crash before the commit changes nothing.
BatchFails(a) ==
  /\ batch[a].phase # "idle"
  /\ batch' = [batch EXCEPT ![a] = Idle]
  /\ UNCHANGED <<logVars, checkpoint, ledger, unrated>>

Next ==
  \/ LogNext /\ UNCHANGED <<checkpoint, ledger, unrated, batch>>
  \/ \E a \in Applier : TakeSnapshot(a) \/ LockCheckpoint(a) \/ CommitBatch(a) \/ BatchFails(a)

Spec == Init /\ [][Next]_vars

-----------------------------------------------------------------------------

(* "Applies every rated result exactly once, in one order that live        *)
(* processing and any replay agree on": the ledger is in the order of the  *)
(* log, although transactions finish in any order, and the checkpoint has  *)
(* passed no ending that is not decided.                                   *)
RatedInOrder ==
  /\ \A i, j \in DOMAIN ledger : i < j => XidOf(ledger[i]) < XidOf(ledger[j])
  /\ \A e \in committed : e.x <= checkpoint => e.game \in Decided

(* "Within one cluster the checkpoint is always below the horizon": no     *)
(* race between two appliers makes one of them start over.                 *)
NeverRewinds == [][checkpoint' >= checkpoint]_checkpoint

RatingsFollowTheLog == []RatedInOrder /\ NeverRewinds

=============================================================================

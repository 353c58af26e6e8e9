---------------------------- MODULE GamesProjector ----------------------------
(***************************************************************************)
(* The projectors that keep the table `games` equal to the committed log,  *)
(* beside a rebuild of the whole table.  A row is the number of events it  *)
(* was folded from; the last of them ends the game.                        *)
(***************************************************************************)
EXTENDS CommittedPrefix

CONSTANTS Projector, BatchSize,
          Breakable  \* bound: the games whose streams may not fold

VARIABLES checkpoint,  \* projection_checkpoints
          row,         \* games: how many events each row was folded from
          failing,     \* games_projection_failures
          broken,      \* the games whose streams cannot be folded
          announced,   \* how often a batch reported the game's ending
          batch,       \* the batch each projector has in progress
          rebuild      \* the page of the rebuild in progress, and what was written beside it

projection == <<checkpoint, row, failing, announced>>
vars == <<logVars, projection, broken, batch, rebuild>>

Assumptions == {EndSeq, MaxXid} \subseteq Nat /\ BatchSize \in Nat \ {0} /\ Breakable \subseteq Game

Idle == [phase |-> "idle", horizon |-> 0, page |-> {}, rewound |-> FALSE, retried |-> {},
         height |-> [g \in Game |-> 0]]
NoRebuild == [phase |-> "idle", log |-> {}, failing |-> {}, live |-> {}, written |-> {}, failed |-> {}]

Init ==
  /\ LogInit /\ checkpoint = 0
  /\ row = [g \in Game |-> 0] /\ announced = [g \in Game |-> 0]
  /\ failing = {} /\ broken \in SUBSET Breakable
  /\ batch = [p \in Projector |-> Idle] /\ rebuild = NoRebuild

Ended(height) == height = EndSeq + 1
Touched(b) == {e.game : e \in b.page} \cup b.retried
Later(m, n) == IF m >= n THEN m ELSE n

TypeOK ==
  /\ LogTypeOK /\ checkpoint \in 0..MaxXid /\ failing \subseteq Game /\ broken \subseteq Breakable
  /\ row \in [Game -> 0..EndSeq + 1] /\ announced \in [Game -> 0..2]
  /\ \A p \in Projector : batch[p].phase \in {"idle", "snapped", "held", "loaded"}
  /\ \A p \in Projector : batch[p].page \subseteq committed
  /\ \A p, q \in Projector : {batch[p].phase, batch[q].phase} \subseteq {"held", "loaded"} => p = q

TakeSnapshot(p) ==
  /\ batch[p].phase = "idle"
  /\ batch' = [batch EXCEPT ![p] = [Idle EXCEPT !.phase = "snapped", !.horizon = Horizon]]
  /\ UNCHANGED <<logVars, projection, broken, rebuild>>

\* Here the rewind is judged by the horizon read before the lock.
Rewound(p) == checkpoint >= batch[p].horizon

\* The checkpoint is locked, a page and the due retries are read, or another holds it.
LockCheckpoint(p) ==
  /\ batch[p].phase = "snapped"
  /\ \E due \in SUBSET failing :
       batch' = [batch EXCEPT ![p] =
         IF \E q \in Projector : batch[q].phase \in {"held", "loaded"} THEN Idle
         ELSE [@ EXCEPT !.phase = "held", !.rewound = Rewound(p), !.retried = due,
                        !.page = Page(committed, IF Rewound(p) THEN 0 ELSE checkpoint,
                                     batch[p].horizon, BatchSize)]]
  /\ UNCHANGED <<logVars, projection, broken, rebuild>>

\* Each touched game is loaded whole, with what was committed since the page was read.
LoadStreams(p) ==
  /\ batch[p].phase = "held"
  /\ batch' = [batch EXCEPT ![p].phase = "loaded", ![p].height = [g \in Game |-> Height(committed, g)]]
  /\ UNCHANGED <<logVars, projection, broken, rebuild>>

\* An upsert never puts an older fold over a newer one.
Folded(old, height) == Later(old, height)

(* Rows, failures and the checkpoint commit together.  A game whose row    *)
(* becomes terminal here is reported.                                      *)
CommitBatch(p) ==
  /\ batch[p].phase = "loaded"
  /\ LET b == batch[p]
         good == Touched(b) \ broken
     IN /\ row' = [g \in Game |-> IF g \in good THEN Folded(row[g], b.height[g]) ELSE row[g]]
        /\ failing' = (failing \ good) \cup (Touched(b) \cap broken)
        /\ announced' = [g \in Game |->
             announced[g] + IF g \in good /\ Ended(b.height[g]) /\ ~Ended(row[g]) THEN 1 ELSE 0]
        /\ checkpoint' = IF b.page # {} THEN Max(Positions(b.page))
                         ELSE IF b.rewound THEN 0 ELSE checkpoint
        /\ rebuild' = IF rebuild.phase = "idle" THEN rebuild
                       ELSE [rebuild EXCEPT
                         !.written = @ \cup {g \in good : row[g] <= b.height[g]},
                         !.failed = @ \cup (Touched(b) \cap broken) \cup (good \cap failing)]
  /\ batch' = [batch EXCEPT ![p] = Idle]
  /\ UNCHANGED <<logVars, broken>>

\* A lost connection or a crash rolls the batch back.
BatchFails(p) ==
  /\ batch[p].phase # "idle"
  /\ batch' = [batch EXCEPT ![p] = Idle]
  /\ UNCHANGED <<logVars, projection, broken, rebuild>>

-----------------------------------------------------------------------------

\* Mutant: only what is below the horizon counts as left to the live projector.
AwaitingLive_Horizon == {e.game : e \in {x \in committed : checkpoint < x.x /\ x.x < Horizon}}

\* Games the live projector is certain to reach; a foreign checkpoint promises nothing.
AwaitingLive ==
  IF checkpoint >= Horizon THEN {} ELSE {e.game : e \in {x \in committed : checkpoint < x.x /\ x.x < next}}

\* A page of the rebuild reads everything in one snapshot (REPEATABLE READ).
StartRebuild ==
  /\ rebuild.phase = "idle"
  /\ rebuild' = [NoRebuild EXCEPT !.phase = "read", !.log = committed, !.failing = failing, !.live = AwaitingLive]
  /\ UNCHANGED <<logVars, projection, broken, batch>>

Rebuilt == {e.game : e \in rebuild.log} \ rebuild.live

\* A row it writes was written since the snapshot: serialization failure, and a retry.
\* (A failure recorded since then is invisible to the DELETE of a game that folds.)
Conflicts ==
  \/ rebuild.written \cap (Rebuilt \ broken) # {}
  \/ rebuild.failed \cap Rebuilt \cap (broken \cup rebuild.failing) # {}

CommitRebuild ==
  /\ rebuild.phase = "read"
  /\ IF Conflicts THEN UNCHANGED <<row, failing>>
     ELSE /\ row' = [g \in Game |-> IF g \in Rebuilt \ broken
                                    THEN Folded(row[g], Height(rebuild.log, g)) ELSE row[g]]
          /\ failing' = (failing \ ((rebuild.failing \cap Rebuilt) \ broken)) \cup (Rebuilt \cap broken)
  /\ rebuild' = NoRebuild
  /\ UNCHANGED <<logVars, checkpoint, announced, broken, batch>>

\* A deployment learns to read the stream.
Mend(g) ==
  /\ g \in broken /\ broken' = broken \ {g}
  /\ UNCHANGED <<logVars, projection, batch, rebuild>>

Next ==
  \/ LogNext /\ UNCHANGED <<projection, broken, batch, rebuild>>
  \/ \E p \in Projector :
       TakeSnapshot(p) \/ LockCheckpoint(p) \/ LoadStreams(p) \/ CommitBatch(p) \/ BatchFails(p)
  \/ StartRebuild \/ CommitRebuild
  \/ \E g \in Game : Mend(g)

Spec == Init /\ [][Next]_vars

-----------------------------------------------------------------------------

(* "Commit order never loses an event": whatever the checkpoint has passed *)
(* is in its game's row, or the game is recorded as failing; and no row    *)
(* shows what is not committed.                                            *)
CheckpointIsCovered ==
  /\ \A e \in committed : e.x <= checkpoint => row[e.game] > e.seq \/ e.game \in failing
  /\ \A g \in Game : row[g] <= Height(committed, g)

(* "Replay, overlap with a rebuild, and stale work can never regress a     *)
(* row", and an ending is reported by exactly one batch: a rebuild absorbs *)
(* one silently only for a game the live projector had recorded as failing *)
(* ("rather than absorbed silently here").                                 *)
EndingsAreReported ==
  [][\A g \in Game :
       /\ row'[g] >= row[g]
       /\ Ended(row'[g]) /\ ~Ended(row[g]) =>
            announced'[g] = 1 \/ (g \in failing /\ announced'[g] = 0)
       /\ Ended(row[g]) => announced'[g] = announced[g]]_vars

ProjectionFollowsTheLog == []CheckpointIsCovered /\ EndingsAreReported

(* "Within one cluster the checkpoint is always below the horizon", so     *)
(* that only a foreign checkpoint starts over.                             *)
NeverRewinds == [][checkpoint' >= checkpoint]_checkpoint

=============================================================================

-------------------------------- MODULE Readers --------------------------------
(***************************************************************************)
(* The readers of the event log: the appliers, which rate every finished   *)
(* game, and the projectors, which keep a row per game, each from a        *)
(* checkpoint of its own; and a browser, which is told of one game.  They  *)
(* share nothing but the log, of which the browser has the events of its   *)
(* game (story).  An event the appliers read ends its game; a game the     *)
(* projectors follow has EndSeq events before its ending.                  *)
(***************************************************************************)
EXTENDS CommittedPrefix

CONSTANTS Applier, Projector, BatchSize,
          Projected,  \* bound: the games the projectors follow
          Breakable,
          MaxRecoveryAttempts, MaxJoinRetries,           \* GameSync
          MaxLog, MaxFaults, RefreshAttempts, FaultKinds \* LiveFeed

VARIABLES applied, ledger, unrated, rbatch,                                  \* RatingsApplier
          checkpoint, row, failing, broken, announced, batch, rebuild,       \* GamesProjector
          story, owner, unsent, replies, sub, others, session,               \* LiveFeed
          observed, lastFull, refresh, pipe, client, lost, lossy, hiccups

ratings == <<applied, ledger, unrated, rbatch>>
projector == <<checkpoint, row, failing, broken, announced, batch, rebuild>>

Ratings == INSTANCE RatingsApplier WITH EndSeq <- 0, checkpoint <- applied, batch <- rbatch

Projection == INSTANCE GamesProjector WITH Game <- Projected

Feed == INSTANCE LiveFeed WITH log <- story, faults <- hiccups

ASSUME ReadersAssumptions ==
  Ratings!Assumptions /\ Projection!Assumptions /\ Feed!Assumptions /\ Projected \subseteq Game

readers == <<logVars, ratings, projector>>

\* A behaviour moves the appliers or the projectors; the others rest in their initial state.
ReadersSpec ==
  /\ Ratings!Init /\ Projection!Init
  /\ \/ [][Ratings!Next /\ UNCHANGED projector]_readers
     \/ [][Projection!Next /\ UNCHANGED ratings]_readers

(* Every rated ending counts once, in the order of the log, although       *)
(* transactions commit in any order and two appliers race (RatingsApplier: *)
(* ratings-applier.ts, runBatch).  What the projector's checkpoint has     *)
(* passed is in its game's row or recorded as failing, no row goes back,   *)
(* and an ending is reported by one batch, also beside a rebuild           *)
(* (GamesProjector: runBatch, rebuildAll).                                 *)
ReadersFollowTheLog == Ratings!RatingsFollowTheLog /\ Projection!ProjectionFollowsTheLog

\* A browser shows the game at the revision it stands at, never goes back, knows of
\* every gap, and repairs each or offers its player to retry, whatever frames,
\* sockets and subscriptions are lost (LiveFeed: gateway.ts, GameSync: game-sync.ts).
FeedIsTrue == Feed!FeedIsTrue

=============================================================================

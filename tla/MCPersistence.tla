----------------------------- MODULE MCPersistence -----------------------------
(***************************************************************************)
(* The event log and what follows it: the fenced store that is to keep it, *)
(* the appliers of ratings, the projectors, and a browser's live feed.  A  *)
(* behaviour moves one of the four, and the others rest in an initial      *)
(* state.  A process is p1 or p2 in the first three.                       *)
(***************************************************************************)
EXTENDS FencedStore, Readers, TLC

CONSTANTS p1, p2, g1, g2, g3

VARIABLE part

feed == <<story, owner, unsent, replies, sub, others, session, observed, lastFull, refresh, pipe, client,
          lost, lossy, hiccups>>
all == <<part, logVars, ratings, projector, vars, feed>>

MCGames == {g1, g2, g3}
MCProjected == {g1, g2}
MCBreakable == {g1}
MCIntent == {p1, p2}

\* A browser, while somebody else watches the game from the same gateway or not: a
\* longer game with one fault (Feed), and a short one with two.
Brief == INSTANCE LiveFeed WITH MaxLog <- 2, MaxFaults <- 2, log <- story, faults <- hiccups

ASSUME Brief!Assumptions /\ Assumptions

Symmetry == Permutations({p1, p2})

AllInit ==
  /\ part \in {"ratings", "projector", "store", "feed", "brief"}
  /\ Ratings!Init /\ Init
  /\ Feed!Init /\ (part \notin {"feed", "brief"} => owner = "here" /\ ~others)
  /\ Projection!Init /\ (part # "projector" => broken = {})

AllNext ==
  \/ part = "ratings" /\ Ratings!Next /\ UNCHANGED <<part, projector, vars, feed>>
  \/ part = "projector" /\ Projection!Next /\ UNCHANGED <<part, ratings, vars, feed>>
  \/ part = "store" /\ Next /\ UNCHANGED <<part, logVars, ratings, projector, feed>>
  \/ part = "feed" /\ Feed!Next /\ UNCHANGED <<part, logVars, ratings, projector, vars>>
  \/ part = "brief" /\ Brief!Next /\ UNCHANGED <<part, logVars, ratings, projector, vars>>

AllSpec == AllInit /\ [][AllNext]_all

=============================================================================

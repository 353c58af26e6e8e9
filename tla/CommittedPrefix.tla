---------------------------- MODULE CommittedPrefix ----------------------------
(***************************************************************************)
(* The event log as its readers scan it: every row carries the id of the   *)
(* transaction that wrote it, ids are given in the order transactions      *)
(* start, and transactions finish in any order.  A reader takes only what  *)
(* is below the horizon, under which no transaction is still running.      *)
(*                                                                         *)
(* One transaction appends one event of one game (its unique key makes a   *)
(* second one wait), so an id is a position.  The transactions of the      *)
(* readers themselves take ids too; they only hold the horizon back.       *)
(***************************************************************************)
EXTENDS Naturals, FiniteSets, FiniteSetsExt, SequencesExt

CONSTANTS Game,
          EndSeq,  \* the sequence number of a game's last event, GameEnded
          MaxXid   \* bound: transaction ids

VARIABLES next,      \* the next transaction id
          open,      \* the appends in progress
          committed  \* game_events

logVars == <<next, open, committed>>

LogInit == next = 1 /\ open = {} /\ committed = {}

LogTypeOK ==
  /\ next \in 1..MaxXid + 1
  /\ open \subseteq [x : 1..MaxXid, game : Game]
  /\ committed \subseteq [x : 1..MaxXid, game : Game, seq : 0..EndSeq]

\* The number of committed events of a game.
Height(events, g) == Cardinality({e \in events : e.game = g})

StartAppend(g) ==
  /\ next <= MaxXid /\ Height(committed, g) <= EndSeq /\ \A t \in open : t.game # g
  /\ open' = open \cup {[x |-> next, game |-> g]} /\ next' = next + 1
  /\ UNCHANGED committed

CommitAppend(t) ==
  /\ open' = open \ {t}
  /\ committed' = committed \cup {[x |-> t.x, game |-> t.game, seq |-> Height(committed, t.game)]}
  /\ UNCHANGED next

AbortAppend(t) == open' = open \ {t} /\ UNCHANGED <<next, committed>>

LogNext ==
  \/ \E g \in Game : StartAppend(g)
  \/ \E t \in open : CommitAppend(t) \/ AbortAppend(t)

\* Mutant: the horizon is the next id, whatever is still running.
Horizon_Next == next

\* pg_snapshot_xmin(pg_current_snapshot())
Horizon == Min({next} \cup {t.x : t \in open})

\* The first n events after a position and below a horizon.
Page(events, after, horizon, n) ==
  LET ahead == {e \in events : after < e.x /\ e.x < horizon}
  IN {e \in ahead : Cardinality({f \in ahead : f.x < e.x}) < n}

Positions(events) == {e.x : e \in events}

=============================================================================

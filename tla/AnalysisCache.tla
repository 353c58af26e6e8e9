----------------------------- MODULE AnalysisCache -----------------------------
(***************************************************************************)
(* Analyses of one position: the single flight per request identity of     *)
(* AnalysisOrchestrator, the hot tier in each process (HotAnalysisCache,   *)
(* or InMemoryLruCache) and the durable row all processes share            *)
(* (PgAnalysisCache).                                                      *)
(*                                                                         *)
(* A search is known by the limits it really achieved.  Limits are a depth *)
(* and a number of nodes, 0 standing for one that is not set; they are     *)
(* only partially ordered.                                                 *)
(***************************************************************************)
EXTENDS Naturals, FiniteSets

CONSTANTS Process, Caller,
          CallerProcess, \* CallerProcess[c]: where c calls
          Wants,         \* Wants[c]: the limits c asks for
          Limit,         \* the limits that are asked for or achieved
          Flight,        \* bound: flights that exist at one time
          None           \* nothing cached

Assumptions ==
  /\ CallerProcess \in [Caller -> Process] /\ Wants \in [Caller -> Limit]
  /\ Limit \subseteq [depth : Nat, nodes : Nat] /\ None \notin Limit

VARIABLES flight,  \* flight[f]: an InFlightAnalysis
          caller,  \* caller[c]: where c is, and what it got
          hot,     \* hot[p]: the entry of the hot tier of p
          closed,  \* the processes whose hot tier was cleared for good
          durable  \* the row of engine_analysis_cache

vars == <<flight, caller, hot, closed, durable>>

\* limitsSatisfy
Satisfies(have, want) == have.depth >= want.depth /\ have.nodes >= want.nodes

Cached == [value : Limit, claim : Limit]  \* what was achieved, and what is claimed

NoFlight == [phase |-> "none", proc |-> None, want |-> None, seen |-> None,
             aborted |-> FALSE, mapped |-> FALSE]

TypeOK ==
  /\ flight \in [Flight -> [phase : {"none", "hit", "reading", "read", "computing", "writing"},
                            proc : Process \cup {None}, want : Limit \cup {None},
                            seen : Limit \cup {None}, aborted : BOOLEAN, mapped : BOOLEAN]]
  /\ caller \in [Caller -> [st : {"new", "waiting", "value", "cancelled", "error"},
                            flight : Flight \cup {None}, got : Limit \cup {None}, left : BOOLEAN]]
  /\ hot \in [Process -> Cached \cup {None}]
  /\ closed \subseteq Process
  /\ durable \in Limit \cup {None}

Init ==
  /\ flight = [f \in Flight |-> NoFlight]
  /\ caller = [c \in Caller |-> [st |-> "new", flight |-> None, got |-> None, left |-> FALSE]]
  /\ hot = [p \in Process |-> None]
  /\ closed = {}
  /\ durable = None

Consumers(f) == {c \in Caller : caller[c].st = "waiting" /\ caller[c].flight = f}

-------------------------------------------------------------------------------
(* The tiers. *)

\* Mutant: a closed tier is filled by a late lookup.
Store_Closed(p, value, claim) ==
  IF hot[p] # None /\ ~Satisfies(claim, hot[p].claim) THEN hot
  ELSE [hot EXCEPT ![p] = [value |-> value, claim |-> claim]]

\* HotAnalysisCache.store: replaced only by what could answer all it could answer.
Store(p, value, claim) ==
  IF p \in closed \/ (hot[p] # None /\ ~Satisfies(claim, hot[p].claim)) THEN hot
  ELSE [hot EXCEPT ![p] = [value |-> value, claim |-> claim]]

\* takeLive
TakeLive(p, want) == hot[p] # None /\ Satisfies(hot[p].claim, want)

\* Mutant: only depth decides.
Upsert_Deeper(value) == IF durable = None \/ value.depth >= durable.depth THEN value ELSE durable

\* The upsert: the row is replaced under its lock, by a dominating search only.
Upsert(value) == IF durable = None \/ Satisfies(value, durable) THEN value ELSE durable

\* The entry's deadline passes, or other keys push it out.
DropHot(p) ==
  /\ hot[p] # None /\ hot' = [hot EXCEPT ![p] = None]
  /\ UNCHANGED <<flight, caller, closed, durable>>

\* clear: the tier is released, and a lookup still under way may not fill it again.
Close(p) ==
  /\ p \notin closed
  /\ closed' = closed \cup {p} /\ hot' = [hot EXCEPT ![p] = None]
  /\ UNCHANGED <<flight, caller, durable>>

\* deleteExpired
Sweep == durable # None /\ durable' = None /\ UNCHANGED <<flight, caller, hot, closed>>

-------------------------------------------------------------------------------
(* The orchestrator. *)

\* The flight a caller finds in the map under its identity.
Joinable(c) ==
  {f \in Flight : flight[f].mapped /\ flight[f].proc = CallerProcess[c] /\ flight[f].want = Wants[c]}

\* Mutant: the flight is put in the map only once its reads are done.
Started_Unmapped(c) ==
  LET p == CallerProcess[c]
  IN [NoFlight EXCEPT !.proc = p, !.want = Wants[c],
                      !.phase = IF TakeLive(p, Wants[c]) THEN "hit" ELSE "reading",
                      !.seen = IF TakeLive(p, Wants[c]) THEN hot[p].value ELSE None]

\* start, with the hot tier's answer; the durable read is sent on a miss.
Started(c) ==
  LET p == CallerProcess[c]
  IN [NoFlight EXCEPT !.proc = p, !.want = Wants[c], !.mapped = TRUE,
                      !.phase = IF TakeLive(p, Wants[c]) THEN "hit" ELSE "reading",
                      !.seen = IF TakeLive(p, Wants[c]) THEN hot[p].value ELSE None]

\* analyze: join the flight of the same request, or start one.
Analyze(c) ==
  /\ caller[c].st = "new"
  /\ \E f \in Flight :
       /\ \/ f \in Joinable(c) /\ UNCHANGED flight
          \/ Joinable(c) = {} /\ flight[f] = NoFlight /\ flight' = [flight EXCEPT ![f] = Started(c)]
       /\ caller' = [caller EXCEPT ![c].st = "waiting", ![c].flight = f]
  /\ UNCHANGED <<hot, closed, durable>>

\* cancelConsumer: the last consumer to leave takes the flight off the map and aborts it.
Abandoned(f) == [flight[f] EXCEPT !.aborted = TRUE, !.mapped = FALSE]

\* Mutant: whoever leaves aborts the search, with others waiting.
Cancel_All(c) ==
  LET f == caller[c].flight
  IN /\ caller[c].st = "waiting"
     /\ caller' = [caller EXCEPT ![c].st = "cancelled", ![c].left = TRUE]
     /\ flight' = [flight EXCEPT ![f] = Abandoned(f)]
     /\ UNCHANGED <<hot, closed, durable>>

Cancel(c) ==
  LET f == caller[c].flight
  IN /\ caller[c].st = "waiting"
     /\ caller' = [caller EXCEPT ![c].st = "cancelled", ![c].left = TRUE]
     /\ flight' = IF Consumers(f) = {c} THEN [flight EXCEPT ![f] = Abandoned(f)] ELSE flight
     /\ UNCHANGED <<hot, closed, durable>>

\* The flight's promise settles: it leaves the map if it is still the one there,
\* and whoever still waits is answered.
Ended(f) == [flight EXCEPT ![f] = NoFlight]

SettleFlight(f, how, got) ==
  /\ flight' = Ended(f)
  /\ caller' = [c \in Caller |-> IF c \in Consumers(f)
                                 THEN [caller[c] EXCEPT !.st = how, !.got = got, !.flight = None]
                                 ELSE caller[c]]

HitSettles(f) ==
  /\ flight[f].phase = "hit"
  /\ IF flight[f].aborted THEN SettleFlight(f, "cancelled", None)
     ELSE SettleFlight(f, "value", flight[f].seen)
  /\ UNCHANGED <<hot, closed, durable>>

\* Mutant: any row answers.
DurableRead_Any(f) ==
  /\ flight[f].phase = "reading"
  /\ flight' = [flight EXCEPT ![f].phase = "read", ![f].seen = durable]
  /\ UNCHANGED <<caller, hot, closed, durable>>

\* The durable read is executed: the row answers if it is strong enough.
DurableRead(f) ==
  /\ flight[f].phase = "reading"
  /\ flight' = [flight EXCEPT ![f].phase = "read",
                  ![f].seen = IF durable # None /\ Satisfies(durable, flight[f].want) THEN durable ELSE None]
  /\ UNCHANGED <<caller, hot, closed, durable>>

\* Its reply, or its failure, which is a miss.  A hit enters the hot tier claiming
\* only what was asked for, and is dropped if every caller has left.
ReadReply(f, failed) ==
  LET found == IF failed THEN None ELSE flight[f].seen
  IN /\ flight[f].phase = "read"
     /\ hot' = IF found = None THEN hot ELSE Store(flight[f].proc, found, flight[f].want)
     /\ \/ /\ flight[f].aborted
           /\ SettleFlight(f, "cancelled", None)
        \/ /\ ~flight[f].aborted /\ found # None
           /\ SettleFlight(f, "value", found)
        \/ /\ ~flight[f].aborted /\ found = None
           /\ flight' = [flight EXCEPT ![f].phase = "computing"]
           /\ UNCHANGED caller
     /\ UNCHANGED <<closed, durable>>

\* The engine returns a search, possibly after it was told to stop; the hot tier
\* takes it before the durable write is sent.
Computed(f, value) ==
  /\ flight[f].phase = "computing"
  /\ hot' = Store(flight[f].proc, value, value)
  /\ flight' = [flight EXCEPT ![f].phase = "writing", ![f].seen = value]
  /\ UNCHANGED <<caller, closed, durable>>

\* Mutant: a failed search settles nobody.
ComputeFails_Silent(f) ==
  /\ flight[f].phase = "computing"
  /\ flight' = Ended(f)
  /\ UNCHANGED <<caller, hot, closed, durable>>

\* The engine fails, or answers the abort.
ComputeFails(f) ==
  /\ flight[f].phase = "computing"
  /\ SettleFlight(f, IF flight[f].aborted THEN "cancelled" ELSE "error", None)
  /\ UNCHANGED <<hot, closed, durable>>

\* The write is over, done or failed; a failed one costs nothing but a recomputation.
WriteDone(f, failed) ==
  /\ flight[f].phase = "writing"
  /\ durable' = IF failed THEN durable ELSE Upsert(flight[f].seen)
  /\ SettleFlight(f, "value", flight[f].seen)
  /\ UNCHANGED <<hot, closed>>

FlightStep(f) ==
  \/ HitSettles(f) \/ DurableRead(f) \/ ComputeFails(f)
  \/ \E value \in Limit : Computed(f, value)
  \/ \E failed \in BOOLEAN : ReadReply(f, failed) \/ WriteDone(f, failed)

Next ==
  \/ \E c \in Caller : Analyze(c) \/ Cancel(c)
  \/ \E f \in Flight : FlightStep(f)
  \/ \E p \in Process : DropHot(p) \/ Close(p)
  \/ Sweep

Spec == Init /\ [][Next]_vars

\* Cache calls and searches end: statements time out and searches are watched.
Fairness == \A f \in Flight : WF_vars(FlightStep(f))

-------------------------------------------------------------------------------
(* Properties. *)

\* What a caller gets from either tier achieved what it asked for: no tier claims
\* more than the search behind it (get, set, takeLive).  A released tier stays
\* empty, also for lookups that were under way (clear).
CacheKeepsItsWord ==
  /\ \A p \in Process : hot[p] # None => Satisfies(hot[p].value, hot[p].claim)
  /\ \A f \in Flight : flight[f].phase = "hit" => Satisfies(flight[f].seen, flight[f].want)
  /\ \A p \in closed : hot[p] = None

\* While anyone waits for a request, one flight computes it in its process: two
\* callers of the same request never pay for two searches (analyze, start).
ComputedOnce ==
  \A f, g \in Flight :
    Consumers(f) # {} /\ Consumers(g) # {} /\ flight[f].proc = flight[g].proc
      /\ flight[f].want = flight[g].want => f = g

\* A flight is aborted exactly when nobody waits for it any more, so no caller is
\* cancelled by another's signal and no abandoned search goes on unstopped
\* (join, cancelConsumer, abortIfAbandoned).
CancellationIsOnesOwn ==
  /\ \A f \in Flight : flight[f].phase # "none" => (flight[f].aborted <=> Consumers(f) = {})
  /\ \A c \in Caller : caller[c].st = "cancelled" => caller[c].left

\* A stored search is only ever replaced by one that answers everything it
\* answered, in whatever order searches end; apart from expiry, eviction and
\* retention (store, UPSERT_SQL).
NeverWeaker ==
  [][/\ durable # None /\ durable' # None => Satisfies(durable', durable)
     /\ \A p \in Process : hot[p] # None /\ hot'[p] # None =>
          Satisfies(hot'[p].claim, hot[p].claim)]_vars

\* A cache that never claims too much and never forgets the better search; callers of
\* one request share its search, and leave it one by one.
AnalysesAreShared ==
  [](CacheKeepsItsWord /\ ComputedOnce /\ CancellationIsOnesOwn) /\ NeverWeaker

\* Every caller is answered (analyze).
CallersAnswered == \A c \in Caller : caller[c].st = "waiting" ~> caller[c].st # "waiting"

=============================================================================

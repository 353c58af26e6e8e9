# Verification of the chess platform

The platform (`src/README.md`, `src/docs/ARCHITECTURE.md`) runs live chess games on a fleet of
gateway processes. Each game has one owner at a time, an append-only event log in PostgreSQL, a hot
copy in the owner's memory, and workers that end games nobody is looking at. Around that log stand
the browsers that follow it, the ratings and tables derived from it, the tournaments that launch
games, and an engine service. This project models the protocols between these parts, and the
algorithms they depend on, in TLA+. TLC model-checks them on small instances, and most of their safety
is also proved with TLAPS for every value of the constants (section 4).

## 1. Inventory

| Component (source) | State it keeps | Operations | What makes it correct | Module |
|---|---|---|---|---|
| Ownership registry (`services/gateway/src/ownership.ts`) | owned games, lease expiry on a monotonic clock, claim generations, one serial lane per game with an epoch; the key `game:owner:{id}` with a TTL in Redis | claim, renew, release, holdsValidLease, tickets | a lease trusted locally is backed by the key; one owner at a time; a release is final; a lapsed ticket stays lapsed | `Ownership` |
| Game authority (`packages/realtime-gateway/src/authority.ts`) and event store (`persistence/src/pg/event-store.ts`) | one slot per game: record, stale mark, queue, lifecycle generation, pending reloads, stall mark; `game_events` | createGame, apply, ensureLoaded, reloadFromLog, captureLifecycle, evict; append with an expected head | one queue per game; the record is a prefix of the log; callers are told the truth; eviction fences | `Authority`, `CommandLog` |
| Command forwarding (`command-forwarder.ts`, `forwarded-request.ts`) | request record, command list and response list in Redis; a consumer loop per owned game | forward, settleForward, consumeLoop, processCommand | at most one execution; truthful answers; no live envelope mislaid; every forward answered | `ForwardedRequest` |
| Router (`command-forwarder.ts`) | reload debt of a takeover, its generation, the rehydration in flight | route, ensureOwned, rehydrateIfStale, the expiry's release and eviction | nothing is sent from a copy older than the claim, or by another than the owner; late appends of two owners never alternate | `GatewayRouter` |
| Game aggregate and clock (`packages/game/src`) | the fold of the log; remaining times and the turn's anchor | moves, resignation, draws, abort, readiness, flag claims, expiries | nothing follows an ending; a due deadline decides | `Game`, `Clock` |
| Deadline queues (migrations 0042, 0043) and expiry workers (`deadline-expiry.ts`, `flag-expiry.ts`, `no-show-expiry.ts`) | `flag_deadlines`, `pregame_deadlines`; a cursor; the pass in progress | triggers on insert; due, dismiss, reschedule; settle; the expiry command | the row is the game's deadline; every overdue game ends | `Game`, `DeadlineScan` |
| WebSocket gateway (`gateway.ts`, `room.ts`), pub/sub (`pubsub.ts`, `redis-pubsub.ts`) and web client (`game-sync.ts`, `ws-client.ts`) | rooms, sessions, subscriptions, buffered broadcasts, observed revisions; the browser's screen, gap and recovery | join, resume, refresh, publish; frames, recovery, rejoin | a screen shows the game at its revision, never goes back, and repairs every gap it knows of | `LiveFeed`, `GameSync` |
| Fenced store (`fenced-event-store.ts`, migrations 0050, 0051) | grants with epochs, the database incarnation | create, acquire, renew, release, append under an epoch | a gateway that lost a game cannot append | `FencedStore` |
| Terminal inbox and reconciler (`terminal-event-inbox.ts`, `terminal-event-reconciler.ts`) | receipts, retries, leases with tokens, scan cursors | lease, renew, acknowledge, fail, scan | each ending is reported by its newest lease and none is skipped | `TerminalInbox` |
| Ratings and projections (`ratings-applier.ts`, `games-projector.ts`) | a checkpoint, a ledger, a table | a page below the horizon, rewind, rebuild | every ending counts once, in commit order | `CommittedPrefix`, `RatingsApplier`, `GamesProjector` |
| Tournaments (`packages/tournament`, `api/src/tournament`) | rounds, pairings, forfeits, launch attempts, versions; the arena's lock and deadline | pair, launch, report, withdraw, correct, abandon | a legal pairing, one game per pairing, no lost result, nothing after the deadline | `Tournament`, `TournamentLaunch`, `Arena` |
| Engine service (`packages/engine/src`, `api/src/analysis/hot-cache.ts`) | workers, a priority queue, a breaker, shared flights, two cache tiers | submit, dispatch, retry, warm up, drain; analyze, cancel | every job settles, limits hold, cached answers are as strong as they are served for | `EnginePool`, `PriorityScheduler`, `AnalysisCache` |
| Sessions of an account (`api/src/auth/service.ts`) | rows of `sessions`, the password | login, refresh with rotation and grace, logout, reset | what is revoked stays revoked; one live session per login | `Sessions` |
| Seeks and game creation beside chess assistance (`api/src/routes.ts`, `pg/repositories.ts`) | seeks, games, an advisory lock per player | accept, create, the assistance guards | nobody who plays a person is helped; a seek starts one game, and only while it is open and in time | `GameCreation` |
| Relations of two people (`packages/social`, `pg/social.ts`, `pg/messaging.ts`) | follows, blocks, requests, a conversation | follow, request, respond, block, send | a block severs a pair; one of each relation; answers are final | `Relations` |
| Chess rules (`packages/chess-core`) | none | attacks, generation, making a move, results, notation of rights | the rules of chess in every variant | `ChessRules` |
| Engine bot, trust worker, AI, content and standings; migrations, test harness, deployment | request-scoped, one-off, or sets of what is in flight | reads and writes | domain rules, no protocol | not modelled |

**How they meet.** A session's command goes to the router, which asks the registry for a lease and
then either applies it through the authority or forwards it over Redis to the owner, whose consumer
applies it through its own authority. The authority appends to the store and publishes; rooms of
every gateway relay what they hear, and browsers ask for a recovery when they notice a gap. Every
insert into `game_events` runs the triggers that keep the deadline rows, which the expiry workers of
every gateway read; their expiry command takes the same route to the owner. `GameEnded` events feed
the terminal inbox, the projections and the ratings, and, for games of a tournament, the reporter.

**What is hard here.** Replies that arrive long after Redis or PostgreSQL acted; appends whose
outcome nobody knows; a release, an eviction or a reload between two awaits of a command; two
gateways that each have reason to believe they own a game; requests that are put back, resent,
cancelled or expired while they are being started; workers that decide from a log they read earlier;
transactions that become visible in another order than they started in; clocks that disagree at the
instant of a deadline. `PROJECT.json` lists each hazard at its line with the properties that would
catch it, or why none does.

## 2. Modules

| Module | Models | Used by |
|---|---|---|
| `Ownership` | the registry on every node, and Redis' key | `MCOwnership`, `OwnershipProofs` |
| `CommandLog` | abstract: what an authority promises | `Authority` (instance `Promise`) |
| `Authority` | one game's authority and its store | `MCAuthority`, `MCAnswers`, `AuthorityProofs` |
| `ForwardedRequest` | forwarded commands of one game | `MCForwarding`, `MCAnswers`, `ForwardedRequestProofs` |
| `GatewayRouter` | the router of one gateway while the game changes hands | `MCServices`, `GatewayRouterProofs` |
| `Clock`, `Game` | the chess clock; aggregate, triggers, expiry workers | `MCGame`, `MCAnswers`, `GameProofs` |
| `DeadlineScan` | an expiry worker's cursor over many games | `MCAnswers` |
| `GameSync`, `LiveFeed` | the browser's bookkeeping; owner, gateway, pub/sub and browser together | `Readers`, `MCAnswers` |
| `FencedStore` | grants, epochs and incarnations of the fenced store | `MCPersistence`, `FencedStoreProofs` |
| `TerminalInbox` | receipts, leases and scans of finished games | `MCTournaments`, `MCAnswers`, `TerminalInboxProofs` |
| `CommittedPrefix`, `RatingsApplier`, `GamesProjector` | the log as its readers see it, and two readers | `Readers` |
| `Readers` | three readers beside each other: ratings, projections, a browser | `MCPersistence`, `FencedStoreProofs`, `ForwardedRequestProofs` |
| `Tournament`, `TournamentLaunch`, `Arena` | rounds and pairing; one pairing's game; the arena | `MCTournaments`, `MCAnswers`, `Pairings` |
| `Pairings` | the launch of pairings, for the proofs beside the inbox | `MCTournaments`, `TerminalInboxProofs` |
| `EnginePool`, `PriorityScheduler`, `AnalysisCache` | workers and jobs; the queue; shared searches and caches | `EnginePackage`, `MCAnswers` |
| `EnginePackage` | the three side by side | `MCServices`, `EnginePackageProofs` |
| `Sessions`, `GameCreation`, `Relations` | sign-in sessions; seeks and assistance; two people | `ApiCalls` |
| `ApiCalls` | the three side by side | `MCGame`, `GameProofs` |
| `ChessPositions`, `ChessRules` | positions by hazard; the rules, in two forms | `MCAuthority` |

One game (account, pair of people, pairing) is modelled at a time: lanes, slots, records, lists and
rows of two of them share nothing, except where a module says so (`DeadlineScan`, `TerminalInbox`,
`CommittedPrefix`, `GameCreation`).

### Ownership

`lane[n]` is the promise chain of `enqueueOperation`. An entry's `current` is the comparison of the
epoch the call captured with the lane's epoch, which `release` moves. Every Redis command is three
steps: dispatched with the code before its `await` (`StartClaim`, `StartRenewal`, `StartRelease`, and
the tail of `SetReply` and `GetReply`), executed (`RedisSet`, `RedisGet`, `RedisRenew`,
`RedisDelete`), and answered with the code after it (`SetReply`, `GetReply`, `ClaimRenewReply`,
`RenewalReply`, `ReleaseReply`). `IoFails` is a rejected command, executed or not. `MarkClaimed` counts
the lease from the dispatch. `Restart` is a new process: it knows nothing, and in the code it comes
with a fresh node id, so keeping the id is the harder case. `Tick` advances Redis' clock, drops an
expired key, and lets each node's clock run up to `Skew` ahead.

### Authority and CommandLog

A command's events are one atomic append, so they are one log entry, and a record is the sequence of
entries it was folded from. `slot[k]` is a slot object, which may outlive its registration in the
`games` map (`cur`). The job at the head of a slot says by its `phase` which `await` it stands at:
the read of a refresh, the admission hooks, the append, the reconciling read. The store decides
appends (`StoreAppend`) and serves reads (`StoreRead`) at any time between dispatch and reply, also
after the caller gave up; `AppendFails` may happen whether the append committed or not.
`WriteDeadline` is the timer of `commit` and `createGame`. `ForeignAppend` is another gateway that
believes it owns the game: the authority has to be safe against it by itself. `CommandLog` is what
callers are promised: the log only grows, a command enters it at most once and never after its
caller was told that nothing changed, and "confirmed" is only said of a command in the log.
`CallersArePromised` is the refinement (identity on `log` and `outcome`).

### ForwardedRequest

`status`, `admitted`, `result`, `late` are the fields of `game:request:{id}`; `list` and `resp` are the
Redis lists. Each Lua script of `forwarded-request.ts` is one action (`RedisEnqueue`, `RedisStart`,
`RedisFinish`, `Settle` and `SettleUnadmitted`, `Respond`). A lost reply of ENQUEUE is
`EnqueueUnanswered`, after which the script may still be executed; a lost reply of START leaves it
pending, so that it is sent again. `task[e]` is a call of `processCommand`; `current` says whether the
loop that popped its envelope is still the node's consumer. `Claim`, `ForgetClaim` and `KeyExpires`
are the registry as requests see it, weaker than `Ownership` allows: a node may believe it owns the
game when it does not. `Forget` is the retention of a record, `Crash` the death of a gateway.

### GatewayRouter

`lease`, `claims` and `key` are what the registry tells the router; `debt` is `staleAfterClaim` with
`claimGeneration`, `reload` the entry of `rehydrations`. A command carries the ticket it was routed
with through its waits (`cmd[c]`), and every place where the code asks `holdsOwnership` again is a
guard of the action that follows the wait. `routedExpiry`'s release and eviction are the tail of an
expiry's command.

The comment of `markClaimed` says that ownership "is not durable fencing" (`ownership.ts:297`), and
so it is here. A command at the head of the queue asks Redis (`Validate`), looks at its admission for
the last time and sends its append with the head its copy knows (`Execute`); the append is awaited, and
the lease may lapse or the key change hands before the store takes it (`AppendLands`), before its answer
is handled (`AppendConfirmed`), or before the reconciling read of one that failed (`AppendFails`,
`Repaired`). `WriteDeadline` answers the callers and leaves the append running. `stray` are appends to
this very log that nobody here waits for: another gateway's, sent while it held the key (`RivalSends`),
and those of a job here that gave up on an unknown outcome. Either lands whenever the store gets to it,
whoever holds the key by then, and may end the game (`StrayLands`). The log is its length, and the store
takes only what was computed from the whole of it.

So a copy that is vouched for need not be the log. What holds (`CopyHasTheClaim`, `CopyLacksOneAtMost`) is that a fresh copy
under a lease without debt has everything that was in the log when the lease was claimed (`base`), and
lacks one event at most, one that was under way. What is sent is sent by the holder of the key from such
a copy, however long ago its admission was captured; what lands under a lease and was not sent under it
was sent to the log as the claim found it, so the events of two owners never alternate; and nothing lands
after the ending (`AppendsAreTheOwners`).

### Clock and Game

`Game` folds events into the state `Created`, `Moved` and `Ended` build. `AppendMove`,
`AppendLastMove`, `AppendEnding` and `Append1` do in one step what the append's transaction does: the
fold and the triggers. `Overdue` is the rule of `applyNow` that a due no-show or flag decides
whatever the command was (`LateCommand`). A worker scans, loads the log, decides on what it read
(`SettleFlag`, `SettleNoShow`) and sends the expiry (`Expire`), and each of these may come much later
than the one before. `Clocks` is the wall clock of whichever process acts: `now`, or `Skew` behind it.
Chess is external here: any legal move may end the game, and a side that flags may or may not face
mating material.

`DeadlineScan` is the loop around it: a pass takes pages behind its cursor until one is short, moves
past what failed, and the next pass starts where the code starts it; poisoned games fail for ever.

### LiveFeed and GameSync

`GameSync` is the browser: operators on one `client` record, one per frame type and timer of
`game-sync.ts` and of the socket it stands on (`ws-client.ts`). `LiveFeed` puts it behind a gateway:
`session` is the connection's place in the room, with the buffer of a join, `observed` the revisions
`room.ts` keeps per watcher, `sub` the Redis subscription, `unsent` broadcasts on their way, `pipe`
the frames in the socket, `refresh` a bounded read that follows a suspicious broadcast. Sockets and
subscriptions that close, publications, joins, resumes and reads that fail and the player's retries are
counted in `hiccups`, up to `MaxFaults` of the kinds in `FaultKinds`. A broadcast of another owner is
lost in two ways (`Publish`): uncounted, while this gateway's subscription is not confirmed, which follows
the counted end of a subscription or the first join; and counted, when the owner's own PUBLISH to Redis
fails with every subscription healthy (`pubsub.ts`, `serve.ts` only logs it). The owner's own process
hears itself synchronously and loses nothing. A browser that lacks the *last* revision for one of these
reasons has nothing in flight that would tell it: `NothingIsMissed` names that case, and only that one,
with `lost` and `lossy`; with the next frame the gap is known. The answer of a recovery is taken as one
moment's state of the log.

### The log's readers: FencedStore, TerminalInbox, CommittedPrefix

In `FencedStore` a call is a transaction: it takes the shared lock of the control row and the lock of
the grant in the order of the code, reads, writes at its commit, and its client may not learn of the
commit (`acked`, `unsure`). `Rotate` is the recovery that changes the database's incarnation.
`TerminalInbox` has the two scans, leases that lapse, renewals, and the fence around a report's
transaction; times are what is left of them. In `CommittedPrefix` transactions take ids in order and
finish in any, and `committed` is the set of events of those that have; `RatingsApplier` and `GamesProjector` read below the horizon, under the lock of their
checkpoint, and rewind when an event appears behind it.

### Tournaments

`Tournament` has the Swiss search (`findMatching`) and the Berger tables as functions over fields of
up to nine players, and the rounds around them. `TournamentLaunch` follows one pairing: its
deterministic ids, the compare-and-set on the tournament's version, and replicas that launch, report,
correct and abandon. `Arena` has the row lock, the deadline as the database's clock sees it, streaks
and launches.

### Engine service

`EnginePool` is the pool and its workers; an action is one turn of the event loop with every promise
reaction it sets off. `Worker` is a set of slots for processes: a slot is taken by a spawn and free
again in the turn after its process ended. A spawn that finds no slot is not made, so the bound would
hide one; the instances are large enough that this never happens. `PriorityScheduler` is its queue with classes, capacity and aging, in integer
time; `AnalysisCache` the orchestrator's single flight and the two tiers of results.

### Sessions, GameCreation, Relations

Each action is one statement, or a transaction where the code holds the lock that makes it one.
`Sessions` keeps who was handed which token (`handed`), who signed out and which password a login
used; `Relations` the pair lock and the row lock of a request, and writes that appear at a commit.

`GameCreation` has the advisory locks of players in the order of their ids, and the seeks. Between the
route's read of a seek (`FindToAccept`) and the `UPDATE` that claims it (`Claim`) the transaction
begins (`Begin`), which is the instant its `NOW()` stands for, and the seek may be cancelled, expire, be
accepted or be purged in between. The claim judges the row as it finds it, and what it found is recorded
with the game it starts (`found`), because the commit would hide it: `OneGamePerSeek` says that every
game of a seek was claimed while the seek was open and in time, beside counting them.

### ChessRules

`GeneratePseudoLegal`, `GenerateLegalMoves`, `Apply` and `Status` follow the code, and `pos` is played on
from positions chosen by hazard, two plies from each. What is checked of every position reached, and
how far it is independent of the generator:

* *Legality* (`LegalMovesAreSafe`) is told by the replies `GeneratePseudoLegal` gives the other side.
  That tests `IsSquareAttacked`, which looks from the king outwards, against the generator, which looks
  from the pieces; a piece that moved wrongly in both would not be noticed.
* *Material, rights and en passant* (`MaterialIsConserved`, `RightsAreTrue`, `EnPassantIsReal`) are stated
  about the position before and after a move, and of rights about the squares touched since the
  beginning (`touched`): the boards are counted, no step of `Apply` is repeated. Of an explosion they say which pawns
  it may take and that rights stay as they were; which other squares it burns is said by `Exploded` alone.
* *Writing* (`MovesAreNamed`, `PositionsStayValid`) is read back.

Where the code differs from its comments the properties say what it does: a captured queen that was a
pawn enters the pocket as a queen, and an explosion leaves the right of the rook it removed (section 5).

## 3. Runs

| Run | Question | Instance |
|---|---|---|
| `ownership` | can two nodes trust a lease, a release leave a key, a ticket revive? | 2 nodes, TTL 3, renewal 1, skew 1, 3 instants, 2 generations, 2 operations per lane |
| `authority` | queue, cache, broadcast, fence and truth under all interleavings; and the rules of the board | a creation and 2 commands, 2 slot objects, 2 queued jobs, 3 generations, 1 foreign event; 13 positions, 2 plies |
| `forwarded` | at most once, truth, no mislaid envelope | scene `takeover`: 1 request, 2 nodes, 2 executors; scene `list`: 2 requests, 1 node, 1 executor; 2 envelopes each |
| `game` | are the rows the deadlines, do deadlines decide, does an ending stay; creation, sessions, relations | 4 kinds of clock, 3 sources, both workers, times 0..6, 4 events; 2 calls each for the three others |
| `services` | limits of the pool, order of its queue, truth of the cache, what the router's copies and appends are worth | 1 worker beside a warm-up, 5 slots, 2 attempts, 2 faults; 4 entries; 3 callers in 2 processes; a player's command and an expiry over 2 claims, 3 events, 1 failure |
| `persistence` | do the projections of the log follow it, does the store fence, is the browser's screen true? | 2 processes each; 3 transactions; 4 calls and 1 rotation; 3 revisions with 1 fault and 2 with 2 |
| `tournaments` | the inbox of finished games; legal pairings, one game per pairing, arena bookkeeping and its deadline | 2 endings, 2 reconcilers, 2 faults; fields of 3 to 5 over 3 rounds, 2 changes; 2 replicas, 2 tries, 1 fault; arenas of 2 and 3 players |
| `answers` | is whoever waits answered in the end? | the same modules at their smallest |
| `authority_reload_mark`, `forwarded_consumer`, `engine_pool_killed`, `friends_again` | four statements of the source that the code does not keep | one command, request, job or pair |

**One run, several components.** Where components share no state, a run checks them side by side: the
variable `part` (`scene` in `MCForwarding`) is chosen initially and says which of them moves, and the
others rest in one initial state. So the states explored are the sum of the parts, not their product,
and each property speaks of its own part; the state of a resting part satisfies it too. `Parts` lets
a configuration choose.

**Why the bounds are enough.** Each hazard is a race between a few operations on one game. With TTL 3
and skew 1 a lease is taken, lapses, is taken by the other node and lapses again within the explored
time, and two operations per lane let a release overtake, follow and be followed by a claim. Three
generations let a slot be created, evicted and created again while work of the first is in flight,
and two slot objects let the old one outlive its registration. Two executors are needed for an
envelope to be handed over, two requests for one to be purged by the other's enqueue. In `game` the
first clock runs out at 2 or 3 and the largest time is 6, so deadlines lie before, at and after every
move, and four events hold readiness, moves and a draw offer before the ending, which has room beyond
the bound. The browser's recovery tries twice (the code: `MaxRecoveryAttempts`, 3), a join and a
refresh are retried once (3): every counter goes through first, middle and last value. Revisions are
counted from 1. The router has two claims, one failure and room for two appends after the first event,
so one that was sent before a handover can land after it, beside one that is sent from a copy. Sessions
have three rows, one reset, no grace and a lifetime of one instant over two; a grace period only delays
what is then revoked. The chess
positions reach castling, en passant, pins, promotions, explosions, drops and every result in two
plies. Symmetry is used in runs without liveness only.

**Deadlock checking** is off where parts really stop: when every command, call or job of the instance
is finished, or the game is over. It is on in `ownership`, `forwarded` and `forwarded_consumer`.

**Fairness.** In `answers` every property names the fairness it needs as its premise, so that nothing
is assumed of the other parts. The event loop runs what is runnable, reads end (they have deadlines
of their own, `withDeadline`), armed timers fire; an append may never be answered for
`CommandsAnswered`, except that a stall only ends with a store that answers. The forwarder's socket
calls end (`requestConnection` has timeouts), and nothing is assumed of Redis or the owner. Passes of
workers recur (`schedule` rearms after every pass), and what is tried again and again succeeds in the
end. An engine process either answers or is killed by its watchdog. Leases of the inbox are renewed in
time for the liveness property (`Timely`), and not for the safety one. Nothing is assumed of players.

## 4. Proofs

Fourteen components are proved, for every value of their constants and bounds: those that decide who
may append to a game and what its players, the store, its readers and the reconcilers are told about it;
the browser that follows a game; those that create games, launch pairings and keep sessions and relations; and
the engine package. The
proofs lie in eight modules, `<Component>Proofs`, each of which extends the model, or a module that puts
several models side by side (`ApiCalls`, `Readers`, `Pairings`, `EnginePackage`), and proves
`Spec => []IInv` for an inductive invariant `IInv` that TLC had checked on an instance before. The only
assumptions are those each model states about its constants (`Assumptions`, `ParameterAssumption`, ...),
and TLC evaluates them in every run.

### `OwnershipProofs`

| Theorem | Property |
|---|---|
| `TypeCorrect` | `TypeOK` |
| `LeaseSafety` | `LeaseIsBackedByRedis`, if `Skew <= SafetyMargin` |
| `MutualExclusion` | `NoSplitBrain`, if `Skew <= SafetyMargin` |
| `ReleaseSafety` | `ReleaseIsFinal` |
| `TicketSafety` | `TicketNeverRevives` |

The assumptions are those of `Ownership`: natural parameters, a renewal interval below the TTL (the
constructor refuses another), a `NoNode` that is no node. `Skew <= SafetyMargin` is the condition under
which the margin the code computes is meant to work; `TimingFacts` shows that the margin always
contains `DriftMargin`, so a skew within the drift allowance is covered whatever the TTL is.

The properties are not inductive. `IInv` adds what the code relies on without saying it:

* `ClocksInv`: a node's clock is never behind Redis' and at most `Skew` ahead, and no key lives longer
  than a TTL from now.
* `LeaseInv`: every recorded expiry is *backed*: Redis' time has already passed it, or the key is this
  node's and lives as long, up to the skew.
* `LaneInv`: only the head of a lane is running; a positive reply that has not been processed yet is
  backed by the expiry it will be turned into, counted from its dispatch; a queued or running release
  has dropped the lease and made every entry before it outdated; a release that Redis has executed
  left a key that is not this node's.
* `ReleasedInv`: after a release, the claims still in the lane are ones that will reject.

The proof has one lemma per action; `SettleKeepsLanes`, `DispatchKeepsLanes`, `AppendKeepsLanes` and
`AnswerKeepsLanes` say once what the four ways to change a lane preserve. `TicketSafety` uses
`StepTickets`, which shows that a step leaves a node's ticket, drops it, or replaces it by a generation
never issued before unless it was valid up to that step.

### `GameProofs`

| Theorem | Property |
|---|---|
| `TypeCorrect` | `TypeOK` |
| `FlagRowSafety` | `FlagRowIsDeadline` |
| `PregameRowSafety` | `PregameRowIsDeadline` |
| `DeadlineSafety` | `DeadlineIsFirstFlag` |
| `EndingSafety` | `EndedStaysEnded` |
| `DeadlinePrecedence` | `DeadlineDecides` |
| `CoordinatedCreation` | `CreationIsCoordinated` |
| `SoundRelations` | `RelationsHold` |
| `SoundSessions` | `SessionsAreSound` |

The ones about the game hold for any set of time controls whose clocks start with time on them (`ControlAssumption`), any
positive no-show delay, any skew and any two disjoint sets of workers. `FlagsFromDeadline` is the fact
about the clock that the comment of `flagDeadline` claims: the flag has fallen exactly from the deadline
on. `IInv` has three parts beside the types:

* `ClockInv`: both clocks of a timed game are positive at all times, because a move that would bring
  one to zero ends the game instead, and the clock is anchored from the first move on.
* `RowInv`: the two row invariants, and a row never carries a sequence number the log has not reached.
* `WorkerInv`: what a worker read is still good for what it may do with it. A flag row whose sequence
  number is not above the head of that log was written by a move the worker has seen, so the deadline
  it computes is the one in the row; and of readiness and the start of the game, which the no-show
  queue has no such number for, nothing a worker saw ever reverts.

The proof follows the ways to append (`EndingKeepsIInv`, `QuietAppendKeepsIInv`, `MoveKeepsIInv`), then
the commands, then the workers. `DeadlinePrecedence` rests on `DueStaysDue`: what is due on the clock
that is furthest behind is due on the clock of whoever acts.

*Creation* (`CreationInv`). A creation takes the locks of its players in the order of their ids, so what it
holds is a lower part of what it needs (`LocksInOrder`), which rules out that two creations wait for each
other. An answer of the assistance keeps the one player's lock from its check until it is written
(`AnswersUnderLock`). A claimed seek stays open and claimed until its transaction ends (`ClaimStands`), since a
removal waits for the row, and who has claimed one found it open (`FoundOpen`).

*Relations* (`RelationsInv`). Whoever writes about a pair holds the pair's lock (`PairIsLocked`), an answer
holds the row it read, and a block the rows of all requests (`RowIsLocked`, `BlockHoldsRows`); so what was
found still stands at the commit (`FindingsStand`).

*Sessions* (`AccountsInv`). The sessions of one login are a chain under rotation, which `Chain` defines as
the least set closed under it. A row is rotated once, and only while it is live (`Successions`), so the
live row of a login is the last of its chain (`OneLive`); what was ended or signed out has nothing live
under it (`Dead`) and cannot grow, because only live rows do. A live session that was handed out is of a
password no older than the last reset that returned (`Handed`), since a login checks the password again
after it has made its row (`CallKnows`).

### `AuthorityProofs`

| Theorem | Property |
|---|---|
| `Invariance`, `TypeCorrect` | `IInv`, `TypeOK` |
| `QueueSafety` | `OneQueue` |
| `RecordSafety` | `RecordIsLogPrefix` |
| `ViewSafety` | `OnlyTheLogIsShown` |
| `EvictionSafety` | `EvictionFences` |
| `Refinement` | `CallersArePromised`: every step is a step of `CommandLog`, or a stutter |

What the code relies on is that only the registered slot has anything in it (`Exclusive`): a slot is
dropped from the map when it is empty and without a copy, and never while it waits. So one job at a
time reads and writes. A copy is `Current` if it has every confirmed command and every published
revision. A read that was taken is a prefix of the log and stays current, because nothing is confirmed
while its job is the head; and an append that committed was computed from a current copy, because the
head it compared was the head of the log (`HeadTruth`, `StoreInv`). `AnswersInv` ties what a caller was
told to what the store did, and `LifecycleInv` says that no lifecycle is issued twice, so an evicted
one never becomes current again. The refinement follows: a command enters the log only from
`StoreAppend`, and each answer of `CommandLog` is one that `AnswersInv` allows.

### `ForwardedRequestProofs`

| Theorem | Property |
|---|---|
| `Invariance`, `TypeCorrect` | `IInv`, `TypeOK` |
| `ExecutionSafety` | `RunsOnce` |
| `AnswerSafety` | `ForwardersTellTheTruth` |
| `EnvelopeSafety` | `EnvelopesAreKept` |
| `FeedFollows` | `FeedIsTrue`, of `LiveFeed` |

*Forwarded requests.* Three ways a request can stand carry the proof: it is `Fresh` (nobody has started it), some call `Holds`
it (`START_REQUEST` admitted it there and the command has not run), or it `Never` runs. `Once` says that
these exclude each other and what has run; `Expired` that whoever speaks of an expiry or a refusal speaks
of a request that never runs; `Truth` that the game's answer is passed on unchanged; `Kept` that a live
envelope is in the list or in the hands of a call that answers for it. The list is changed by popping,
pushing and removing (`Without`), of which the section on lists proves what they keep.

*The browser's feed* (`FeedInv`), for a log of any length and any number of lost publications,
subscriptions, sockets, reads and refreshes. Five facts carry it:

* Every frame under way, in the room, in a join's buffer or in the socket, says what the log says
  (`FramesAreTrue`); the log only grows, so it goes on saying so (`TrueStands`).
* The screen is `Sound`: its moves are the beginning of what was played, it ends only with the game, and
  without a known gap it is the game at its floor. The proof is about the handlers of `game-sync.ts`:
  `Keeps(c, d, g)` says that `d` is as sound as `c` and went nowhere back, and each handler keeps
  (`OnMoveKeeps`, `OnReadyKeeps`, `OnEndedKeeps`, `OnSnapshotKeeps`, `OnJoinedKeeps`), because a frame beyond
  the next revision is recorded as owed and not applied, and an older one is dropped. `Hears` adds that the
  frame's revision is then reached or owed.
* A gap that is known has a timer, or the player is asked (`Alert`).
* A join stands in one place at a time: asked for, in progress at the gateway, answered in the socket, or
  the client is joined, or will ask again (`JoinStands`). So nobody waits for an answer that nobody will send.
* Where the end of the log is (`EndIsKnown`): the client has reached or owes it, or it is under way to it in
  the pipe, a join's buffer or a join's read, or it is still to be published, or was lost while the
  subscription was not confirmed or because its publication failed. Without that part `NothingIsMissed`
  is not inductive.

`NeverGoesBack` follows from `Onward`, which every handler and every pair of handlers satisfies. Views list
moves in ascending order; the section on numbers proves what `Ascending` returns by counting, because the
library's sorting is recursive. The proof corrected the model in one respect: the dispatch of frames, and
six operators of `ChessRules` and `Tournament`, had been written as CASEs with overlapping guards, whose
value TLA+ leaves open where TLC takes the first; they are chains of IF now.

### `EnginePackageProofs`

| Theorem | Property |
|---|---|
| `QueueSafety`, `ServiceSafety` | `QueueIsWaiting` with the queue's types, `ServiceIsFair` |
| `SharedAnalyses` | `AnalysesAreShared` |
| `LimitedPool` | `PoolKeepsItsLimits` |

*The queue*, for any classes, any capacity and any rate of aging. The invariant is the two checked ones:
that the queue holds each waiting entry once and in the order of pushing is what makes the ties of
`dequeue` fall to the older entry. The rest is arithmetic about whole agings (`Division` and the lemmas
after it): of two waiting entries, the one pushed first never has the smaller boost.

*The analyses* (`AnalysisInv`). A flight is in the map exactly as long as somebody waits for it, so that
to abort it when the last one leaves cancels nobody else (`Flights`). What a tier holds achieved at least
what it is served for, and is displaced under the comparison by which it is read (`Tiers`).

*The pool*, for any number of workers, jobs and faults. An action is a chain of the pool's methods on the
record, so the proof is about methods: `Keeps(p, q)` says that `q` ends no drain, begins nothing that a
drain forbids, starts nothing behind the breaker, and is not loaded beyond the maximum unless `p` was. It
holds of each method (`DispatchKeeps`, `ReplenishKeeps`, `DeadHandled`, `FailureHandled`, ...) and is
transitive. Three steps do more: the one warm-up, which adds its own processes (`AnalyzeGoes`); the success
of a spawn, which moves a process from starting to started and closes the breaker (`InitDoneGoes`); and
what starts nothing (`RestingGoes`). The proof corrected two things. `BreakerStopsSpawns` was false for
larger constants: a process that was already starting when the breaker opened closes it by its success,
and the dispatch of that same turn may start others; the statement now excepts a step that closes the
breaker. And the model gave a slot to a new process in the turn its old one exited, which the rest of the
turn then took for the old one.

### `FencedStoreProofs`

`StoreSafety` states `StoreIsFenced`, with `Invariance` under it. A transaction that ran its statement
holds the row until it commits or is gone, and there is one at most (`OneHolder`); so what its statement
found still holds at COMMIT, except that the lease may have lapsed (`HolderIsCurrent`). The grant in force
is one that was granted (`GrantIsKnown`) and no entry of the log is ahead of it (`LogIsBehind`), which
makes epochs unique and writers follow one another; `SentWell` is about requests that have not arrived.

`ReadersFollow` states `ReadersFollowTheLog`, with `RatingsFollow` and `ProjectionFollows` for the two
readers. They share one fact about the log: the horizon only rises, and no event will ever appear below it.
So the page a batch holds is all there is between its checkpoint and the page's last event (`RBatchOK`,
`PBatchOK`), although transactions commit in any order. For the appliers everything the checkpoint has
passed is decided, and nothing else is, which keeps the ledger in the order of the log
(`DecidedToTheCheckpoint`, `LedgerInOrder`). For the projectors, what the checkpoint has passed is shown by
a row or on record as failing (`CheckpointTrails`), and an older snapshot does no harm, because a rebuild
that read one knows which failures were recorded beside it (`RebuildOK`).

### `TerminalInboxProofs`

`TypeCorrect` states `TypeOK` and `InboxSafety` states `InboxIsFenced`. The lock of an event's row is held
by exactly the reconciler that writes its report (`LocksAreWriters`), and while it writes nobody takes its
lease (`WritersAreCurrent`), because a claim skips a locked row: a writer whose lease lapses still has its
token in the row when it commits. A consumer that returned has stored its report
(`SettlesAreStored`), so a receipt has one. Leases lapse in the middle of everything else, and
`LeasesAreOnesOwn` holds because `acknowledge` and `fail` compare the token.

`LaunchesOnce` states `LaunchIsOnce`, for any number of replicas and attempts and whatever games an older
launch left. Attempts pass a slot only when its game has ended, games of the older launches fill their
slots in turn, and a slot of this one is filled only when nothing older is left from there on (`Slots`,
`Attempts`): so two games of a pairing are never in play at once. A draft is good for the row it was read
from (`Decided`, `Linking`), and every save outdates all other drafts, because the version is compared
(`ProcOK` speaks of fresh drafts only).

### `GatewayRouterProofs`

`RoutingSafety` states `RoutingIsCurrent`, and `Invariance` holds `IInv`, for any number of commands, claims,
lives of the slot, events and failures. The lease is no help against appends that are under way, so the
argument is about the store. Every append was computed from the whole log, of a game that goes on, and the
store takes one of those at a time and none of the others (`StoreTruth`): of the appends nobody here waits
for at most one lands under a lease before all the rest are void, and the other gateway's only while the
log is what the claim found. `Fit` is what a copy may be then: it has what was there at the claim, and
is the log, or lacks one event and nothing is under way. What the head of the queue has read since fits
(`HeadTruth`), and so does a fresh copy under a lease without debt (`CopyTruth`); an append was computed from
the copy, and to the whole log only while nothing ended (`Live`). A claim makes what was read before it void,
since others may have appended; but it leaves a debt that no job in the queue can settle (`OwnerIsGood`),
because a reload settles the debt of the claim it was called for, whose number is new. `QueueShape` says
that only the head of the queue has started, and that jobs of an evicted life come first, with the slot
marked for disposal as long as one is there.

### Not proved

Model-checked only:

* Every liveness property (the run `answers`): fairness and ENABLED are out of the provers' reach.
* `RulesHold`: the generator is compared with the rules on enumerated positions, and both are computed by
  recursion and folds over the board.
* `TournamentIsSound`: the search for a matching is a recursive function, and what such a function
  computes for every field needs an induction over data.
* `ArenaIsSound`: the pairs of a tick come from a recursive choice over a sorted list of waiting players.

## 5. Findings

1. **An owner without a consumer** (`forwarded_consumer`). `processCommand` reacts to `not_owner` by
   stopping the consumer of the instance that popped the envelope. When the key had expired and the
   same gateway claims again before it handles the reply, `onClaimed` finds the loop running and starts
   none, and the late reaction then stops it (`command-forwarder.ts:804`). The gateway renews a game
   whose forwarded commands nobody reads, until its claim is renewed from scratch;
   `command-forwarder.ts:379` takes the consumer for granted.
2. **A reload's stale mark** (`authority_reload_mark`). A late success clears the mark whoever set it
   (`authority.ts:1101`), against the comment above it. It is harmless: the outstanding reload is still
   counted and still read, and `OnlyTheLogIsShown` holds.
3. **One fault, no retry** (`engine_pool_killed`). A worker killed by its watchdog is ready again until
   its exit event arrives and is offered the retry of the job it failed (`pool.ts:326`,
   `instance.ts:286`).
4. **A request between friends** (`friends_again`). A friend request that is accepted between the two
   reads of another one leaves a pending request between friends (`pg/social.ts:316`).

Met while modelling, seen in the models or the code, and not kept as runs of their own:

* *Clocks and games.* The write timer covers the reconciling read of a failed append too, so commands
  can be refused because "an earlier durable write has not settled" when it has (`authority.ts:1125`).
  `routedExpiry` can evict a game that somebody joined while it waited for `ownership.release`
  (`deadline-expiry.ts:199`). A gateway that holds the lease and owes no reload may vouch for
  a copy that lacks the last event, one that its predecessor or a job of its own had sent before
  (`ownership.ts:297` says as much); the next append from that copy is refused by the store.
* *Chess.* An atomic explosion leaves the castling right of a rook that exploded, although
  `movegen.ts:380` says "Rights are kept in step with the board on every move"; another rook that comes
  to stand there could then castle. A promoted crazyhouse piece goes to the pocket as what it was
  promoted to, where `movegen.ts:475` says "Demoted pieces return as pawns per Crazyhouse rules".
* *Readers.* A stale horizon can rewind the projector (`games-projector.ts:112`); it repeats work. The
  last broadcast lost while a subscription is not confirmed is never sent again. A browser keeps a draw
  offer on its screen after `ended`.
* *Tournaments.* A forfeit that is withdrawn and then followed by an aborted game, or a manual result
  that differs from the game's, makes `recordCommittedOutcome` report a conflict for ever. A director's
  manual arena result frees the players of a game still being played.
* *Engine.* A job queued behind an open breaker with no worker left waits for the next call; a warm-up
  worker does not dispatch; a retry into a full queue is dropped; an abort during the option handshake
  is lost; a failed warm-up is cached; a worker that was never used has no reap timer; a warm-up may
  exceed `maxWorkers` by one (the model's limits say so).
* *Accounts and people.* Two concurrent `deletePasskey` calls can remove the last two passkeys
  (`service.ts:767`). A reset that dies between `setPassword` and `revokeAllForUser` leaves older
  sessions. The grace of a rotation counts from the start of the rotating request. A message committed
  late, with a `sent_at` below `last_read_at`, is never unread. The block check of a message takes a
  second connection from the pool its transaction holds one of. Accepting a second pending request
  meets the unique index as a raw error.

## 6. Not modelled, and the plan

Not modelled: the domains that are request-scoped reads and writes (AI, studies, puzzles, content),
standings and tie-breaks, wording and encoding of messages, metrics and tracing, migrations and
deployment. Inside modelled components: the node budget of `findMatching` (fields of this size never
reach it), the arena's retry count, a logical restore of the ratings from another cluster; in the
browser, token refresh, logout and suspension, the player's own pending moves, validation of
snapshots, re-entrancy fences, presence, reconnect back-off, the retry of a readiness commit, and the
messages `readRecovery` lists as missed; in chess, move counters, the fifty-move rule and repetition.

The plan from here: `readRecovery` against log and resident copy (its hazard has a note in place of a
property), the player's own moves in the browser (`session.ts`), and the proof of `ArenaIsSound`, for
which the sorted list of waiting players would have to be stated without recursion, as `Ascending` states
the moves of a view.

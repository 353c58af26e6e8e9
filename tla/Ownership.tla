------------------------------ MODULE Ownership ------------------------------
(***************************************************************************)
(* The ownership registry of the gateway: which node serves a game.  One   *)
(* game is modelled (lanes, keys and leases of two games never meet): its  *)
(* Redis key with a real TTL, and what every node believes about it.       *)
(*                                                                         *)
(* A registry call (claim, renewal, release) is queued in the game's lane  *)
(* and runs when it is at the head; each of its Redis commands is three    *)
(* steps, dispatched (with the code before it), executed by Redis, and     *)
(* answered (with the code after it), so that time passes, the key expires *)
(* and a release arrives between any two of them.                          *)
(***************************************************************************)
EXTENDS Integers, Sequences

CONSTANTS Node,            \* gateway processes
          NoNode,          \* the key is absent
          LeaseTtl,        \* leaseTtlSec
          RenewalInterval, \* renewalIntervalSec
          Second,          \* time units per second (1000 in the code)
          Skew,            \* how far a node's clock may run ahead of Redis
          MaxTime,         \* bound: the last instant explored
          MaxClaims,       \* bound: generations one process may issue
          MaxPending       \* bound: operations queued in one lane

\* The constructor refuses a renewal interval that is not below the TTL.
ASSUME TimingAssumption ==
  /\ LeaseTtl \in Nat /\ RenewalInterval \in Nat /\ RenewalInterval < LeaseTtl
  /\ Second \in Nat \ {0} /\ Skew \in Nat
ASSUME NodeAssumption == NoNode \notin Node
ASSUME BoundAssumption == MaxTime \in Nat /\ MaxClaims \in Nat /\ MaxPending \in Nat

VARIABLES rnow,     \* the time of the Redis server
          clock,    \* clock[n]: monotonicNow() of node n
          key,      \* the value of game:owner:{gameId}
          keyExp,   \* the instant at which Redis drops the key
          owned,    \* owned[n]: the game is in ownedGames of n
          expiry,   \* expiry[n]: leaseExpiryMs, NoLease when absent
          gen,      \* gen[n]: claimGeneration, 0 when absent
          seq,      \* seq[n]: claimSequence
          lane,     \* lane[n]: the pending operations of n, oldest first
          released  \* history: n has released the game and not claimed it since

redisVars == <<key, keyExp>>
localVars == <<owned, expiry, gen, seq>>
timeVars  == <<rnow, clock>>
vars == <<rnow, clock, key, keyExp, owned, expiry, gen, seq, lane, released>>

NoLease == -1
Ttl == LeaseTtl * Second

SmallerOf(a, b) == IF a < b THEN a ELSE b
LargerOf(a, b)  == IF a < b THEN b ELSE a

DriftMargin ==
  SmallerOf(Second, LargerOf(Second \div 5, (RenewalInterval * Second) \div 5))

\* Mutant: no margin is deducted.
SafetyMargin_None == 0

SafetyMargin ==
  LET slack == (LeaseTtl - RenewalInterval) * Second
  IN  LargerOf(DriftMargin, (slack \div 2) + DriftMargin)

-----------------------------------------------------------------------------

Kinds   == {"claim", "renewal", "release"}
Phases  == {"queued", "set", "get", "renew", "delete"}
Replies == {"pending", "ok", "refused", "ours", "others", "absent"}

\* One entry of a lane.  "current" is the comparison of the epoch the call
\* captured with the lane's epoch, which only a release moves.
Operation == [kind : Kinds, current : BOOLEAN, phase : Phases, retry : BOOLEAN,
              startedAt : Int, gen : Nat, reply : Replies]

Queued(kind) == [kind |-> kind, current |-> TRUE, phase |-> "queued", retry |-> FALSE,
                 startedAt |-> 0, gen |-> 0, reply |-> "pending"]

TypeOK ==
  /\ rnow \in Nat /\ clock \in [Node -> Nat]
  /\ key \in Node \cup {NoNode} /\ keyExp \in Nat
  /\ owned \in [Node -> BOOLEAN]
  /\ expiry \in [Node -> Int]
  /\ gen \in [Node -> Nat] /\ seq \in [Node -> Nat]
  /\ lane \in [Node -> Seq(Operation)]
  /\ released \in [Node -> BOOLEAN]

Init ==
  /\ rnow = 0 /\ clock \in [Node -> 0..Skew]
  /\ key = NoNode /\ keyExp = 0
  /\ owned = [n \in Node |-> FALSE]
  /\ expiry = [n \in Node |-> NoLease]
  /\ gen = [n \in Node |-> 0] /\ seq = [n \in Node |-> 0]
  /\ lane = [n \in Node |-> <<>>]
  /\ released = [n \in Node |-> FALSE]

HoldsValidLease(n) ==
  /\ owned[n]
  /\ expiry[n] # NoLease
  /\ clock[n] < expiry[n] - SafetyMargin

IsTicketCurrent(n, generation) == gen[n] = generation /\ HoldsValidLease(n)

-----------------------------------------------------------------------------
(* Lanes. *)

Active(n) == lane[n][1]

Running(n, kind, phase) ==
  /\ lane[n] # <<>>
  /\ Active(n).kind = kind
  /\ Active(n).phase = phase

Answered(n, kind, phase) == Running(n, kind, phase) /\ Active(n).reply # "pending"

\* Mutant: a release overtakes the operations already in the lane.
EnqueueOperation_ReleaseFirst(n, operations, kind) ==
  /\ Len(lane[n]) < MaxPending
  /\ lane' = [lane EXCEPT ![n] = IF kind = "release" THEN <<Queued(kind)>> \o operations
                                 ELSE Append(operations, Queued(kind))]

EnqueueOperation(n, operations, kind) ==
  /\ Len(lane[n]) < MaxPending
  /\ lane' = [lane EXCEPT ![n] = Append(operations, Queued(kind))]

Dispatch(n, operation) == lane' = [lane EXCEPT ![n][1] = operation]

Answer(n, reply) == lane' = [lane EXCEPT ![n][1].reply = reply]

Settle(n) == lane' = [lane EXCEPT ![n] = Tail(@)]

\* assertCurrent of the claim at the head of the lane failed: it rejects.
Superseded(n) == ~Active(n).current

-----------------------------------------------------------------------------
(* The calls that enter a lane. *)

Claim(n) ==
  /\ seq[n] + Len(lane[n]) < MaxClaims
  /\ EnqueueOperation(n, lane[n], "claim")
  /\ released' = [released EXCEPT ![n] = FALSE]
  /\ UNCHANGED <<timeVars, redisVars, localVars>>

\* The renewal timer; a lane carries one renewal at a time.
RenewGame(n) ==
  /\ owned[n]
  /\ seq[n] + Len(lane[n]) < MaxClaims
  /\ \A i \in DOMAIN lane[n] : lane[n][i].kind # "renewal"
  /\ EnqueueOperation(n, lane[n], "renewal")
  /\ UNCHANGED <<timeVars, redisVars, localVars, released>>

\* Every pending operation loses its epoch and the ticket dies before any I/O.
Release(n) ==
  /\ EnqueueOperation(n, [i \in DOMAIN lane[n] |-> [lane[n][i] EXCEPT !.current = FALSE]],
                      "release")
  /\ owned' = [owned EXCEPT ![n] = FALSE]
  /\ expiry' = [expiry EXCEPT ![n] = NoLease]
  /\ gen' = [gen EXCEPT ![n] = 0]
  /\ UNCHANGED <<timeVars, redisVars, seq, released>>

-----------------------------------------------------------------------------
(* Local state of a claim. *)

\* Mutant: the generation is cleared with the expiry's sentinel.
InvalidateIfLapsed_WrongSentinel(n) ==
  IF HoldsValidLease(n)
  THEN UNCHANGED <<expiry, gen>>
  ELSE /\ expiry' = [expiry EXCEPT ![n] = NoLease]
       /\ gen' = [gen EXCEPT ![n] = NoLease]

\* What invalidateTicket leaves when the lease has run out, nothing otherwise.
InvalidateIfLapsed(n) ==
  IF HoldsValidLease(n)
  THEN UNCHANGED <<expiry, gen>>
  ELSE /\ expiry' = [expiry EXCEPT ![n] = NoLease]
       /\ gen' = [gen EXCEPT ![n] = 0]

GenerationAtDispatch(n) == IF HoldsValidLease(n) THEN gen[n] ELSE 0

\* Mutant: the lease counted from the reply instead of the dispatch.
MarkClaimed_AtReply(n, newClaim, startedAt) ==
  LET wasNew == newClaim \/ ~owned[n] \/ gen[n] = 0
  IN /\ owned' = [owned EXCEPT ![n] = TRUE]
     /\ expiry' = [expiry EXCEPT ![n] = clock[n] + Ttl]
     /\ seq' = [seq EXCEPT ![n] = IF wasNew THEN @ + 1 ELSE @]
     /\ gen' = [gen EXCEPT ![n] = IF wasNew THEN seq[n] + 1 ELSE @]

\* Mutant: only a generation that was forgotten is replaced.
MarkClaimed_KeepsLapsed(n, newClaim, startedAt) ==
  LET wasNew == ~owned[n] \/ gen[n] = 0
  IN /\ owned' = [owned EXCEPT ![n] = TRUE]
     /\ expiry' = [expiry EXCEPT ![n] = startedAt + Ttl]
     /\ seq' = [seq EXCEPT ![n] = IF wasNew THEN @ + 1 ELSE @]
     /\ gen' = [gen EXCEPT ![n] = IF wasNew THEN seq[n] + 1 ELSE @]

MarkClaimed(n, newClaim, startedAt) ==
  LET wasNew == newClaim \/ ~owned[n] \/ gen[n] = 0
  IN /\ owned' = [owned EXCEPT ![n] = TRUE]
     /\ expiry' = [expiry EXCEPT ![n] = startedAt + Ttl]
     /\ seq' = [seq EXCEPT ![n] = IF wasNew THEN @ + 1 ELSE @]
     /\ gen' = [gen EXCEPT ![n] = IF wasNew THEN seq[n] + 1 ELSE @]

-----------------------------------------------------------------------------
(* claimNow. *)

StartClaim(n) ==
  /\ Running(n, "claim", "queued")
  /\ IF Superseded(n)
     THEN Settle(n) /\ UNCHANGED <<expiry, gen>>
     ELSE /\ InvalidateIfLapsed(n)
          /\ Dispatch(n, [Active(n) EXCEPT !.phase = "set", !.startedAt = clock[n],
                                           !.gen = GenerationAtDispatch(n)])
  /\ UNCHANGED <<timeVars, redisVars, owned, seq, released>>

SetReply(n) ==
  /\ Answered(n, "claim", "set")
  /\ \/ /\ Superseded(n)
        /\ Settle(n) /\ UNCHANGED localVars
     \/ /\ ~Superseded(n) /\ Active(n).reply = "ok"
        /\ MarkClaimed(n, TRUE, Active(n).startedAt) /\ Settle(n)
     \/ /\ ~Superseded(n) /\ Active(n).reply = "refused"
        /\ Dispatch(n, [Active(n) EXCEPT !.phase = "get", !.reply = "pending"])
        /\ UNCHANGED localVars
  /\ UNCHANGED <<timeVars, redisVars, released>>

GetReply(n) ==
  /\ Answered(n, "claim", "get")
  /\ LET op == Active(n) IN
     \/ /\ ~Superseded(n) /\ op.reply = "ours"
        /\ Dispatch(n, [op EXCEPT !.phase = "renew", !.reply = "pending"])
     \/ /\ ~Superseded(n) /\ op.reply = "absent" /\ ~op.retry
        /\ Dispatch(n, [op EXCEPT !.phase = "set", !.retry = TRUE, !.reply = "pending"])
     \/ /\ Superseded(n) \/ op.reply = "others" \/ (op.reply = "absent" /\ op.retry)
        /\ Settle(n)
  /\ UNCHANGED <<timeVars, redisVars, localVars, released>>

\* markRenewed: only the generation seen at dispatch, still valid, continues.
ClaimRenewReply(n) ==
  /\ Answered(n, "claim", "renew")
  /\ LET op == Active(n) IN
     IF op.reply = "ok" /\ ~Superseded(n)
     THEN MarkClaimed(n, gen[n] # op.gen \/ ~HoldsValidLease(n), op.startedAt)
     ELSE UNCHANGED localVars
  /\ Settle(n)
  /\ UNCHANGED <<timeVars, redisVars, released>>

-----------------------------------------------------------------------------
(* renewOwnedGame and the body of release. *)

StartRenewal(n) ==
  /\ Running(n, "renewal", "queued")
  /\ IF Superseded(n) \/ ~owned[n]
     THEN Settle(n) /\ UNCHANGED <<expiry, gen>>
     ELSE /\ InvalidateIfLapsed(n)
          /\ Dispatch(n, [Active(n) EXCEPT !.phase = "renew", !.startedAt = clock[n],
                                           !.gen = GenerationAtDispatch(n)])
  /\ UNCHANGED <<timeVars, redisVars, owned, seq, released>>

RenewalReply(n) ==
  /\ Answered(n, "renewal", "renew")
  /\ LET op == Active(n) IN
     \/ /\ Superseded(n) \/ gen[n] # op.gen \/ ~owned[n]
        /\ UNCHANGED localVars
     \/ /\ ~Superseded(n) /\ gen[n] = op.gen /\ owned[n]
        /\ op.reply = "ok"
        /\ MarkClaimed(n, ~HoldsValidLease(n), op.startedAt)
     \/ /\ ~Superseded(n) /\ gen[n] = op.gen /\ owned[n]
        /\ op.reply = "refused"
        /\ owned' = [owned EXCEPT ![n] = FALSE]
        /\ expiry' = [expiry EXCEPT ![n] = NoLease]
        /\ gen' = [gen EXCEPT ![n] = 0]
        /\ UNCHANGED seq
  /\ Settle(n)
  /\ UNCHANGED <<timeVars, redisVars, released>>

StartRelease(n) ==
  /\ Running(n, "release", "queued")
  /\ Dispatch(n, [Active(n) EXCEPT !.phase = "delete"])
  /\ UNCHANGED <<timeVars, redisVars, localVars, released>>

NoCurrentClaim(n) ==
  \A i \in DOMAIN lane[n] : lane[n][i].kind = "claim" => ~lane[n][i].current

ReleaseReply(n) ==
  /\ Answered(n, "release", "delete")
  /\ Settle(n)
  /\ released' = [released EXCEPT ![n] = NoCurrentClaim(n)]
  /\ UNCHANGED <<timeVars, redisVars, localVars>>

\* Any command may reject, executed or not.  A claim passes the error on, a
\* renewal swallows it; neither touches the local lease.
IoFails(n) ==
  /\ lane[n] # <<>> /\ Active(n).phase # "queued"
  /\ Settle(n)
  /\ UNCHANGED <<timeVars, redisVars, localVars, released>>

-----------------------------------------------------------------------------
(* Redis. *)

Unanswered(n, phase) ==
  lane[n] # <<>> /\ Active(n).phase = phase /\ Active(n).reply = "pending"

\* SET key node EX ttl NX
RedisSet(n) ==
  /\ Unanswered(n, "set")
  /\ IF key = NoNode
     THEN key' = n /\ keyExp' = rnow + Ttl /\ Answer(n, "ok")
     ELSE UNCHANGED redisVars /\ Answer(n, "refused")
  /\ UNCHANGED <<timeVars, localVars, released>>

RedisGet(n) ==
  /\ Unanswered(n, "get")
  /\ Answer(n, IF key = NoNode THEN "absent"
               ELSE IF key = n THEN "ours" ELSE "others")
  /\ UNCHANGED <<timeVars, redisVars, localVars, released>>

\* RENEW_LUA: compare and expire.
RedisRenew(n) ==
  /\ Unanswered(n, "renew")
  /\ IF key = n
     THEN keyExp' = rnow + Ttl /\ Answer(n, "ok")
     ELSE UNCHANGED keyExp /\ Answer(n, "refused")
  /\ UNCHANGED <<timeVars, key, localVars, released>>

\* RELEASE_LUA: compare and delete.
RedisDelete(n) ==
  /\ Unanswered(n, "delete")
  /\ IF key = n THEN key' = NoNode /\ keyExp' = 0 ELSE UNCHANGED redisVars
  /\ Answer(n, "ok")
  /\ UNCHANGED <<timeVars, localVars, released>>

-----------------------------------------------------------------------------
(* The environment: processes restart, clocks advance. *)

Restart(n) ==
  /\ owned' = [owned EXCEPT ![n] = FALSE]
  /\ expiry' = [expiry EXCEPT ![n] = NoLease]
  /\ gen' = [gen EXCEPT ![n] = 0]
  /\ seq' = [seq EXCEPT ![n] = 0]
  /\ lane' = [lane EXCEPT ![n] = <<>>]
  /\ UNCHANGED <<timeVars, redisVars, released>>

(* Redis drops the key when its TTL has elapsed; a node's clock only moves *)
(* forward, and at most Skew ahead of the server's.                        *)
Tick ==
  /\ rnow < MaxTime
  /\ rnow' = rnow + 1
  /\ clock' \in [Node -> rnow + 1 .. rnow + 1 + Skew]
  /\ \A n \in Node : clock[n] <= clock'[n]
  /\ IF key # NoNode /\ keyExp <= rnow + 1
     THEN key' = NoNode /\ keyExp' = 0
     ELSE UNCHANGED redisVars
  /\ UNCHANGED <<localVars, lane, released>>

Redis(n) == RedisSet(n) \/ RedisGet(n) \/ RedisRenew(n) \/ RedisDelete(n)

Registry(n) ==
  \/ StartClaim(n) \/ SetReply(n) \/ GetReply(n) \/ ClaimRenewReply(n)
  \/ StartRenewal(n) \/ RenewalReply(n)
  \/ StartRelease(n) \/ ReleaseReply(n) \/ IoFails(n)

Next ==
  \/ \E n \in Node : Claim(n) \/ RenewGame(n) \/ Release(n)
  \/ \E n \in Node : Registry(n)
  \/ \E n \in Node : Redis(n)
  \/ \E n \in Node : Restart(n)
  \/ Tick

Spec == Init /\ [][Next]_vars

-----------------------------------------------------------------------------

(* A node that would serve from the fast path really is the holder of the  *)
(* Redis key: whatever the delay of a reply, the skew of its clock or the  *)
(* calls queued behind it, the local lease ends before the key does        *)
(* (markClaimed counts from dispatch, holdsValidLease deducts the margin). *)
LeaseIsBackedByRedis == \A n \in Node : HoldsValidLease(n) => key = n

(* No two nodes may believe at once that they are the authority of a game: *)
(* the split brain the lease exists to prevent.                            *)
NoSplitBrain == \A m, n \in Node : HoldsValidLease(m) /\ HoldsValidLease(n) => m = n

(* A ticket that stopped being current, by expiry, release or a lost key,  *)
(* never becomes current again: a late renewal or claim starts a new       *)
(* generation, so a command admitted under the old one stays refused.      *)
TicketNeverRevives ==
  [][\A n \in Node : \A g \in 1..seq[n] :
       ~IsTicketCurrent(n, g) => ~(g \in 1..seq'[n] /\ IsTicketCurrent(n, g)')]_vars

(* Once a release has run the key is not this node's until it claims the   *)
(* game again: a claim that was in flight when the release was called, or  *)
(* queued before it, cannot leave the key behind.                          *)
ReleaseIsFinal == \A n \in Node : released[n] => key # n

=============================================================================

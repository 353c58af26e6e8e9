--------------------------- MODULE OwnershipProofs ---------------------------
(***************************************************************************)
(* Safety of the ownership registry for every set of nodes, every TTL and  *)
(* renewal interval and every clock skew the safety margin covers.         *)
(*                                                                         *)
(* The argument: a local expiry is never later than the key's own expiry   *)
(* plus the skew, because it is counted from the dispatch of the command   *)
(* that set the key's TTL (Backed); a reply on its way is backed in the    *)
(* same sense; and a key is deleted early only by its own node's release,  *)
(* which has dropped the lease and the epoch of everything queued before   *)
(* it (EntryOK).                                                           *)
(***************************************************************************)
EXTENDS Ownership, SequenceTheorems, TLAPS

\* A lease ending at e is covered: Redis has already passed e, or the key is
\* n's and lives until e, up to the skew of n's clock.
Backed(n, e) == rnow + Skew >= e \/ (key = n /\ keyExp + Skew >= e)

ClocksInv ==
  /\ \A n \in Node : rnow <= clock[n] /\ clock[n] <= rnow + Skew
  /\ keyExp <= rnow + Ttl

LeaseInv == \A n \in Node : expiry[n] # NoLease => Backed(n, expiry[n])

EntryOK(n, i) ==
  LET op == lane[n][i] IN
  /\ op.startedAt <= rnow + Skew
  /\ i > 1 => op.phase = "queued"
  /\ op.phase = "queued" => op.reply = "pending"
  /\ op.phase \in {"set", "get"} => op.kind = "claim"
  /\ op.phase = "delete" => op.kind = "release"
  /\ op.kind # "release" /\ op.reply = "ok" => Backed(n, op.startedAt + Ttl)
  /\ op.kind = "release" =>
       /\ op.phase \in {"queued", "delete"}
       /\ ~owned[n] /\ expiry[n] = NoLease
       /\ \A j \in 1..(i - 1) : ~lane[n][j].current
       /\ op.reply # "pending" => key # n

DeadClaim(op) == op.kind = "claim" => op.phase = "queued" /\ ~op.current

LaneInv == \A n \in Node : \A i \in 1..Len(lane[n]) : EntryOK(n, i)

\* After a release, the claims still in the lane are ones that will reject.
ReleasedInv ==
  \A n \in Node : released[n] =>
    /\ ~owned[n] /\ key # n
    /\ \A i \in 1..Len(lane[n]) : DeadClaim(lane[n][i])

IInv == TypeOK /\ ClocksInv /\ LeaseInv /\ LaneInv /\ ReleasedInv

-----------------------------------------------------------------------------
(* What the three ways to change a lane do to its entries. *)

(* The head leaves and every other entry moves up by one (Settle).         *)
LEMMA SettleLane ==
  ASSUME TypeOK, NEW n \in Node, lane[n] # <<>>, Settle(n)
  PROVE  /\ lane' \in [Node -> Seq(Operation)]
         /\ Len(lane[n]) \in Nat \ {0}
         /\ Len(lane'[n]) = Len(lane[n]) - 1
         /\ \A i \in 1..Len(lane'[n]) : lane'[n][i] = lane[n][i + 1]
         /\ \A m \in Node \ {n} : lane'[m] = lane[m]
<1>1. lane[n] \in Seq(Operation)
  BY DEF TypeOK
<1>2. lane' = [lane EXCEPT ![n] = Tail(lane[n])]
  BY DEF Settle
<1>3. /\ Tail(lane[n]) \in Seq(Operation)
      /\ Len(Tail(lane[n])) = Len(lane[n]) - 1
      /\ \A i \in 1..Len(Tail(lane[n])) : Tail(lane[n])[i] = lane[n][i + 1]
  BY <1>1, HeadTailProperties
<1>4. Len(lane[n]) \in Nat \ {0}
  BY <1>1, EmptySeq
<1>5. lane \in [Node -> Seq(Operation)]
  BY DEF TypeOK
<1> QED
  BY <1>2, <1>3, <1>4, <1>5

(* The head is replaced and the rest stays (Dispatch, Answer).             *)
LEMMA ReplaceHead ==
  ASSUME TypeOK, NEW n \in Node, lane[n] # <<>>, NEW op \in Operation,
         lane' = [lane EXCEPT ![n][1] = op]
  PROVE  /\ lane' \in [Node -> Seq(Operation)]
         /\ Len(lane[n]) \in Nat \ {0}
         /\ Len(lane'[n]) = Len(lane[n])
         /\ lane'[n][1] = op
         /\ \A i \in 2..Len(lane[n]) : lane'[n][i] = lane[n][i]
         /\ \A m \in Node \ {n} : lane'[m] = lane[m]
<1>1. lane \in [Node -> Seq(Operation)] /\ lane[n] \in Seq(Operation)
  BY DEF TypeOK
<1>2. Len(lane[n]) \in Nat \ {0}
  BY <1>1, EmptySeq
<1>3. 1 \in 1..Len(lane[n])
  BY <1>2
<1>4. /\ [lane[n] EXCEPT ![1] = op] \in Seq(Operation)
      /\ Len([lane[n] EXCEPT ![1] = op]) = Len(lane[n])
      /\ \A j \in 1..Len(lane[n]) :
           [lane[n] EXCEPT ![1] = op][j] = IF j = 1 THEN op ELSE lane[n][j]
  BY <1>1, <1>3, ExceptSeq
<1>5. lane' = [lane EXCEPT ![n] = [lane[n] EXCEPT ![1] = op]]
  OBVIOUS
<1> QED
  BY <1>1, <1>2, <1>3, <1>4, <1>5

(* A new entry goes behind the others (EnqueueOperation).                  *)
LEMMA AppendLane ==
  ASSUME TypeOK, NEW n \in Node, NEW operations \in Seq(Operation), NEW kind \in Kinds,
         EnqueueOperation(n, operations, kind)
  PROVE  /\ lane' \in [Node -> Seq(Operation)]
         /\ Len(operations) \in Nat
         /\ Len(lane'[n]) = Len(operations) + 1
         /\ \A i \in 1..Len(operations) : lane'[n][i] = operations[i]
         /\ lane'[n][Len(operations) + 1] = Queued(kind)
         /\ \A m \in Node \ {n} : lane'[m] = lane[m]
<1>1. Queued(kind) \in Operation
  BY DEF Queued, Operation, Phases, Replies
<1>2. lane' = [lane EXCEPT ![n] = Append(operations, Queued(kind))]
  BY DEF EnqueueOperation
<1>3. /\ Append(operations, Queued(kind)) \in Seq(Operation)
      /\ Len(Append(operations, Queued(kind))) = Len(operations) + 1
      /\ \A i \in 1..Len(operations) : Append(operations, Queued(kind))[i] = operations[i]
      /\ Append(operations, Queued(kind))[Len(operations) + 1] = Queued(kind)
  BY <1>1, AppendProperties
<1>4. Len(operations) \in Nat
  BY LenProperties
<1>5. lane \in [Node -> Seq(Operation)]
  BY DEF TypeOK
<1> QED
  BY <1>2, <1>3, <1>4, <1>5

-----------------------------------------------------------------------------
(* Time. *)

(* The TTL is a natural number, and the margin the code derives always     *)
(* contains its drift margin, whatever the TTL and the renewal interval.   *)
LEMMA TimingFacts ==
  /\ Ttl \in Nat
  /\ DriftMargin \in Nat
  /\ SafetyMargin \in Nat
  /\ DriftMargin <= SafetyMargin
<1>1. Ttl \in Nat
  BY TimingAssumption DEF Ttl
<1>2. RenewalInterval * Second \in Nat /\ (LeaseTtl - RenewalInterval) * Second \in Nat
  BY TimingAssumption
<1>3. DriftMargin \in Nat
  BY <1>2, TimingAssumption DEF DriftMargin, SmallerOf, LargerOf
<1>4. SafetyMargin \in Nat /\ DriftMargin <= SafetyMargin
  BY <1>2, <1>3 DEF SafetyMargin, LargerOf
<1> QED
  BY <1>1, <1>3, <1>4

(* The bounds keep times, generations and lanes finite for the checker;    *)
(* the theorems only use that a claim's bookkeeping is well typed.         *)
LEMMA MarkClaimedFacts ==
  ASSUME TypeOK, NEW n \in Node, NEW newClaim \in BOOLEAN, NEW startedAt \in Int,
         MarkClaimed(n, newClaim, startedAt)
  PROVE  /\ owned' = [owned EXCEPT ![n] = TRUE]
         /\ expiry' = [expiry EXCEPT ![n] = startedAt + Ttl]
         /\ owned' \in [Node -> BOOLEAN]
         /\ expiry' \in [Node -> Int]
         /\ gen' \in [Node -> Nat]
         /\ seq' \in [Node -> Nat]
<1>1. /\ owned \in [Node -> BOOLEAN] /\ expiry \in [Node -> Int]
      /\ gen \in [Node -> Nat] /\ seq \in [Node -> Nat]
  BY DEF TypeOK
<1>2. /\ owned' = [owned EXCEPT ![n] = TRUE]
      /\ expiry' = [expiry EXCEPT ![n] = startedAt + Ttl]
      /\ seq' = seq \/ seq' = [seq EXCEPT ![n] = seq[n] + 1]
      /\ gen' = gen \/ gen' = [gen EXCEPT ![n] = seq[n] + 1]
  <2>1. /\ owned' = [owned EXCEPT ![n] = TRUE]
        /\ expiry' = [expiry EXCEPT ![n] = startedAt + Ttl]
    BY DEF MarkClaimed
  <2>2. CASE newClaim \/ ~owned[n] \/ gen[n] = 0
    BY <2>1, <2>2 DEF MarkClaimed
  <2>3. CASE ~(newClaim \/ ~owned[n] \/ gen[n] = 0)
    <3>1. seq' = [seq EXCEPT ![n] = seq[n]] /\ gen' = [gen EXCEPT ![n] = gen[n]]
      BY <2>3 DEF MarkClaimed
    <3> QED
      BY <1>1, <2>1, <3>1
  <2> QED
    BY <2>2, <2>3
<1>3. expiry' \in [Node -> Int]
  BY <1>1, <1>2, TimingFacts
<1>4. gen' \in [Node -> Nat] /\ seq' \in [Node -> Nat]
  BY <1>1, <1>2
<1> QED
  BY <1>1, <1>2, <1>3, <1>4

-----------------------------------------------------------------------------
(* The inductive invariant. *)

LEMMA InitIInv == Init => IInv
<1> SUFFICES ASSUME Init PROVE IInv
  OBVIOUS
<1>1. TypeOK
  BY EmptySeq DEF Init, TypeOK, NoLease
<1>2. ClocksInv
  BY TimingFacts, TimingAssumption DEF Init, ClocksInv
<1>3. LeaseInv /\ LaneInv /\ ReleasedInv
  BY DEF Init, LeaseInv, LaneInv, ReleasedInv, NoLease
<1> QED
  BY <1>1, <1>2, <1>3 DEF IInv

(* Revoking an operation changes nothing else of it.                       *)
LEMMA RevokedFields ==
  ASSUME NEW op \in Operation
  PROVE  LET revoked == [op EXCEPT !.current = FALSE]
         IN  /\ ~revoked.current
             /\ revoked.kind = op.kind
             /\ revoked.phase = op.phase
             /\ revoked.startedAt = op.startedAt
             /\ revoked.reply = op.reply
BY DEF Operation

(* Every entry of a lane is an operation.                                  *)
LEMMA EntryTyped ==
  ASSUME TypeOK, NEW n \in Node
  PROVE  /\ Len(lane[n]) \in Nat
         /\ DOMAIN lane[n] = 1..Len(lane[n])
         /\ \A i \in 1..Len(lane[n]) :
              /\ lane[n][i] \in Operation
              /\ lane[n][i].startedAt \in Int
              /\ lane[n][i].current \in BOOLEAN
<1>1. lane[n] \in Seq(Operation)
  BY DEF TypeOK
<1>2. Len(lane[n]) \in Nat /\ DOMAIN lane[n] = 1..Len(lane[n])
  BY <1>1, LenProperties
<1>3. \A i \in 1..Len(lane[n]) : lane[n][i] \in Operation
  BY <1>1, ElementOfSeq
<1> QED
  BY <1>2, <1>3 DEF Operation

(* A lane nobody touches stays in order while its node's lease, and what   *)
(* backs it in Redis, stay.                                                *)
LEMMA LaneStays ==
  ASSUME TypeOK, LaneInv, NEW m \in Node,
         lane'[m] = lane[m], owned'[m] = owned[m], expiry'[m] = expiry[m],
         rnow <= rnow', rnow' \in Nat,
         key # m => key' # m,
         \A e \in Int : (rnow + Skew >= e \/ (key = m /\ keyExp + Skew >= e))
                      => (rnow' + Skew >= e \/ (key' = m /\ keyExp' + Skew >= e))
  PROVE  \A i \in 1..Len(lane'[m]) : EntryOK(m, i)'
<1> SUFFICES ASSUME NEW i \in 1..Len(lane[m]) PROVE EntryOK(m, i)'
  OBVIOUS
<1>1. EntryOK(m, i)
  BY DEF LaneInv
<1>2. lane[m][i].startedAt \in Int /\ Ttl \in Nat /\ Ttl' = Ttl
  BY EntryTyped, TimingFacts DEF Ttl
<1>3. lane[m][i].startedAt + Ttl \in Int
  BY <1>2
<1>3a. lane[m][i].startedAt <= rnow + Skew
  BY <1>1 DEF EntryOK
<1>3b. rnow \in Nat /\ Skew \in Nat
  BY TimingAssumption DEF TypeOK
<1>4. lane[m][i].startedAt <= rnow' + Skew
  BY <1>2, <1>3a, <1>3b
<1>5. lane[m][i].kind # "release" /\ lane[m][i].reply = "ok"
        => \/ rnow' + Skew >= lane[m][i].startedAt + Ttl
           \/ key' = m /\ keyExp' + Skew >= lane[m][i].startedAt + Ttl
  BY <1>1, <1>3 DEF EntryOK, Backed
<1> QED
  BY <1>1, <1>2, <1>4, <1>5 DEF EntryOK, Backed

(* A call that only joins the lane keeps the lane in order.                *)
LEMMA AppendKeepsLanes ==
  ASSUME TypeOK, LaneInv, NEW n \in Node, NEW kind \in {"claim", "renewal"},
         EnqueueOperation(n, lane[n], kind),
         UNCHANGED <<timeVars, redisVars, localVars>>
  PROVE  LaneInv'
<1>1. /\ lane[n] \in Seq(Operation) /\ kind \in Kinds
      /\ UNCHANGED <<rnow, key, keyExp, owned, expiry>>
      /\ rnow \in Nat
  BY DEF TypeOK, Kinds, timeVars, redisVars, localVars
<1>2. /\ Len(lane[n]) \in Nat
      /\ Len(lane'[n]) = Len(lane[n]) + 1
      /\ \A i \in 1..Len(lane[n]) : lane'[n][i] = lane[n][i]
      /\ lane'[n][Len(lane[n]) + 1] = Queued(kind)
      /\ \A m \in Node \ {n} : lane'[m] = lane[m]
  BY <1>1, AppendLane
<1> SUFFICES ASSUME NEW m \in Node, NEW i \in 1..Len(lane'[m]) PROVE EntryOK(m, i)'
  BY DEF LaneInv
<1>3. CASE m # n
  <2>1. /\ lane'[m] = lane[m] /\ owned'[m] = owned[m] /\ expiry'[m] = expiry[m]
        /\ rnow <= rnow' /\ rnow' \in Nat /\ (key # m => key' # m)
    BY <1>1, <1>2, <1>3
  <2> QED
    BY <1>1, <2>1, LaneStays
<1>4. CASE m = n /\ i \in 1..Len(lane[n])
  <2>1. EntryOK(n, i)
    BY <1>4 DEF LaneInv
  <2>2. lane'[n][i] = lane[n][i] /\ \A j \in 1..(i - 1) : lane'[n][j] = lane[n][j]
    BY <1>2, <1>4
  <2>3. EntryOK(n, i)'
    BY <1>1, <2>1, <2>2 DEF EntryOK, Backed
  <2> QED
    BY <1>4, <2>3
<1>5. CASE m = n /\ i = Len(lane[n]) + 1
  BY <1>1, <1>2, <1>5, TimingAssumption DEF EntryOK, Queued
<1> QED
  BY <1>2, <1>3, <1>4, <1>5

(* The head leaves; the node's lease may change with it as long as no      *)
(* release is queued behind a lease.                                       *)
LEMMA SettleKeepsLanes ==
  ASSUME TypeOK, LaneInv, NEW n \in Node, lane[n] # <<>>, Settle(n),
         UNCHANGED <<timeVars, redisVars>>,
         \A m \in Node \ {n} : owned'[m] = owned[m] /\ expiry'[m] = expiry[m],
         \A i \in 2..Len(lane[n]) : lane[n][i].kind = "release" =>
                                    ~owned'[n] /\ expiry'[n] = NoLease
  PROVE  LaneInv'
<1>1. UNCHANGED <<rnow, key, keyExp>> /\ rnow \in Nat
  BY DEF TypeOK, timeVars, redisVars
<1>2. /\ Len(lane[n]) \in Nat \ {0}
      /\ Len(lane'[n]) = Len(lane[n]) - 1
      /\ \A i \in 1..Len(lane'[n]) : lane'[n][i] = lane[n][i + 1]
      /\ \A m \in Node \ {n} : lane'[m] = lane[m]
  BY SettleLane
<1> SUFFICES ASSUME NEW m \in Node, NEW i \in 1..Len(lane'[m]) PROVE EntryOK(m, i)'
  BY DEF LaneInv
<1>3. CASE m # n
  <2>1. /\ lane'[m] = lane[m] /\ owned'[m] = owned[m] /\ expiry'[m] = expiry[m]
        /\ rnow <= rnow' /\ rnow' \in Nat /\ (key # m => key' # m)
    BY <1>1, <1>2, <1>3
  <2> QED
    BY <1>1, <2>1, LaneStays
<1>4. CASE m = n
  <2>1. i + 1 \in 2..Len(lane[n]) /\ i \in Nat
    BY <1>2, <1>4
  <2>2. EntryOK(n, i + 1) /\ lane'[n][i] = lane[n][i + 1]
    BY <1>2, <1>4, <2>1 DEF LaneInv
  <2>3. lane[n][i + 1].reply = "pending"
    BY <2>1, <2>2 DEF EntryOK
  <2>4. lane[n][i + 1].kind = "release" => \A j \in 1..(i - 1) : ~lane'[n][j].current
    <3> SUFFICES ASSUME lane[n][i + 1].kind = "release", NEW j \in 1..(i - 1)
                 PROVE  ~lane'[n][j].current
      OBVIOUS
    <3>1. j + 1 \in 1..((i + 1) - 1) /\ j \in 1..Len(lane'[n])
      BY <1>2, <2>1
    <3> QED
      BY <1>2, <2>2, <3>1 DEF EntryOK
  <2>5. EntryOK(n, i)'
    BY <1>1, <2>1, <2>2, <2>3, <2>4 DEF EntryOK
  <2> QED
    BY <1>4, <2>5
<1> QED
  BY <1>3, <1>4

(* The head moves to its next command, keeping its kind and dispatch time  *)
(* in order; its node may lose the lease, never gain one.                  *)
LEMMA DispatchKeepsLanes ==
  ASSUME TypeOK, LaneInv, NEW n \in Node, lane[n] # <<>>,
         NEW op \in Operation, Dispatch(n, op),
         op.kind = Active(n).kind, op.reply = "pending",
         op.startedAt <= rnow + Skew,
         op.phase \in {"set", "get"} => op.kind = "claim",
         op.phase = "delete" => op.kind = "release",
         op.kind = "release" => op.phase \in {"queued", "delete"},
         op.current = Active(n).current,
         UNCHANGED <<timeVars, redisVars, owned>>,
         \A m \in Node : expiry'[m] = expiry[m] \/ (m = n /\ expiry'[m] = NoLease)
  PROVE  LaneInv'
<1>1. UNCHANGED <<rnow, key, keyExp, owned>> /\ rnow \in Nat
  BY DEF TypeOK, timeVars, redisVars
<1>2. /\ Len(lane[n]) \in Nat \ {0}
      /\ Len(lane'[n]) = Len(lane[n])
      /\ lane'[n][1] = op
      /\ \A i \in 2..Len(lane[n]) : lane'[n][i] = lane[n][i]
      /\ \A m \in Node \ {n} : lane'[m] = lane[m]
  BY ReplaceHead DEF Dispatch
<1>3. 1 \in 1..Len(lane[n]) /\ EntryOK(n, 1)
  BY <1>2 DEF LaneInv
<1> SUFFICES ASSUME NEW m \in Node, NEW i \in 1..Len(lane'[m]) PROVE EntryOK(m, i)'
  BY DEF LaneInv
<1>4. CASE m # n
  <2>1. /\ lane'[m] = lane[m] /\ owned'[m] = owned[m] /\ expiry'[m] = expiry[m]
        /\ rnow <= rnow' /\ rnow' \in Nat /\ (key # m => key' # m)
    BY <1>1, <1>2, <1>4
  <2> QED
    BY <1>1, <2>1, LaneStays
<1>5. CASE m = n /\ i = 1
  <2>1. EntryOK(n, 1)'
    BY <1>1, <1>2, <1>3 DEF EntryOK, Active
  <2> QED
    BY <1>5, <2>1
<1>6. CASE m = n /\ i \in 2..Len(lane[n])
  <2>1. EntryOK(n, i) /\ lane'[n][i] = lane[n][i]
    BY <1>2, <1>6 DEF LaneInv
  <2>2. \A j \in 1..(i - 1) : lane'[n][j].current = lane[n][j].current
    BY <1>2, <1>6 DEF Active
  <2>3. EntryOK(n, i)'
    BY <1>1, <1>6, <2>1, <2>2 DEF EntryOK, Backed
  <2> QED
    BY <1>6, <2>3
<1> QED
  BY <1>2, <1>4, <1>5, <1>6

-----------------------------------------------------------------------------
(* Each action keeps the inductive invariant: the calls that enter a lane. *)

LEMMA ClaimIInv ==
  ASSUME IInv, NEW n \in Node, Claim(n)
  PROVE  IInv'
<1>1. /\ EnqueueOperation(n, lane[n], "claim")
      /\ released' = [released EXCEPT ![n] = FALSE]
      /\ UNCHANGED <<timeVars, redisVars, localVars>>
  BY DEF Claim
<1>2. TypeOK /\ "claim" \in Kinds /\ lane[n] \in Seq(Operation)
  BY DEF IInv, Kinds, TypeOK
<1>3. lane' \in [Node -> Seq(Operation)] /\ \A m \in Node \ {n} : lane'[m] = lane[m]
  BY <1>1, <1>2, AppendLane
<1>4. TypeOK'
  BY <1>1, <1>2, <1>3 DEF TypeOK, timeVars, redisVars, localVars
<1>5. ClocksInv' /\ LeaseInv'
  BY <1>1 DEF IInv, ClocksInv, LeaseInv, Backed, timeVars, redisVars, localVars
<1>6. LaneInv'
  BY <1>1, AppendKeepsLanes DEF IInv
<1>7. ReleasedInv'
  BY <1>1, <1>2, <1>3 DEF IInv, ReleasedInv, TypeOK, timeVars, redisVars, localVars
<1> QED
  BY <1>4, <1>5, <1>6, <1>7 DEF IInv

LEMMA RenewGameIInv ==
  ASSUME IInv, NEW n \in Node, RenewGame(n)
  PROVE  IInv'
<1>1. /\ owned[n]
      /\ EnqueueOperation(n, lane[n], "renewal")
      /\ UNCHANGED <<timeVars, redisVars, localVars, released>>
  BY DEF RenewGame
<1>2. TypeOK /\ "renewal" \in Kinds /\ lane[n] \in Seq(Operation)
  BY DEF IInv, Kinds, TypeOK
<1>3. lane' \in [Node -> Seq(Operation)] /\ \A m \in Node \ {n} : lane'[m] = lane[m]
  BY <1>1, <1>2, AppendLane
<1>4. TypeOK'
  BY <1>1, <1>2, <1>3 DEF TypeOK, timeVars, redisVars, localVars
<1>5. ClocksInv' /\ LeaseInv'
  BY <1>1 DEF IInv, ClocksInv, LeaseInv, Backed, timeVars, redisVars, localVars
<1>6. LaneInv'
  BY <1>1, AppendKeepsLanes DEF IInv
<1>7. ReleasedInv'
  BY <1>1, <1>2, <1>3 DEF IInv, ReleasedInv, TypeOK, timeVars, redisVars, localVars
<1> QED
  BY <1>4, <1>5, <1>6, <1>7 DEF IInv

(* A release drops the lease, so nothing has to back it any more, and      *)
(* outdates every entry ahead of the one it adds.                          *)
LEMMA ReleaseIInv ==
  ASSUME IInv, NEW n \in Node, Release(n)
  PROVE  IInv'
<1> DEFINE revoked == [i \in DOMAIN lane[n] |-> [lane[n][i] EXCEPT !.current = FALSE]]
<1>1. /\ EnqueueOperation(n, revoked, "release")
      /\ owned' = [owned EXCEPT ![n] = FALSE]
      /\ expiry' = [expiry EXCEPT ![n] = NoLease]
      /\ gen' = [gen EXCEPT ![n] = 0]
      /\ UNCHANGED <<rnow, clock, key, keyExp, seq, released>>
  BY DEF Release, timeVars, redisVars
<1>2. TypeOK /\ LaneInv /\ "release" \in Kinds /\ rnow \in Nat
  BY DEF IInv, Kinds, TypeOK
<1>3. /\ Len(lane[n]) \in Nat /\ DOMAIN lane[n] = 1..Len(lane[n])
      /\ \A i \in 1..Len(lane[n]) : lane[n][i] \in Operation
  BY <1>2, EntryTyped
<1>4. /\ \A i \in 1..Len(lane[n]) : revoked[i] = [lane[n][i] EXCEPT !.current = FALSE]
      /\ revoked \in Seq(Operation)
      /\ Len(revoked) = Len(lane[n])
  <2>1. \A i \in 1..Len(lane[n]) : [lane[n][i] EXCEPT !.current = FALSE] \in Operation
    BY <1>3 DEF Operation
  <2>2. revoked \in [1..Len(lane[n]) -> Operation]
    BY <1>3, <2>1
  <2> QED
    BY <1>3, <2>2
<1>5. /\ lane' \in [Node -> Seq(Operation)]
      /\ Len(lane'[n]) = Len(lane[n]) + 1
      /\ \A i \in 1..Len(lane[n]) : lane'[n][i] = revoked[i]
      /\ lane'[n][Len(lane[n]) + 1] = Queued("release")
      /\ \A m \in Node \ {n} : lane'[m] = lane[m]
  <2> HIDE DEF revoked
  <2> QED
    BY <1>1, <1>2, <1>4, AppendLane
<1>6. \A i \in 1..Len(lane[n]) :
        /\ ~lane'[n][i].current
        /\ lane'[n][i].kind = lane[n][i].kind
        /\ lane'[n][i].phase = lane[n][i].phase
        /\ lane'[n][i].startedAt = lane[n][i].startedAt
        /\ lane'[n][i].reply = lane[n][i].reply
  <2> SUFFICES ASSUME NEW i \in 1..Len(lane[n])
               PROVE  /\ ~lane'[n][i].current
                      /\ lane'[n][i].kind = lane[n][i].kind
                      /\ lane'[n][i].phase = lane[n][i].phase
                      /\ lane'[n][i].startedAt = lane[n][i].startedAt
                      /\ lane'[n][i].reply = lane[n][i].reply
    OBVIOUS
  <2>1. lane'[n][i] = [lane[n][i] EXCEPT !.current = FALSE] /\ lane[n][i] \in Operation
    BY <1>3, <1>4, <1>5
  <2>2. /\ ~[lane[n][i] EXCEPT !.current = FALSE].current
        /\ [lane[n][i] EXCEPT !.current = FALSE].kind = lane[n][i].kind
        /\ [lane[n][i] EXCEPT !.current = FALSE].phase = lane[n][i].phase
        /\ [lane[n][i] EXCEPT !.current = FALSE].startedAt = lane[n][i].startedAt
        /\ [lane[n][i] EXCEPT !.current = FALSE].reply = lane[n][i].reply
    BY <2>1, RevokedFields
  <2> QED
    BY ONLY <2>1, <2>2
<1> HIDE DEF revoked
<1>6a. NoLease \in Int
  BY DEF NoLease
<1>6b. owned' \in [Node -> BOOLEAN] /\ expiry' \in [Node -> Int] /\ gen' \in [Node -> Nat]
  BY <1>1, <1>2, <1>6a DEF TypeOK
<1>6c. lane' \in [Node -> Seq(Operation)]
  BY <1>5
<1>7. TypeOK'
  BY <1>1, <1>2, <1>6b, <1>6c DEF TypeOK
<1>8. ClocksInv' /\ LeaseInv'
  BY <1>1, <1>2 DEF IInv, ClocksInv, LeaseInv, Backed, TypeOK
<1>9. /\ ~owned'[n] /\ expiry'[n] = NoLease
      /\ \A m \in Node \ {n} : owned'[m] = owned[m] /\ expiry'[m] = expiry[m]
  BY <1>1, <1>2 DEF TypeOK
<1>10. LaneInv'
  <2> SUFFICES ASSUME NEW m \in Node, NEW i \in 1..Len(lane'[m]) PROVE EntryOK(m, i)'
    BY DEF LaneInv
  <2>1. CASE m # n
    <3>1. /\ lane'[m] = lane[m] /\ owned'[m] = owned[m] /\ expiry'[m] = expiry[m]
          /\ rnow <= rnow' /\ rnow' \in Nat /\ (key # m => key' # m)
      BY <1>1, <1>2, <1>5, <1>9, <2>1
    <3> QED
      BY <1>1, <1>2, <3>1, LaneStays
  <2>2. CASE m = n /\ i \in 1..Len(lane[n])
    <3>1. EntryOK(n, i)
      BY <1>2, <2>2 DEF LaneInv
    <3>2. \A j \in 1..(i - 1) : ~lane'[n][j].current
      BY <1>3, <1>6, <2>2
    <3>3. EntryOK(n, i)'
      BY <1>1, <1>6, <1>9, <2>2, <3>1, <3>2 DEF EntryOK, Backed
    <3> QED
      BY <2>2, <3>3
  <2>3. CASE m = n /\ i = Len(lane[n]) + 1
    <3>1. \A j \in 1..(i - 1) : ~lane'[n][j].current
      BY <1>3, <1>6, <2>3
    <3>2. EntryOK(n, i)'
      BY <1>1, <1>2, <1>5, <1>9, <2>3, <3>1, TimingAssumption DEF EntryOK, Queued
    <3> QED
      BY <2>3, <3>2
  <2> QED
    BY <1>3, <1>5, <2>1, <2>2, <2>3
<1>11. ReleasedInv'
  <2> SUFFICES ASSUME NEW m \in Node, released[m]
               PROVE  /\ ~owned'[m] /\ key # m
                      /\ \A i \in 1..Len(lane'[m]) : DeadClaim(lane'[m][i])
    BY <1>1 DEF ReleasedInv, DeadClaim
  <2>1. ~owned[m] /\ key # m /\ \A i \in 1..Len(lane[m]) : DeadClaim(lane[m][i])
    BY DEF IInv, ReleasedInv
  <2>2. CASE m # n
    BY <1>5, <1>9, <2>1, <2>2
  <2>3. CASE m = n
    <3>1. lane'[n][Len(lane[n]) + 1].kind = "release"
      BY <1>5 DEF Queued
    <3>2. \A i \in 1..Len(lane[n]) : DeadClaim(lane'[n][i])
      BY <1>6, <2>1, <2>3 DEF DeadClaim
    <3>3. DeadClaim(lane'[n][Len(lane[n]) + 1])
      BY <3>1 DEF DeadClaim
    <3> QED
      BY <1>3, <1>5, <1>9, <2>1, <2>3, <3>2, <3>3
  <2> QED
    BY <2>2, <2>3
<1> QED
  BY <1>7, <1>8, <1>10, <1>11 DEF IInv

-----------------------------------------------------------------------------
(* Each action keeps the inductive invariant: replies and starts. *)

(* A settled call that leaves the lease alone, or drops it.                *)
LEMMA QuietSettleIInv ==
  ASSUME IInv, NEW n \in Node, lane[n] # <<>>, Settle(n),
         UNCHANGED <<timeVars, redisVars, seq>>,
         gen' \in [Node -> Nat],
         \/ UNCHANGED <<owned, expiry>>
         \/ owned' = [owned EXCEPT ![n] = FALSE] /\ expiry' = [expiry EXCEPT ![n] = NoLease],
         \/ UNCHANGED released
         \/ /\ released' = [released EXCEPT ![n] = NoCurrentClaim(n)]
            /\ Active(n).kind = "release" /\ Active(n).reply # "pending"
  PROVE  IInv'
<1>1. /\ TypeOK /\ ClocksInv /\ LeaseInv /\ LaneInv /\ ReleasedInv
      /\ UNCHANGED <<rnow, clock, key, keyExp, seq>>
  BY DEF IInv, timeVars, redisVars
<1>2. /\ lane' \in [Node -> Seq(Operation)]
      /\ Len(lane[n]) \in Nat \ {0}
      /\ Len(lane'[n]) = Len(lane[n]) - 1
      /\ \A i \in 1..Len(lane'[n]) : lane'[n][i] = lane[n][i + 1]
      /\ \A m \in Node \ {n} : lane'[m] = lane[m]
  BY <1>1, SettleLane
<1>3. /\ owned' \in [Node -> BOOLEAN] /\ expiry' \in [Node -> Int]
      /\ \A m \in Node : \/ owned'[m] = owned[m] /\ expiry'[m] = expiry[m]
                         \/ m = n /\ ~owned'[m] /\ expiry'[m] = NoLease
  <2>1. CASE UNCHANGED <<owned, expiry>>
    <3>1. owned' = owned /\ expiry' = expiry
      BY <2>1
    <3> QED
      BY <1>1, <3>1 DEF TypeOK
  <2>2. CASE owned' = [owned EXCEPT ![n] = FALSE] /\ expiry' = [expiry EXCEPT ![n] = NoLease]
    <3>1. owned' \in [Node -> BOOLEAN] /\ expiry' \in [Node -> Int]
      BY <1>1, <2>2 DEF TypeOK, NoLease
    <3>2. ~owned'[n] /\ expiry'[n] = NoLease
      BY <1>1, <2>2 DEF TypeOK
    <3>3. \A m \in Node \ {n} : owned'[m] = owned[m] /\ expiry'[m] = expiry[m]
      BY <1>1, <2>2 DEF TypeOK
    <3> QED
      BY <3>1, <3>2, <3>3
  <2> QED
    BY <2>1, <2>2
<1>4. TypeOK'
  <2>1. NoCurrentClaim(n) \in BOOLEAN
    BY DEF NoCurrentClaim
  <2>2. released' \in [Node -> BOOLEAN]
    BY <1>1, <2>1 DEF TypeOK
  <2> QED
    BY <1>1, <1>2, <1>3, <2>2 DEF TypeOK
<1>5. ClocksInv' /\ LeaseInv'
  BY <1>1, <1>3 DEF ClocksInv, LeaseInv, Backed
<1>6. LaneInv'
  <2>1. \A i \in 2..Len(lane[n]) : lane[n][i].kind = "release" =>
                                   ~owned'[n] /\ expiry'[n] = NoLease
    BY <1>1, <1>3 DEF LaneInv, EntryOK
  <2> QED
    BY <1>1, <1>3, <2>1, SettleKeepsLanes
<1>7. ReleasedInv'
  <2> SUFFICES ASSUME NEW m \in Node, released'[m]
               PROVE  /\ ~owned'[m] /\ key # m
                      /\ \A i \in 1..Len(lane'[m]) : DeadClaim(lane'[m][i])
    BY <1>1 DEF ReleasedInv, DeadClaim
  <2>1. CASE released[m]
    <3>1. ~owned[m] /\ key # m /\ \A i \in 1..Len(lane[m]) : DeadClaim(lane[m][i])
      BY <1>1, <2>1 DEF ReleasedInv
    <3>2. \A i \in 1..Len(lane'[m]) : DeadClaim(lane'[m][i])
      <4> SUFFICES ASSUME NEW i \in 1..Len(lane'[m]) PROVE DeadClaim(lane'[m][i])
        OBVIOUS
      <4>1. CASE m = n
        <5>1. i \in 1..Len(lane'[n]) /\ i \in Nat /\ i >= 1 /\ i <= Len(lane[n]) - 1
          BY <1>2, <4>1
        <5>2. i + 1 \in 1..Len(lane[n])
          BY <1>2, <5>1
        <5>3. lane'[n][i] = lane[n][i + 1]
          BY <1>2, <5>1
        <5> QED
          BY <3>1, <4>1, <5>2, <5>3
      <4>2. CASE m # n
        BY <1>2, <3>1, <4>2
      <4> QED
        BY <4>1, <4>2
    <3> QED
      BY <1>3, <3>1, <3>2
  <2>2. CASE ~released[m]
    <3>1. /\ m = n /\ NoCurrentClaim(n)
          /\ lane[n][1].kind = "release" /\ lane[n][1].reply # "pending"
      BY <1>1, <2>2 DEF TypeOK, Active, NoCurrentClaim
    <3>2. EntryOK(n, 1) /\ 1 \in 1..Len(lane[n])
      BY <1>1, <1>2 DEF LaneInv
    <3>3. ~owned[n] /\ key # n
      BY <3>1, <3>2 DEF EntryOK
    <3>4. \A i \in 2..Len(lane[n]) : DeadClaim(lane[n][i])
      <4> SUFFICES ASSUME NEW i \in 2..Len(lane[n]) PROVE DeadClaim(lane[n][i])
        OBVIOUS
      <4>1. EntryOK(n, i) /\ i \in DOMAIN lane[n] /\ i > 1
        BY <1>1, <1>2, EntryTyped DEF LaneInv
      <4> QED
        BY <3>1, <4>1 DEF DeadClaim, EntryOK, NoCurrentClaim
    <3>5. \A i \in 1..Len(lane'[n]) : DeadClaim(lane'[n][i])
      <4> SUFFICES ASSUME NEW i \in 1..Len(lane'[n]) PROVE DeadClaim(lane'[n][i])
        OBVIOUS
      <4>1. i \in Nat /\ i >= 1 /\ i <= Len(lane[n]) - 1
        BY <1>2
      <4>2. i + 1 \in 2..Len(lane[n])
        BY <1>2, <4>1
      <4>3. lane'[n][i] = lane[n][i + 1]
        BY <1>2
      <4> QED
        BY <3>4, <4>2, <4>3
    <3> QED
      BY <1>3, <3>1, <3>3, <3>5
  <2> QED
    BY <2>1, <2>2
<1> QED
  BY <1>4, <1>5, <1>6, <1>7 DEF IInv

(* An answer "ok" to a current claim or renewal installs a lease: the      *)
(* reply backs it, and no release is queued behind a current head.         *)
LEMMA MarkClaimedIInv ==
  ASSUME IInv, NEW n \in Node, lane[n] # <<>>, Settle(n),
         Active(n).current, Active(n).reply = "ok", Active(n).kind # "release",
         Active(n).kind = "renewal" => owned[n],
         NEW newClaim \in BOOLEAN, MarkClaimed(n, newClaim, Active(n).startedAt),
         UNCHANGED <<timeVars, redisVars, released>>
  PROVE  IInv'
<1>1. /\ TypeOK /\ ClocksInv /\ LeaseInv /\ LaneInv /\ ReleasedInv
      /\ UNCHANGED <<rnow, clock, key, keyExp, released>>
  BY DEF IInv, timeVars, redisVars
<1>2. /\ lane' \in [Node -> Seq(Operation)]
      /\ Len(lane[n]) \in Nat \ {0}
      /\ Len(lane'[n]) = Len(lane[n]) - 1
      /\ \A i \in 1..Len(lane'[n]) : lane'[n][i] = lane[n][i + 1]
      /\ \A m \in Node \ {n} : lane'[m] = lane[m]
  BY <1>1, SettleLane
<1>3. 1 \in 1..Len(lane[n]) /\ EntryOK(n, 1) /\ Active(n).startedAt \in Int
  BY <1>1, <1>2, EntryTyped DEF LaneInv, Active
<1>4. /\ owned' = [owned EXCEPT ![n] = TRUE]
      /\ expiry' = [expiry EXCEPT ![n] = Active(n).startedAt + Ttl]
      /\ owned' \in [Node -> BOOLEAN] /\ expiry' \in [Node -> Int]
      /\ gen' \in [Node -> Nat] /\ seq' \in [Node -> Nat]
  BY <1>1, <1>3, MarkClaimedFacts
<1>5. TypeOK'
  BY <1>1, <1>2, <1>4 DEF TypeOK
<1>6. ClocksInv' /\ LeaseInv'
  <2>1. Backed(n, Active(n).startedAt + Ttl)
    BY <1>3 DEF EntryOK, Active
  <2> QED
    BY <1>1, <1>4, <2>1 DEF ClocksInv, LeaseInv, Backed, TypeOK
<1>7. \A i \in 2..Len(lane[n]) : lane[n][i].kind # "release"
  <2> SUFFICES ASSUME NEW i \in 2..Len(lane[n]), lane[n][i].kind = "release" PROVE FALSE
    OBVIOUS
  <2>1. EntryOK(n, i) /\ 1 \in 1..(i - 1)
    BY <1>1, <1>2 DEF LaneInv
  <2> QED
    BY <2>1 DEF EntryOK, Active
<1>8. LaneInv'
  <2>1. \A m \in Node \ {n} : owned'[m] = owned[m] /\ expiry'[m] = expiry[m]
    BY <1>1, <1>4 DEF TypeOK
  <2> QED
    BY <1>1, <1>7, <2>1, SettleKeepsLanes
<1>9. ReleasedInv'
  <2>1. ~released[n]
    <3> SUFFICES ASSUME released[n] PROVE FALSE
      OBVIOUS
    <3>1. ~owned[n] /\ Active(n).kind # "claim"
      BY <1>1, <1>3 DEF ReleasedInv, DeadClaim, Active
    <3>2. Active(n).kind \in Kinds
      BY <1>1, <1>3, EntryTyped DEF Active, Operation
    <3> QED
      BY <3>1, <3>2 DEF Kinds
  <2>2. \A m \in Node \ {n} : owned'[m] = owned[m]
    BY <1>1, <1>4 DEF TypeOK
  <2> SUFFICES ASSUME NEW m \in Node, released[m]
               PROVE  /\ ~owned'[m] /\ key # m
                      /\ \A i \in 1..Len(lane'[m]) : DeadClaim(lane'[m][i])
    BY <1>1 DEF ReleasedInv, DeadClaim
  <2>3. m # n /\ lane'[m] = lane[m]
    BY <1>2, <2>1
  <2> QED
    BY <1>1, <2>2, <2>3 DEF ReleasedInv
<1> QED
  BY <1>5, <1>6, <1>8, <1>9 DEF IInv

(* The head goes on to its next command; a lapsed ticket may go with it.   *)
LEMMA DispatchIInv ==
  ASSUME IInv, NEW n \in Node, lane[n] # <<>>,
         NEW op \in Operation, Dispatch(n, op),
         op.kind = Active(n).kind, op.reply = "pending",
         op.startedAt <= rnow + Skew,
         op.phase \in {"set", "get"} => op.kind = "claim",
         op.phase = "delete" => op.kind = "release",
         op.kind = "release" => op.phase \in {"queued", "delete"},
         op.current = Active(n).current,
         op.kind = "claim" => Active(n).current \/ Active(n).phase # "queued",
         UNCHANGED <<timeVars, redisVars, owned, seq, released>>,
         \/ UNCHANGED <<expiry, gen>>
         \/ InvalidateIfLapsed(n)
  PROVE  IInv'
<1>1. /\ TypeOK /\ ClocksInv /\ LeaseInv /\ LaneInv /\ ReleasedInv
      /\ UNCHANGED <<rnow, clock, key, keyExp, owned, seq, released>>
  BY DEF IInv, timeVars, redisVars
<1>2. /\ lane' \in [Node -> Seq(Operation)]
      /\ Len(lane[n]) \in Nat \ {0}
      /\ Len(lane'[n]) = Len(lane[n])
      /\ lane'[n][1] = op
      /\ \A i \in 2..Len(lane[n]) : lane'[n][i] = lane[n][i]
      /\ \A m \in Node \ {n} : lane'[m] = lane[m]
  BY <1>1, ReplaceHead DEF Dispatch
<1>3. /\ expiry' \in [Node -> Int] /\ gen' \in [Node -> Nat]
      /\ \A m \in Node : expiry'[m] = expiry[m] \/ (m = n /\ expiry'[m] = NoLease)
  <2>1. CASE UNCHANGED <<expiry, gen>>
    BY <1>1, <2>1 DEF TypeOK
  <2>2. CASE /\ expiry' = [expiry EXCEPT ![n] = NoLease]
             /\ gen' = [gen EXCEPT ![n] = 0]
    BY <1>1, <2>2 DEF TypeOK, NoLease
  <2> QED
    BY <2>1, <2>2 DEF InvalidateIfLapsed
<1>4. TypeOK'
  BY <1>1, <1>2, <1>3 DEF TypeOK
<1>5. ClocksInv' /\ LeaseInv'
  BY <1>1, <1>3 DEF ClocksInv, LeaseInv, Backed
<1>6. LaneInv'
  BY <1>1, <1>3, DispatchKeepsLanes
<1>7. ReleasedInv'
  <2> SUFFICES ASSUME NEW m \in Node, released[m], NEW i \in 1..Len(lane'[m])
               PROVE  DeadClaim(lane'[m][i])
    BY <1>1 DEF ReleasedInv, DeadClaim
  <2>1. i \in 1..Len(lane[m]) /\ DeadClaim(lane[m][i])
    BY <1>1, <1>2 DEF ReleasedInv
  <2>2. CASE m # n \/ i # 1
    BY <1>2, <2>1, <2>2
  <2>3. CASE m = n /\ i = 1
    BY <1>2, <2>1, <2>3 DEF DeadClaim, Active
  <2> QED
    BY <2>2, <2>3
<1> QED
  BY <1>4, <1>5, <1>6, <1>7 DEF IInv

(* Every step of the registry at the head of a lane is one of the three.   *)
LEMMA StartClaimIInv ==
  ASSUME IInv, NEW n \in Node, StartClaim(n)
  PROVE  IInv'
<1>1. TypeOK /\ lane[n] # <<>> /\ gen \in [Node -> Nat]
      /\ Active(n).kind = "claim" /\ Active(n).phase = "queued"
      /\ UNCHANGED <<timeVars, redisVars, owned, seq, released>>
  BY DEF IInv, TypeOK, StartClaim, Running
<1>2. Active(n) \in Operation /\ EntryOK(n, 1) /\ clock[n] \in Nat /\ clock[n] <= rnow + Skew
  <2>1. 1 \in 1..Len(lane[n])
    BY <1>1, EmptySeq DEF TypeOK
  <2> QED
    BY <1>1, <2>1, EntryTyped DEF IInv, LaneInv, Active, ClocksInv, TypeOK
<1>3. CASE Superseded(n)
  <2>1. Settle(n) /\ UNCHANGED <<expiry, gen>>
    BY <1>3 DEF StartClaim
  <2> QED
    BY <1>1, <2>1, QuietSettleIInv
<1>4. CASE ~Superseded(n)
  <2> DEFINE op == [Active(n) EXCEPT !.phase = "set", !.startedAt = clock[n],
                                     !.gen = GenerationAtDispatch(n)]
  <2>1. InvalidateIfLapsed(n) /\ Dispatch(n, op)
    BY <1>4 DEF StartClaim
  <2>6. Active(n).current
    BY <1>4 DEF Superseded
  <2>2. GenerationAtDispatch(n) \in Nat
    BY <1>1 DEF GenerationAtDispatch
  <2>3. op \in Operation
    <3>1. clock[n] \in Int /\ Active(n) \in Operation
      BY <1>2
    <3> QED
      BY <2>2, <3>1 DEF Operation, Phases
  <2>4. /\ op.kind = Active(n).kind /\ op.current = Active(n).current
        /\ op.reply = Active(n).reply /\ op.phase = "set" /\ op.startedAt = clock[n]
    BY <1>2 DEF Operation
  <2>5. Active(n).reply = "pending"
    BY <1>1, <1>2 DEF EntryOK, Active
  <2> HIDE DEF op
  <2> QED
    BY <1>1, <1>2, <2>1, <2>3, <2>4, <2>5, <2>6, DispatchIInv
<1> QED
  BY <1>3, <1>4

LEMMA SetReplyIInv ==
  ASSUME IInv, NEW n \in Node, SetReply(n)
  PROVE  IInv'
<1>1. TypeOK /\ lane[n] # <<>> /\ gen \in [Node -> Nat]
      /\ Active(n).kind = "claim" /\ Active(n).phase # "queued"
      /\ UNCHANGED <<timeVars, redisVars, released>>
  BY DEF IInv, TypeOK, SetReply, Answered, Running
<1>2. Active(n) \in Operation /\ EntryOK(n, 1)
  <2>1. 1 \in 1..Len(lane[n])
    BY <1>1, EmptySeq DEF TypeOK
  <2> QED
    BY <1>1, <2>1, EntryTyped DEF IInv, LaneInv, Active
<1>3. CASE Superseded(n) /\ Settle(n) /\ UNCHANGED localVars
  BY <1>1, <1>3, QuietSettleIInv DEF localVars
<1>4. CASE /\ ~Superseded(n) /\ Active(n).reply = "ok"
           /\ MarkClaimed(n, TRUE, Active(n).startedAt) /\ Settle(n)
  <2>1. Active(n).startedAt \in Int /\ Active(n).current
    BY <1>2, <1>4 DEF Operation, Superseded
  <2> QED
    BY <1>1, <1>4, <2>1, MarkClaimedIInv
<1>5. CASE /\ ~Superseded(n) /\ Active(n).reply = "refused"
           /\ Dispatch(n, [Active(n) EXCEPT !.phase = "get", !.reply = "pending"])
           /\ UNCHANGED localVars
  <2> DEFINE op == [Active(n) EXCEPT !.phase = "get", !.reply = "pending"]
  <2>1. /\ op \in Operation
        /\ op.kind = Active(n).kind /\ op.current = Active(n).current
        /\ op.reply = "pending" /\ op.phase = "get" /\ op.startedAt <= rnow + Skew
    <3>1. Active(n).startedAt <= rnow + Skew
      BY <1>2 DEF EntryOK, Active
    <3>2. op \in Operation
      BY <1>2 DEF Operation, Phases, Replies
    <3>3. /\ op.kind = Active(n).kind /\ op.current = Active(n).current
          /\ op.reply = "pending" /\ op.phase = "get" /\ op.startedAt = Active(n).startedAt
      BY <1>2 DEF Operation
    <3> HIDE DEF op
    <3> QED
      BY <3>1, <3>2, <3>3
  <2>2. Dispatch(n, op)
    BY <1>5
  <2> HIDE DEF op
  <2> QED
    BY <1>1, <1>5, <2>1, <2>2, DispatchIInv DEF localVars
<1> QED
  BY <1>3, <1>4, <1>5 DEF SetReply

LEMMA GetReplyIInv ==
  ASSUME IInv, NEW n \in Node, GetReply(n)
  PROVE  IInv'
<1>1. TypeOK /\ lane[n] # <<>> /\ gen \in [Node -> Nat]
      /\ Active(n).kind = "claim" /\ Active(n).phase # "queued"
      /\ UNCHANGED <<rnow, clock, key, keyExp, owned, expiry, gen, seq, released>>
  BY DEF IInv, TypeOK, GetReply, Answered, Running, timeVars, redisVars, localVars
<1>2. Active(n) \in Operation /\ EntryOK(n, 1)
  <2>1. 1 \in 1..Len(lane[n])
    BY <1>1, EmptySeq DEF TypeOK
  <2> QED
    BY <1>1, <2>1, EntryTyped DEF IInv, LaneInv, Active
<1>3. CASE Dispatch(n, [Active(n) EXCEPT !.phase = "renew", !.reply = "pending"])
  <2> DEFINE op == [Active(n) EXCEPT !.phase = "renew", !.reply = "pending"]
  <2>1. /\ op \in Operation
        /\ op.kind = Active(n).kind /\ op.current = Active(n).current
        /\ op.reply = "pending" /\ op.phase = "renew" /\ op.startedAt <= rnow + Skew
    BY <1>1, <1>2 DEF Operation, Phases, Replies, EntryOK, Active
  <2>2. Dispatch(n, op)
    BY <1>3
  <2> HIDE DEF op
  <2> QED
    BY <1>1, <2>1, <2>2, DispatchIInv DEF timeVars, redisVars
<1>4. CASE Dispatch(n, [Active(n) EXCEPT !.phase = "set", !.retry = TRUE, !.reply = "pending"])
  <2> DEFINE op == [Active(n) EXCEPT !.phase = "set", !.retry = TRUE, !.reply = "pending"]
  <2>1. /\ op \in Operation
        /\ op.kind = Active(n).kind /\ op.current = Active(n).current
        /\ op.reply = "pending" /\ op.phase = "set" /\ op.startedAt <= rnow + Skew
    BY <1>1, <1>2 DEF Operation, Phases, Replies, EntryOK, Active
  <2>2. Dispatch(n, op)
    BY <1>4
  <2> HIDE DEF op
  <2> QED
    BY <1>1, <2>1, <2>2, DispatchIInv DEF timeVars, redisVars
<1>5. CASE Settle(n)
  BY <1>1, <1>5, QuietSettleIInv DEF timeVars, redisVars
<1> QED
  BY <1>3, <1>4, <1>5 DEF GetReply

LEMMA ClaimRenewReplyIInv ==
  ASSUME IInv, NEW n \in Node, ClaimRenewReply(n)
  PROVE  IInv'
<1>1. TypeOK /\ lane[n] # <<>> /\ gen \in [Node -> Nat]
      /\ Active(n).kind = "claim" /\ Settle(n)
      /\ UNCHANGED <<timeVars, redisVars, released>>
  BY DEF IInv, TypeOK, ClaimRenewReply, Answered, Running
<1>2. Active(n) \in Operation
  <2>1. 1 \in 1..Len(lane[n])
    BY <1>1, EmptySeq DEF TypeOK
  <2> QED
    BY <1>1, <2>1, EntryTyped DEF Active
<1>3. CASE Active(n).reply = "ok" /\ ~Superseded(n)
  <2> DEFINE newClaim == gen[n] # Active(n).gen \/ ~HoldsValidLease(n)
  <2>1. MarkClaimed(n, newClaim, Active(n).startedAt)
    BY <1>3 DEF ClaimRenewReply
  <2>2. newClaim \in BOOLEAN /\ Active(n).current
    BY <1>3 DEF Superseded
  <2> HIDE DEF newClaim
  <2> QED
    BY <1>1, <1>3, <2>1, <2>2, MarkClaimedIInv
<1>4. CASE ~(Active(n).reply = "ok" /\ ~Superseded(n))
  <2>1. UNCHANGED localVars
    BY <1>4 DEF ClaimRenewReply
  <2> QED
    BY <1>1, <2>1, QuietSettleIInv DEF localVars
<1> QED
  BY <1>3, <1>4

LEMMA StartRenewalIInv ==
  ASSUME IInv, NEW n \in Node, StartRenewal(n)
  PROVE  IInv'
<1>1. TypeOK /\ lane[n] # <<>> /\ gen \in [Node -> Nat]
      /\ Active(n).kind = "renewal" /\ Active(n).phase = "queued"
      /\ UNCHANGED <<timeVars, redisVars, owned, seq, released>>
  BY DEF IInv, TypeOK, StartRenewal, Running
<1>2. Active(n) \in Operation /\ EntryOK(n, 1) /\ clock[n] \in Nat /\ clock[n] <= rnow + Skew
  <2>1. 1 \in 1..Len(lane[n])
    BY <1>1, EmptySeq DEF TypeOK
  <2> QED
    BY <1>1, <2>1, EntryTyped DEF IInv, LaneInv, Active, ClocksInv, TypeOK
<1>3. CASE Superseded(n) \/ ~owned[n]
  <2>1. Settle(n) /\ UNCHANGED <<expiry, gen>>
    BY <1>3 DEF StartRenewal
  <2> QED
    BY <1>1, <2>1, QuietSettleIInv
<1>4. CASE ~(Superseded(n) \/ ~owned[n])
  <2> DEFINE op == [Active(n) EXCEPT !.phase = "renew", !.startedAt = clock[n],
                                     !.gen = GenerationAtDispatch(n)]
  <2>1. InvalidateIfLapsed(n) /\ Dispatch(n, op)
    BY <1>4 DEF StartRenewal
  <2>2. GenerationAtDispatch(n) \in Nat
    BY <1>1 DEF GenerationAtDispatch
  <2>3. op \in Operation
    <3>1. clock[n] \in Int /\ Active(n) \in Operation
      BY <1>2
    <3> QED
      BY <2>2, <3>1 DEF Operation, Phases
  <2>4. /\ op.kind = Active(n).kind /\ op.current = Active(n).current
        /\ op.reply = Active(n).reply /\ op.phase = "renew" /\ op.startedAt = clock[n]
    BY <1>2 DEF Operation
  <2>5. Active(n).reply = "pending"
    BY <1>1, <1>2 DEF EntryOK, Active
  <2> HIDE DEF op
  <2> QED
    BY <1>1, <1>2, <2>1, <2>3, <2>4, <2>5, DispatchIInv
<1> QED
  BY <1>3, <1>4

LEMMA RenewalReplyIInv ==
  ASSUME IInv, NEW n \in Node, RenewalReply(n)
  PROVE  IInv'
<1>1. TypeOK /\ lane[n] # <<>> /\ gen \in [Node -> Nat]
      /\ Active(n).kind = "renewal" /\ Settle(n)
      /\ UNCHANGED <<timeVars, redisVars, released>>
  BY DEF IInv, TypeOK, RenewalReply, Answered, Running
<1>2. Active(n) \in Operation
  <2>1. 1 \in 1..Len(lane[n])
    BY <1>1, EmptySeq DEF TypeOK
  <2> QED
    BY <1>1, <2>1, EntryTyped DEF Active
<1>3. CASE UNCHANGED localVars
  BY <1>1, <1>3, QuietSettleIInv DEF localVars
<1>4. CASE /\ ~Superseded(n) /\ owned[n] /\ Active(n).reply = "ok"
           /\ MarkClaimed(n, ~HoldsValidLease(n), Active(n).startedAt)
  <2> DEFINE newClaim == ~HoldsValidLease(n)
  <2>1. MarkClaimed(n, newClaim, Active(n).startedAt) /\ newClaim \in BOOLEAN
    BY <1>4
  <2>2. Active(n).current
    BY <1>4 DEF Superseded
  <2> HIDE DEF newClaim
  <2> QED
    BY <1>1, <1>4, <2>1, <2>2, MarkClaimedIInv
<1>5. CASE /\ owned' = [owned EXCEPT ![n] = FALSE]
           /\ expiry' = [expiry EXCEPT ![n] = NoLease]
           /\ gen' = [gen EXCEPT ![n] = 0]
           /\ UNCHANGED seq
  BY <1>1, <1>5, QuietSettleIInv
<1> QED
  BY <1>3, <1>4, <1>5 DEF RenewalReply

LEMMA StartReleaseIInv ==
  ASSUME IInv, NEW n \in Node, StartRelease(n)
  PROVE  IInv'
<1>1. TypeOK /\ lane[n] # <<>>
      /\ Active(n).kind = "release" /\ Active(n).phase = "queued"
      /\ UNCHANGED <<timeVars, redisVars, owned, expiry, gen, seq, released>>
  BY DEF IInv, StartRelease, Running, localVars
<1>2. Active(n) \in Operation /\ EntryOK(n, 1)
  <2>1. 1 \in 1..Len(lane[n])
    BY <1>1, EmptySeq DEF TypeOK
  <2> QED
    BY <1>1, <2>1, EntryTyped DEF IInv, LaneInv, Active
<1> DEFINE op == [Active(n) EXCEPT !.phase = "delete"]
<1>3. /\ op \in Operation
      /\ op.kind = Active(n).kind /\ op.current = Active(n).current
      /\ op.reply = "pending" /\ op.phase = "delete" /\ op.startedAt <= rnow + Skew
  <2>1. Active(n).startedAt <= rnow + Skew /\ Active(n).reply = "pending"
    BY <1>1, <1>2 DEF EntryOK, Active
  <2>2. op \in Operation
    BY <1>2 DEF Operation, Phases
  <2>3. /\ op.kind = Active(n).kind /\ op.current = Active(n).current
        /\ op.reply = Active(n).reply /\ op.phase = "delete"
        /\ op.startedAt = Active(n).startedAt
    BY <1>2 DEF Operation
  <2> HIDE DEF op
  <2> QED
    BY <2>1, <2>2, <2>3
<1>4. Dispatch(n, op)
  BY DEF StartRelease
<1> HIDE DEF op
<1> QED
  BY <1>1, <1>3, <1>4, DispatchIInv

LEMMA ReleaseReplyIInv ==
  ASSUME IInv, NEW n \in Node, ReleaseReply(n)
  PROVE  IInv'
<1>1. /\ lane[n] # <<>> /\ Settle(n)
      /\ Active(n).kind = "release" /\ Active(n).reply # "pending"
      /\ released' = [released EXCEPT ![n] = NoCurrentClaim(n)]
      /\ UNCHANGED <<timeVars, redisVars, owned, expiry, gen, seq>>
  BY DEF ReleaseReply, Answered, Running, localVars
<1>2. gen' \in [Node -> Nat]
  BY <1>1 DEF IInv, TypeOK
<1> QED
  BY <1>1, <1>2, QuietSettleIInv

LEMMA IoFailsIInv ==
  ASSUME IInv, NEW n \in Node, IoFails(n)
  PROVE  IInv'
<1>1. /\ lane[n] # <<>> /\ Settle(n)
      /\ UNCHANGED <<timeVars, redisVars, owned, expiry, gen, seq, released>>
  BY DEF IoFails, localVars
<1>2. gen' \in [Node -> Nat]
  BY <1>1 DEF IInv, TypeOK
<1> QED
  BY <1>1, <1>2, QuietSettleIInv

-----------------------------------------------------------------------------
(* Each action keeps the inductive invariant: Redis. *)

(* What every answer of Redis has in common: the head keeps all but its    *)
(* reply, other lanes stay, and no local state moves.                      *)
LEMMA AnswerFacts ==
  ASSUME IInv, NEW n \in Node, lane[n] # <<>>, NEW reply \in Replies, Answer(n, reply)
  PROVE  /\ lane' \in [Node -> Seq(Operation)]
         /\ Len(lane[n]) \in Nat \ {0}
         /\ Len(lane'[n]) = Len(lane[n])
         /\ lane'[n][1] = [lane[n][1] EXCEPT !.reply = reply]
         /\ lane[n][1] \in Operation
         /\ \A i \in 2..Len(lane[n]) : lane'[n][i] = lane[n][i]
         /\ \A m \in Node \ {n} : lane'[m] = lane[m]
<1> DEFINE op == [lane[n][1] EXCEPT !.reply = reply]
<1>1. TypeOK /\ lane' = [lane EXCEPT ![n][1] = op]
  BY DEF IInv, Answer
<1>2. lane[n][1] \in Operation
  <2>1. 1 \in 1..Len(lane[n])
    BY <1>1, EmptySeq DEF TypeOK
  <2> QED
    BY <1>1, <2>1, EntryTyped
<1>3. op \in Operation
  BY <1>2 DEF Operation
<1> HIDE DEF op
<1>4. /\ lane' \in [Node -> Seq(Operation)]
      /\ Len(lane[n]) \in Nat \ {0}
      /\ Len(lane'[n]) = Len(lane[n])
      /\ lane'[n][1] = op
      /\ \A i \in 2..Len(lane[n]) : lane'[n][i] = lane[n][i]
      /\ \A m \in Node \ {n} : lane'[m] = lane[m]
  BY <1>1, <1>3, ReplaceHead
<1> QED
  BY <1>2, <1>4 DEF op

(* An answer keeps the lanes in order if the key's move is one the other   *)
(* nodes do not notice and an "ok" is backed by the key as it is left.     *)
LEMMA AnswerKeepsLanes ==
  ASSUME IInv, NEW n \in Node, lane[n] # <<>>, NEW reply \in Replies, Answer(n, reply),
         Active(n).phase # "queued",
         UNCHANGED <<timeVars, localVars>>,
         reply = "ok" /\ Active(n).kind # "release" => key' = n /\ keyExp' >= rnow + Ttl,
         Active(n).kind = "release" => key' # n,
         keyExp' \in Nat,
         \A m \in Node \ {n} : key # m => key' # m,
         \A m \in Node \ {n} : \A e \in Int :
           (rnow + Skew >= e \/ (key = m /\ keyExp + Skew >= e))
             => (rnow' + Skew >= e \/ (key' = m /\ keyExp' + Skew >= e))
  PROVE  LaneInv'
<1>1. TypeOK /\ LaneInv /\ rnow \in Nat /\ UNCHANGED <<rnow, owned, expiry>>
  BY DEF IInv, TypeOK, timeVars, localVars
<1>2. /\ Len(lane[n]) \in Nat \ {0}
      /\ Len(lane'[n]) = Len(lane[n])
      /\ lane'[n][1] = [lane[n][1] EXCEPT !.reply = reply]
      /\ lane[n][1] \in Operation
      /\ \A i \in 2..Len(lane[n]) : lane'[n][i] = lane[n][i]
      /\ \A m \in Node \ {n} : lane'[m] = lane[m]
  BY AnswerFacts
<1>3. /\ lane'[n][1].kind = lane[n][1].kind
      /\ lane'[n][1].phase = lane[n][1].phase
      /\ lane'[n][1].startedAt = lane[n][1].startedAt
      /\ lane'[n][1].reply = reply
      /\ lane'[n][1].current = lane[n][1].current
      /\ lane[n][1].startedAt \in Int
  BY <1>2 DEF Operation
<1> SUFFICES ASSUME NEW m \in Node, NEW i \in 1..Len(lane'[m]) PROVE EntryOK(m, i)'
  BY DEF LaneInv
<1>4. CASE m # n
  <2>1. /\ lane'[m] = lane[m] /\ owned'[m] = owned[m] /\ expiry'[m] = expiry[m]
        /\ rnow <= rnow' /\ rnow' \in Nat /\ (key # m => key' # m)
    BY <1>1, <1>2, <1>4
  <2> QED
    BY <1>1, <1>4, <2>1, LaneStays
<1>5. CASE m = n /\ i = 1
  <2>1. EntryOK(n, 1)
    BY <1>1, <1>2 DEF LaneInv
  <2>2. lane[n][1].kind # "release" /\ reply = "ok"
          => key' = n /\ keyExp' + Skew >= lane[n][1].startedAt + Ttl
    <3>1. lane[n][1].startedAt <= rnow + Skew
      BY <2>1 DEF EntryOK
    <3> QED
      BY <1>1, <1>3, <3>1, TimingFacts, TimingAssumption DEF Active
  <2>3. lane[n][1].phase # "queued" /\ (lane[n][1].kind = "release" => key' # n)
    BY DEF Active
  <2>4. EntryOK(n, 1)'
    BY <1>1, <1>3, <2>1, <2>2, <2>3 DEF EntryOK, Backed
  <2> QED
    BY <1>5, <2>4
<1>6. CASE m = n /\ i \in 2..Len(lane[n])
  <2>1. EntryOK(n, i) /\ lane'[n][i] = lane[n][i] /\ i > 1
    BY <1>1, <1>2, <1>6 DEF LaneInv
  <2>2. \A j \in 1..(i - 1) : lane'[n][j].current = lane[n][j].current
    <3> SUFFICES ASSUME NEW j \in 1..(i - 1)
                 PROVE  lane'[n][j].current = lane[n][j].current
      OBVIOUS
    <3>1. CASE j = 1
      BY <1>3, <3>1
    <3>2. CASE j \in 2..Len(lane[n])
      BY <1>2, <3>2
    <3> QED
      BY <1>2, <1>6, <3>1, <3>2
  <2>3. EntryOK(n, i)'
    BY <1>1, <2>1, <2>2 DEF EntryOK
  <2> QED
    BY <1>6, <2>3
<1> QED
  BY <1>2, <1>4, <1>5, <1>6

(* The other parts of the invariant under an answer.                       *)
LEMMA AnswerIInv ==
  ASSUME IInv, NEW n \in Node, lane[n] # <<>>, NEW reply \in Replies, Answer(n, reply),
         UNCHANGED <<timeVars, localVars, released>>,
         LaneInv',
         key' \in Node \cup {NoNode}, keyExp' \in Nat, keyExp' <= rnow + Ttl,
         \A m \in Node : released[m] => key' # m,
         \A m \in Node : expiry[m] # NoLease /\ Backed(m, expiry[m]) =>
           (rnow + Skew >= expiry[m] \/ (key' = m /\ keyExp' + Skew >= expiry[m]))
  PROVE  IInv'
<1>1. /\ TypeOK /\ ClocksInv /\ LeaseInv /\ ReleasedInv
      /\ UNCHANGED <<rnow, clock, owned, expiry, gen, seq, released>>
  BY DEF IInv, timeVars, localVars
<1>2. /\ lane' \in [Node -> Seq(Operation)]
      /\ Len(lane[n]) \in Nat \ {0}
      /\ Len(lane'[n]) = Len(lane[n])
      /\ lane'[n][1] = [lane[n][1] EXCEPT !.reply = reply]
      /\ lane[n][1] \in Operation
      /\ \A i \in 2..Len(lane[n]) : lane'[n][i] = lane[n][i]
      /\ \A m \in Node \ {n} : lane'[m] = lane[m]
  BY AnswerFacts
<1>3. TypeOK'
  BY <1>1, <1>2 DEF TypeOK
<1>4. ClocksInv' /\ LeaseInv'
  BY <1>1 DEF ClocksInv, LeaseInv, Backed, Ttl
<1>5. ReleasedInv'
  <2>1. /\ lane'[n][1].kind = lane[n][1].kind
        /\ lane'[n][1].phase = lane[n][1].phase
        /\ lane'[n][1].current = lane[n][1].current
    BY <1>2 DEF Operation
  <2>2. \A m \in Node : Len(lane'[m]) = Len(lane[m])
    BY <1>2
  <2>3. \A m \in Node : \A i \in 1..Len(lane[m]) : DeadClaim(lane[m][i]) => DeadClaim(lane'[m][i])
    <3> SUFFICES ASSUME NEW m \in Node, NEW i \in 1..Len(lane[m]), DeadClaim(lane[m][i])
                 PROVE  DeadClaim(lane'[m][i])
      OBVIOUS
    <3>1. CASE m # n
      BY <1>2, <3>1
    <3>2. CASE m = n /\ i = 1
      BY <2>1, <3>2 DEF DeadClaim
    <3>3. CASE m = n /\ i \in 2..Len(lane[n])
      BY <1>2, <3>3
    <3> QED
      BY <1>2, <3>1, <3>2, <3>3
  <2> SUFFICES ASSUME NEW m \in Node, released[m], NEW i \in 1..Len(lane'[m])
               PROVE  DeadClaim(lane'[m][i])
    BY <1>1 DEF ReleasedInv, DeadClaim
  <2> QED
    BY <1>1, <2>2, <2>3 DEF ReleasedInv
<1> QED
  BY <1>3, <1>4, <1>5 DEF IInv

LEMMA RedisIInv ==
  ASSUME IInv, NEW n \in Node, Redis(n)
  PROVE  IInv'
<1>1. /\ TypeOK /\ ClocksInv /\ LeaseInv /\ LaneInv /\ ReleasedInv
      /\ rnow \in Nat /\ keyExp \in Nat /\ key \in Node \cup {NoNode}
      /\ keyExp <= rnow + Ttl /\ Ttl \in Nat /\ Skew \in Nat
      /\ expiry \in [Node -> Int]
  BY TimingFacts, TimingAssumption DEF IInv, TypeOK, ClocksInv
<1>2. lane[n] # <<>> /\ Active(n).phase # "queued" /\ UNCHANGED <<rnow, timeVars, localVars, released>>
  BY DEF Redis, RedisSet, RedisGet, RedisRenew, RedisDelete, Unanswered, timeVars
<1>3. EntryOK(n, 1) /\ Active(n).kind \in Kinds
  <2>1. 1 \in 1..Len(lane[n])
    BY <1>1, <1>2, EmptySeq DEF TypeOK
  <2>2. Active(n) \in Operation /\ EntryOK(n, 1)
    BY <1>1, <2>1, EntryTyped DEF LaneInv, Active
  <2> QED
    BY <2>2 DEF Operation
<1>4. ~(\E m \in Node : m = NoNode)
  BY NodeAssumption
<1>5. ASSUME UNCHANGED redisVars, NEW reply \in Replies \ {"ok"}, Answer(n, reply),
             Active(n).kind # "release"
      PROVE  IInv'
  <2>1. key' = key /\ keyExp' = keyExp
    BY <1>5 DEF redisVars
  <2>2. LaneInv'
    BY <1>1, <1>2, <1>5, <2>1, AnswerKeepsLanes
  <2>3. \A m \in Node : released[m] => key' # m
    BY <1>1, <2>1 DEF ReleasedInv
  <2>4. \A m \in Node : expiry[m] # NoLease /\ Backed(m, expiry[m]) =>
          (rnow + Skew >= expiry[m] \/ (key' = m /\ keyExp' + Skew >= expiry[m]))
    BY <2>1 DEF Backed
  <2> QED
    BY <1>1, <1>2, <1>5, <2>1, <2>2, <2>3, <2>4, AnswerIInv
<1>6. ASSUME Answer(n, "ok"), Active(n).kind # "release", key \in {n, NoNode},
             key' = n, keyExp' = rnow + Ttl, ~released[n]
      PROVE  IInv'
  <2>1. "ok" \in Replies /\ keyExp' \in Nat /\ keyExp' >= rnow + Ttl
    BY <1>1, <1>6 DEF Replies
  <2>2. \A m \in Node \ {n} : \A e \in Int :
          (rnow + Skew >= e \/ (key = m /\ keyExp + Skew >= e))
            => (rnow' + Skew >= e \/ (key' = m /\ keyExp' + Skew >= e))
    BY <1>2, <1>4, <1>6
  <2>3. LaneInv'
    BY <1>2, <1>6, <2>1, <2>2, AnswerKeepsLanes
  <2>4. \A m \in Node : released[m] => key' # m
    BY <1>6
  <2>5. \A m \in Node : expiry[m] # NoLease /\ Backed(m, expiry[m]) =>
          (rnow + Skew >= expiry[m] \/ (key' = m /\ keyExp' + Skew >= expiry[m]))
    BY <1>1, <1>4, <1>6 DEF Backed
  <2> QED
    BY <1>1, <1>2, <1>6, <2>1, <2>3, <2>4, <2>5, AnswerIInv
<1>7. ASSUME Active(n).kind = "claim" \/ Active(n).phase = "renew"
      PROVE  Active(n).kind # "release"
  BY <1>3, <1>7 DEF EntryOK, Active
<1>8. CASE RedisSet(n)
  <2>1. Active(n).kind = "claim"
    BY <1>3, <1>8 DEF RedisSet, Unanswered, EntryOK, Active
  <2>2. ~released[n]
    <3>1. 1 \in 1..Len(lane[n])
      BY <1>1, <1>2, EmptySeq DEF TypeOK
    <3> QED
      BY <1>1, <1>2, <2>1, <3>1 DEF ReleasedInv, DeadClaim, Active
  <2>3. CASE key = NoNode
    BY <1>6, <1>8, <2>1, <2>2, <2>3 DEF RedisSet
  <2>4. CASE key # NoNode
    BY <1>5, <1>8, <2>1, <2>4 DEF RedisSet, Replies
  <2> QED
    BY <2>3, <2>4
<1>9. CASE RedisGet(n)
  <2>1. Active(n).kind = "claim"
    BY <1>3, <1>9 DEF RedisGet, Unanswered, EntryOK, Active
  <2>2. PICK reply \in {"absent", "ours", "others"} : Answer(n, reply)
    BY <1>9 DEF RedisGet
  <2>3. reply \in Replies \ {"ok"} /\ UNCHANGED redisVars
    BY <1>9 DEF RedisGet, Replies
  <2> QED
    BY <1>5, <2>1, <2>2, <2>3
<1>10. CASE RedisRenew(n)
  <2>1. Active(n).kind # "release" /\ UNCHANGED key
    BY <1>3, <1>10 DEF RedisRenew, Unanswered, EntryOK, Active
  <2>2. CASE key = n
    <3>1. ~released[n]
      BY <1>1, <2>2 DEF ReleasedInv
    <3> QED
      BY <1>6, <1>10, <2>1, <2>2, <3>1 DEF RedisRenew
  <2>3. CASE key # n
    BY <1>5, <1>10, <2>1, <2>3 DEF RedisRenew, Replies, redisVars
  <2> QED
    BY <2>2, <2>3
<1>11. CASE RedisDelete(n)
  <2>1. /\ Answer(n, "ok") /\ "ok" \in Replies
        /\ Active(n).kind = "release" /\ expiry[n] = NoLease
    BY <1>3, <1>11 DEF RedisDelete, Unanswered, Replies, EntryOK, Active
  <2>2. /\ key' # n /\ keyExp' \in Nat /\ key' \in Node \cup {NoNode}
        /\ keyExp' <= rnow + Ttl
        /\ key # n => key' = key /\ keyExp' = keyExp
        /\ key = n => key' = NoNode
    BY <1>1, <1>4, <1>11 DEF RedisDelete, redisVars
  <2>3. \A m \in Node \ {n} : \A e \in Int :
          (rnow + Skew >= e \/ (key = m /\ keyExp + Skew >= e))
            => (rnow' + Skew >= e \/ (key' = m /\ keyExp' + Skew >= e))
    BY <1>2, <2>2
  <2>4. \A m \in Node \ {n} : key # m => key' # m
    BY <1>4, <2>2
  <2>5. LaneInv'
    BY <1>2, <2>1, <2>2, <2>3, <2>4, AnswerKeepsLanes
  <2>6. \A m \in Node : released[m] => key' # m
    BY <1>1, <2>2, <2>4 DEF ReleasedInv
  <2>7. \A m \in Node : expiry[m] # NoLease /\ Backed(m, expiry[m]) =>
          (rnow + Skew >= expiry[m] \/ (key' = m /\ keyExp' + Skew >= expiry[m]))
    BY <2>1, <2>2 DEF Backed
  <2> QED
    BY <1>2, <2>1, <2>2, <2>5, <2>6, <2>7, AnswerIInv
<1> QED
  BY <1>8, <1>9, <1>10, <1>11 DEF Redis

-----------------------------------------------------------------------------
(* Each action keeps the inductive invariant: the environment. *)

LEMMA RestartIInv ==
  ASSUME IInv, NEW n \in Node, Restart(n)
  PROVE  IInv'
<1>1. /\ TypeOK /\ ClocksInv /\ LeaseInv /\ LaneInv /\ ReleasedInv
      /\ UNCHANGED <<rnow, clock, key, keyExp, released>>
      /\ owned' = [owned EXCEPT ![n] = FALSE]
      /\ expiry' = [expiry EXCEPT ![n] = NoLease]
      /\ gen' = [gen EXCEPT ![n] = 0] /\ seq' = [seq EXCEPT ![n] = 0]
      /\ lane' = [lane EXCEPT ![n] = <<>>]
  BY DEF IInv, Restart, timeVars, redisVars
<1>a. <<>> \in Seq(Operation) /\ NoLease \in Int /\ 0 \in Nat
  BY EmptySeq DEF NoLease
<1>b. lane' \in [Node -> Seq(Operation)]
  BY <1>1, <1>a DEF TypeOK
<1>c. /\ owned' \in [Node -> BOOLEAN] /\ expiry' \in [Node -> Int]
      /\ gen' \in [Node -> Nat] /\ seq' \in [Node -> Nat]
  BY <1>1, <1>a DEF TypeOK
<1>2. TypeOK'
  BY <1>1, <1>b, <1>c DEF TypeOK
<1>3. ClocksInv' /\ LeaseInv'
  BY <1>1 DEF ClocksInv, LeaseInv, Backed, TypeOK
<1>4. /\ lane'[n] = <<>> /\ ~owned'[n]
      /\ \A m \in Node \ {n} : lane'[m] = lane[m] /\ owned'[m] = owned[m] /\ expiry'[m] = expiry[m]
  BY <1>1 DEF TypeOK
<1>5. LaneInv'
  <2> SUFFICES ASSUME NEW m \in Node, NEW i \in 1..Len(lane'[m]) PROVE EntryOK(m, i)'
    BY DEF LaneInv
  <2>1. m # n
    BY <1>4
  <2>2. /\ lane'[m] = lane[m] /\ owned'[m] = owned[m] /\ expiry'[m] = expiry[m]
        /\ rnow <= rnow' /\ rnow' \in Nat /\ (key # m => key' # m)
    BY <1>1, <1>4, <2>1 DEF TypeOK
  <2> QED
    BY <1>1, <2>2, LaneStays
<1>6. ReleasedInv'
  BY <1>1, <1>4 DEF ReleasedInv
<1> QED
  BY <1>2, <1>3, <1>5, <1>6 DEF IInv

(* Time passes: a key that is dropped had nothing left to back.            *)
LEMMA TickIInv ==
  ASSUME IInv, Tick
  PROVE  IInv'
<1>1. /\ TypeOK /\ ClocksInv /\ LeaseInv /\ LaneInv /\ ReleasedInv
      /\ rnow \in Nat /\ rnow' = rnow + 1 /\ keyExp \in Nat /\ Skew \in Nat /\ Ttl \in Nat
      /\ clock' \in [Node -> rnow + 1 .. rnow + 1 + Skew]
      /\ UNCHANGED <<owned, expiry, gen, seq, lane, released>>
  BY TimingAssumption, TimingFacts DEF IInv, TypeOK, Tick, localVars
<1>2. \/ key' = NoNode /\ keyExp' = 0 /\ keyExp <= rnow + 1
      \/ key' = key /\ keyExp' = keyExp
  BY DEF Tick, redisVars
<1>3. TypeOK'
  BY <1>1, <1>2 DEF TypeOK
<1>4. \A m \in Node : key # m => key' # m
  BY <1>2, NodeAssumption
<1>5. \A m \in Node : \A e \in Int :
        (rnow + Skew >= e \/ (key = m /\ keyExp + Skew >= e))
          => (rnow' + Skew >= e \/ (key' = m /\ keyExp' + Skew >= e))
  BY <1>1, <1>2
<1>6. ClocksInv'
  BY <1>1, <1>2 DEF ClocksInv, Ttl
<1>7. LeaseInv'
  <2> SUFFICES ASSUME NEW m \in Node, expiry[m] # NoLease
               PROVE  rnow' + Skew >= expiry[m] \/ (key' = m /\ keyExp' + Skew >= expiry[m])
    BY <1>1 DEF LeaseInv, Backed
  <2>1. expiry[m] \in Int
    BY <1>1 DEF TypeOK
  <2>2. rnow + Skew >= expiry[m] \/ (key = m /\ keyExp + Skew >= expiry[m])
    BY <1>1 DEF LeaseInv, Backed
  <2> QED
    BY <1>5, <2>1, <2>2
<1>8. LaneInv'
  <2> SUFFICES ASSUME NEW m \in Node, NEW i \in 1..Len(lane'[m]) PROVE EntryOK(m, i)'
    BY DEF LaneInv
  <2>1. /\ TypeOK /\ LaneInv
        /\ lane'[m] = lane[m] /\ owned'[m] = owned[m] /\ expiry'[m] = expiry[m]
    BY <1>1
  <2>2. rnow <= rnow' /\ rnow' \in Nat /\ (key # m => key' # m)
    BY <1>1, <1>4
  <2>3. \A e \in Int : (rnow + Skew >= e \/ (key = m /\ keyExp + Skew >= e))
                       => (rnow' + Skew >= e \/ (key' = m /\ keyExp' + Skew >= e))
    BY <1>5
  <2>4. \A j \in 1..Len(lane'[m]) : EntryOK(m, j)'
    BY <2>1, <2>2, <2>3, LaneStays
  <2> QED
    BY <2>4
<1>9. ReleasedInv'
  BY <1>1, <1>4 DEF ReleasedInv
<1> QED
  BY <1>3, <1>6, <1>7, <1>8, <1>9 DEF IInv

-----------------------------------------------------------------------------
(* The theorems. *)

(* The strengthening of the safety invariants is kept by every step.       *)
THEOREM InductiveInvariant == Spec => []IInv
<1>1. Init => IInv
  BY InitIInv
<1>2. IInv /\ [Next]_vars => IInv'
  <2> SUFFICES ASSUME IInv, [Next]_vars PROVE IInv'
    OBVIOUS
  <2>1. ASSUME NEW n \in Node, Claim(n) \/ RenewGame(n) \/ Release(n) PROVE IInv'
    BY <2>1, ClaimIInv, RenewGameIInv, ReleaseIInv
  <2>2. ASSUME NEW n \in Node, Registry(n) PROVE IInv'
    BY <2>2, StartClaimIInv, SetReplyIInv, GetReplyIInv, ClaimRenewReplyIInv,
       StartRenewalIInv, RenewalReplyIInv, StartReleaseIInv, ReleaseReplyIInv, IoFailsIInv
       DEF Registry
  <2>3. ASSUME NEW n \in Node, Redis(n) PROVE IInv'
    BY <2>3, RedisIInv
  <2>4. ASSUME NEW n \in Node, Restart(n) PROVE IInv'
    BY <2>4, RestartIInv
  <2>5. CASE Tick
    BY <2>5, TickIInv
  <2>6. CASE UNCHANGED vars
    BY <2>6 DEF vars, IInv, TypeOK, ClocksInv, LeaseInv, LaneInv, ReleasedInv, EntryOK, Backed
  <2> QED
    BY <2>1, <2>2, <2>3, <2>4, <2>5, <2>6 DEF Next
<1> QED
  BY <1>1, <1>2, PTL DEF Spec

(* Every variable of the registry and every lane entry keeps its type.     *)
THEOREM TypeCorrect == Spec => []TypeOK
<1>1. IInv => TypeOK
  BY DEF IInv
<1> QED
  BY <1>1, InductiveInvariant, PTL

(* A node that serves from its local lease holds the Redis key, for any    *)
(* clock skew the safety margin covers.                                    *)
THEOREM LeaseSafety ==
  ASSUME Skew <= SafetyMargin
  PROVE  Spec => []LeaseIsBackedByRedis
<1>1. IInv => LeaseIsBackedByRedis
  <2> SUFFICES ASSUME IInv, NEW n \in Node, HoldsValidLease(n) PROVE key = n
    BY DEF LeaseIsBackedByRedis
  <2>1. /\ expiry[n] # NoLease /\ expiry[n] \in Int /\ clock[n] \in Nat
        /\ clock[n] < expiry[n] - SafetyMargin
        /\ rnow <= clock[n] /\ rnow \in Nat
    BY DEF IInv, TypeOK, ClocksInv, HoldsValidLease
  <2>2. rnow + Skew >= expiry[n] \/ key = n
    BY <2>1 DEF IInv, LeaseInv, Backed
  <2> QED
    BY <2>1, <2>2, TimingFacts, TimingAssumption
<1> QED
  BY <1>1, InductiveInvariant, PTL

(* Two nodes never believe at once that they are the authority of a game.  *)
THEOREM MutualExclusion ==
  ASSUME Skew <= SafetyMargin
  PROVE  Spec => []NoSplitBrain
<1>1. LeaseIsBackedByRedis => NoSplitBrain
  BY DEF LeaseIsBackedByRedis, NoSplitBrain
<1> QED
  BY <1>1, LeaseSafety, PTL

(* A finished release leaves no key behind, whatever was in flight when it *)
(* was called.                                                             *)
THEOREM ReleaseSafety == Spec => []ReleaseIsFinal
<1>1. IInv => ReleaseIsFinal
  BY DEF IInv, ReleasedInv, ReleaseIsFinal
<1> QED
  BY <1>1, InductiveInvariant, PTL

(* How one step may treat the tickets of a node: leave them, only let time *)
(* pass, drop the lease, or install one under a generation never issued    *)
(* before, unless the generation was valid up to this very step.           *)
TicketStep(n) ==
  \/ /\ owned'[n] = owned[n] /\ expiry'[n] = expiry[n] /\ gen'[n] = gen[n]
     /\ clock'[n] >= clock[n]
  \/ ~owned'[n] \/ expiry'[n] = NoLease
  \/ gen'[n] = seq[n] + 1
  \/ HoldsValidLease(n) /\ gen'[n] = gen[n]

LEMMA MarkClaimedTickets ==
  ASSUME TypeOK, NEW m \in Node, NEW startedAt, NEW newClaim \in BOOLEAN,
         ~HoldsValidLease(m) => newClaim,
         MarkClaimed(m, newClaim, startedAt), UNCHANGED timeVars,
         NEW n \in Node
  PROVE  TicketStep(n)
<1>1. CASE m # n
  <2>1. /\ owned'[n] = owned[n] /\ expiry'[n] = expiry[n] /\ gen'[n] = gen[n]
    BY <1>1 DEF TypeOK, MarkClaimed
  <2>2. clock'[n] >= clock[n]
    BY DEF TypeOK, timeVars
  <2> QED
    BY <2>1, <2>2 DEF TicketStep
<1>2. CASE m = n /\ newClaim
  BY <1>2 DEF TypeOK, MarkClaimed, TicketStep
<1>3. CASE m = n /\ ~newClaim
  <2>1. HoldsValidLease(n) /\ owned[n]
    BY <1>3 DEF HoldsValidLease
  <2>2. gen'[n] = gen[n] \/ gen'[n] = seq[n] + 1
    BY <1>3 DEF TypeOK, MarkClaimed
  <2> QED
    BY <2>1, <2>2 DEF TicketStep
<1> QED
  BY <1>1, <1>2, <1>3

LEMMA StepTickets ==
  ASSUME TypeOK, [Next]_vars, NEW n \in Node
  PROVE  TicketStep(n)
<1>1. ASSUME UNCHANGED <<timeVars, localVars>> PROVE TicketStep(n)
  BY <1>1 DEF TypeOK, TicketStep, timeVars, localVars
<1>2. ASSUME NEW m \in Node, UNCHANGED <<timeVars, owned>>,
             UNCHANGED <<expiry, gen>> \/ InvalidateIfLapsed(m)
      PROVE  TicketStep(n)
  <2>1. CASE UNCHANGED <<expiry, gen>>
    BY <1>2, <2>1 DEF TypeOK, TicketStep, timeVars
  <2>2. CASE expiry' = [expiry EXCEPT ![m] = NoLease] /\ gen' = [gen EXCEPT ![m] = 0]
    BY <1>2, <2>2 DEF TypeOK, TicketStep, timeVars
  <2> QED
    BY <1>2, <2>1, <2>2 DEF InvalidateIfLapsed
<1>3. ASSUME NEW m \in Node, UNCHANGED timeVars,
             owned' = [owned EXCEPT ![m] = FALSE],
             expiry' = [expiry EXCEPT ![m] = NoLease],
             gen' = [gen EXCEPT ![m] = 0]
      PROVE  TicketStep(n)
  <2>1. CASE m = n
    BY <1>3, <2>1 DEF TypeOK, TicketStep
  <2>2. CASE m # n
    <3>1. /\ owned'[n] = owned[n] /\ expiry'[n] = expiry[n] /\ gen'[n] = gen[n]
      BY <1>3, <2>2 DEF TypeOK
    <3>2. clock'[n] >= clock[n]
      BY <1>3 DEF TypeOK, timeVars
    <3> QED
      BY <3>1, <3>2 DEF TicketStep
  <2> QED
    BY <2>1, <2>2
<1>4. ASSUME NEW m \in Node, Claim(m) \/ RenewGame(m) PROVE TicketStep(n)
  BY <1>1, <1>4 DEF Claim, RenewGame
<1>5. ASSUME NEW m \in Node, Release(m) \/ Restart(m) PROVE TicketStep(n)
  <2>1. /\ UNCHANGED timeVars
        /\ owned' = [owned EXCEPT ![m] = FALSE]
        /\ expiry' = [expiry EXCEPT ![m] = NoLease]
        /\ gen' = [gen EXCEPT ![m] = 0]
    BY <1>5 DEF Release, Restart
  <2> QED
    BY <1>3, <2>1
<1>6. ASSUME NEW m \in Node, StartClaim(m) \/ StartRenewal(m) PROVE TicketStep(n)
  BY <1>2, <1>6 DEF StartClaim, StartRenewal
<1>7. ASSUME NEW m \in Node, SetReply(m) PROVE TicketStep(n)
  <2>1. CASE UNCHANGED localVars
    BY <1>1, <1>7, <2>1 DEF SetReply
  <2>2. CASE MarkClaimed(m, TRUE, Active(m).startedAt)
    BY <1>7, <2>2, MarkClaimedTickets DEF SetReply
  <2> QED
    BY <1>7, <2>1, <2>2 DEF SetReply
<1>8. ASSUME NEW m \in Node, ClaimRenewReply(m) PROVE TicketStep(n)
  <2> DEFINE newClaim == gen[m] # Active(m).gen \/ ~HoldsValidLease(m)
  <2>1. newClaim \in BOOLEAN /\ (~HoldsValidLease(m) => newClaim)
    OBVIOUS
  <2>2. UNCHANGED timeVars /\ (UNCHANGED localVars \/ MarkClaimed(m, newClaim, Active(m).startedAt))
    BY <1>8 DEF ClaimRenewReply
  <2> HIDE DEF newClaim
  <2> QED
    BY <1>1, <2>1, <2>2, MarkClaimedTickets
<1>9. ASSUME NEW m \in Node, RenewalReply(m) PROVE TicketStep(n)
  <2> DEFINE newClaim == ~HoldsValidLease(m)
  <2>1. newClaim \in BOOLEAN /\ (~HoldsValidLease(m) => newClaim) /\ UNCHANGED timeVars
    BY <1>9 DEF RenewalReply
  <2>2. \/ UNCHANGED localVars
        \/ MarkClaimed(m, newClaim, Active(m).startedAt)
        \/ /\ owned' = [owned EXCEPT ![m] = FALSE]
           /\ expiry' = [expiry EXCEPT ![m] = NoLease]
           /\ gen' = [gen EXCEPT ![m] = 0]
    BY <1>9 DEF RenewalReply
  <2> HIDE DEF newClaim
  <2> QED
    BY <1>1, <1>3, <2>1, <2>2, MarkClaimedTickets
<1>10. ASSUME NEW m \in Node, GetReply(m) \/ StartRelease(m) \/ ReleaseReply(m) \/ IoFails(m)
       PROVE  TicketStep(n)
  BY <1>1, <1>10 DEF GetReply, StartRelease, ReleaseReply, IoFails
<1>11. ASSUME NEW m \in Node, Redis(m) PROVE TicketStep(n)
  BY <1>1, <1>11 DEF Redis, RedisSet, RedisGet, RedisRenew, RedisDelete
<1>12. CASE Tick
  <2>1. clock[n] <= clock'[n] /\ clock[n] \in Nat /\ clock'[n] \in Int
    BY <1>12 DEF Tick, TypeOK
  <2>2. UNCHANGED <<owned, expiry, gen>>
    BY <1>12 DEF Tick, localVars
  <2> QED
    BY <2>1, <2>2 DEF TicketStep
<1>13. CASE UNCHANGED vars
  BY <1>1, <1>13 DEF vars, timeVars, localVars
<1> QED
  BY <1>4, <1>5, <1>6, <1>7, <1>8, <1>9, <1>10, <1>11, <1>12, <1>13 DEF Next, Registry

(* A ticket that stopped being current stays so, through any delay of a    *)
(* claim or a renewal: no step gives validity back to an old generation.   *)
THEOREM TicketSafety == Spec => TicketNeverRevives
<1> DEFINE NoRevival ==
      \A n \in Node : \A g \in 1..seq[n] :
        ~IsTicketCurrent(n, g) => ~(g \in 1..seq'[n] /\ IsTicketCurrent(n, g)')
<1>1. TypeOK /\ TypeOK' /\ [Next]_vars => [NoRevival]_vars
  <2> SUFFICES ASSUME TypeOK, TypeOK', [Next]_vars, NEW n \in Node, NEW g \in 1..seq[n],
                      ~IsTicketCurrent(n, g)
               PROVE  ~(g \in 1..seq'[n] /\ IsTicketCurrent(n, g)')
    OBVIOUS
  <2>1. TicketStep(n)
    BY StepTickets
  <2>2. /\ clock[n] \in Nat /\ clock'[n] \in Nat /\ seq[n] \in Nat
        /\ expiry[n] \in Int /\ SafetyMargin \in Nat
    BY TimingFacts DEF TypeOK
  <2>3. SafetyMargin' = SafetyMargin
    BY DEF SafetyMargin, DriftMargin
  <2> QED
    BY <2>1, <2>2, <2>3 DEF TicketStep, IsTicketCurrent, HoldsValidLease
<1>2. Spec => [][NoRevival]_vars
  BY <1>1, TypeCorrect, PTL DEF Spec
<1> QED
  BY <1>2 DEF TicketNeverRevives

=============================================================================

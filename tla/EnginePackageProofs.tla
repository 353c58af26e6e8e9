-------------------------- MODULE EnginePackageProofs --------------------------
(***************************************************************************)
(* What the engine package promises: the scheduler of its queue, for any   *)
(* number of entries and classes, any capacity and any rate of aging; the  *)
(* cache of analyses, for any number of processes, callers, limits and     *)
(* flights; and the pool, for any number of workers and jobs, any limits   *)
(* and any number of faults.                                               *)
(*                                                                         *)
(* The argument for the analyses: a flight is in the map exactly as long   *)
(* as somebody waits for it, so that to abort it when the last one leaves  *)
(* cancels nobody else; and whatever a tier holds claims no more than what *)
(* was searched, and is replaced under the same comparison it is read by.  *)
(*                                                                         *)
(* The argument for the pool: each method of it keeps the same few things  *)
(* (Keeps), whatever its callback does before and after, so that a turn of *)
(* the event loop is a chain of them; only the first warm-up, the success  *)
(* of a spawn and the drain itself go further, each in its own way.        *)
(***************************************************************************)
EXTENDS EnginePackage, SequenceTheorems, FiniteSetTheorems, TLAPS

-----------------------------------------------------------------------------
(* The queue (PriorityScheduler): the inductive invariant. *)

QueueInv == Queue!TypeOK /\ Queue!QueueIsWaiting

-----------------------------------------------------------------------------
(* Lemmas about queues. *)

\* Boosts are counted in whole agings.
LEMMA Division ==
  ASSUME NEW a \in Int, NEW m \in Nat \ {0}
  PROVE  /\ a \div m \in Int
         /\ m * (a \div m) <= a
         /\ a < m * (a \div m) + m
OBVIOUS

LEMMA Multiples ==
  ASSUME NEW a \in Int, NEW b \in Int, NEW m \in Nat \ {0}, a < b
  PROVE  m * a + m <= m * b
<1>1. PICK k \in Nat : b = a + 1 + k
  <2>1. b - a - 1 \in Nat /\ b = a + 1 + (b - a - 1)
    OBVIOUS
  <2> QED
    BY <2>1
<1>2. m * b = m * a + m + m * k
  BY <1>1
<1>3. m * k >= 0
  BY <1>1
<1> QED
  BY <1>2, <1>3

LEMMA DivisionIsMonotone ==
  ASSUME NEW a \in Int, NEW b \in Int, NEW m \in Nat \ {0}, a <= b
  PROVE  a \div m <= b \div m
<1> DEFINE x == a \div m
           y == b \div m
<1>1. x \in Int /\ y \in Int /\ m * x <= a /\ b < m * y + m
  BY Division
<1> HIDE DEF x, y
<1>2. CASE y < x
  <2>1. m * y + m <= m * x
    BY <1>1, <1>2, Multiples
  <2>2. m * y \in Int /\ m * x \in Int
    BY <1>1
  <2> QED
    BY <1>1, <2>1, <2>2
<1>3. x <= y
  BY <1>1, <1>2
<1> QED
  BY <1>3 DEF x, y

LEMMA DivisionBound ==
  ASSUME NEW a \in Int, NEW p \in Nat, NEW m \in Nat \ {0}, a >= p * m
  PROVE  a \div m >= p
<1> DEFINE x == a \div m
<1>1. x \in Int /\ a < m * x + m
  BY Division
<1> HIDE DEF x
<1>2. CASE x < p
  <2>1. m * x + m <= m * p
    BY <1>1, <1>2, Multiples
  <2>2. m * x \in Int /\ m * p \in Int /\ m * p = p * m
    BY <1>1
  <2> QED
    BY <1>1, <2>1, <2>2
<1>3. x >= p
  BY <1>1, <1>2
<1> QED
  BY <1>3 DEF x

\* A removal keeps the other entries in their order.
LEMMA RemovedIndex ==
  ASSUME NEW S, NEW s \in Seq(S), NEW i \in DOMAIN s
  PROVE  /\ Queue!RemoveIndex(s, i) \in Seq(S)
         /\ DOMAIN Queue!RemoveIndex(s, i) = 1..(Len(s) - 1)
         /\ \A k \in 1..(Len(s) - 1) : Queue!RemoveIndex(s, i)[k] = s[IF k < i THEN k ELSE k + 1]
<1>1. /\ Len(s) \in Nat /\ DOMAIN s = 1..Len(s) /\ i \in 1..Len(s)
      /\ \A k \in 1..Len(s) : s[k] \in S
  BY LenProperties, ElementOfSeq
<1> DEFINE t == [k \in 1..(Len(s) - 1) |-> IF k < i THEN s[k] ELSE s[k + 1]]
<1>2. \A k \in 1..(Len(s) - 1) : k \in 1..Len(s) /\ k + 1 \in 1..Len(s)
  BY <1>1
<1>3. t \in [1..(Len(s) - 1) -> S]
  BY <1>1, <1>2
<1>4. Queue!RemoveIndex(s, i) = t
  BY DEF Queue!RemoveIndex
<1>5. \A k \in 1..(Len(s) - 1) : t[k] = s[IF k < i THEN k ELSE k + 1]
  BY <1>1
<1> HIDE DEF t
<1>6. t \in Seq(S)
  <2>1. Len(s) - 1 \in Nat
    BY <1>1
  <2> QED
    BY <1>3, <2>1, SeqDef
<1> QED
  BY <1>3, <1>4, <1>5, <1>6

\* An entry leaves the queue: the others stay, in the order they were pushed.
LEMMA RemovalKeepsOrder ==
  ASSUME QueueInv, NEW i \in DOMAIN items, items' = Queue!RemoveIndex(items, i),
         UNCHANGED <<enqueuedAt, now>>,
         NEW e \in Entry, e = items[i],
         fate' \in [Entry -> {"new", "queued", "refused", "cancelled", "served"}],
         fate'[e] # "queued", \A f \in Entry : f # e => fate'[f] = fate[f]
  PROVE  QueueInv'
<1>1. /\ items \in Seq(Entry) /\ Len(items) \in Nat /\ DOMAIN items = 1..Len(items)
      /\ \A j, k \in DOMAIN items : j < k =>
           items[j] # items[k] /\ enqueuedAt[items[j]] <= enqueuedAt[items[k]]
      /\ \A k \in DOMAIN items : enqueuedAt[items[k]] <= now
      /\ \A f \in Entry : fate[f] = "queued" <=> f \in Queue!Queued
  BY LenProperties DEF QueueInv, Queue!TypeOK, Queue!QueueIsWaiting
<1>2. /\ items' \in Seq(Entry) /\ DOMAIN items' = 1..(Len(items) - 1)
      /\ \A k \in 1..(Len(items) - 1) : items'[k] = items[IF k < i THEN k ELSE k + 1]
  <2>1. items \in Seq(Entry) /\ i \in DOMAIN items
    BY <1>1
  <2>2. /\ Queue!RemoveIndex(items, i) \in Seq(Entry) /\ DOMAIN Queue!RemoveIndex(items, i) = 1..(Len(items) - 1)
        /\ \A k \in 1..(Len(items) - 1) : Queue!RemoveIndex(items, i)[k] = items[IF k < i THEN k ELSE k + 1]
    BY <2>1, RemovedIndex, Zenon
  <2> QED
    BY <2>2
<1> DEFINE Old(k) == IF k < i THEN k ELSE k + 1
<1>3. \A k \in DOMAIN items' : Old(k) \in DOMAIN items /\ Old(k) # i /\ items'[k] = items[Old(k)]
  BY <1>1, <1>2
<1>4. \A j, k \in DOMAIN items' : j < k => Old(j) < Old(k)
  BY <1>1, <1>2
<1>5. \A k \in DOMAIN items : k # i => \E j \in DOMAIN items' : Old(j) = k
  <2> SUFFICES ASSUME NEW k \in DOMAIN items, k # i
               PROVE  \E j \in DOMAIN items' : Old(j) = k
    OBVIOUS
  <2>1. CASE k < i
    <3>1. k \in DOMAIN items' /\ Old(k) = k
      BY <1>1, <1>2, <2>1
    <3> QED
      BY <3>1
  <2>2. CASE k > i
    <3>1. k - 1 \in DOMAIN items' /\ Old(k - 1) = k
      BY <1>1, <1>2, <2>2
    <3> QED
      BY <3>1
  <2> QED
    BY <1>1, <2>1, <2>2
<1> HIDE DEF Old
<1>6. \A k \in DOMAIN items : items[k] = e => k = i
  <2>1. \A k \in DOMAIN items : k < i \/ k = i \/ i < k
    BY <1>1
  <2> QED
    BY <1>1, <2>1
<1>7. \A f : f \in Queue!Queued' <=> f \in Queue!Queued /\ f # e
  <2>1. \A f : f \in Queue!Queued <=> \E k \in DOMAIN items : f = items[k]
    BY DEF Queue!Queued
  <2>2. \A f : f \in Queue!Queued' <=> \E k \in DOMAIN items' : f = items'[k]
    BY DEF Queue!Queued
  <2> QED
    BY <1>3, <1>5, <1>6, <2>1, <2>2
<1>8. Queue!QueueIsWaiting'
  <2>1. \A f \in Entry : fate'[f] = "queued" <=> f \in Queue!Queued'
    BY <1>1, <1>7
  <2>2. \A j, k \in DOMAIN items' : j < k =>
          items'[j] # items'[k] /\ enqueuedAt'[items'[j]] <= enqueuedAt'[items'[k]]
    BY <1>1, <1>3, <1>4
  <2>3. \A k \in DOMAIN items' : enqueuedAt'[items'[k]] <= now'
    BY <1>1, <1>3
  <2> QED
    BY <2>1, <2>2, <2>3 DEF Queue!QueueIsWaiting
<1>9. Queue!TypeOK'
  BY <1>2 DEF QueueInv, Queue!TypeOK
<1> QED
  BY <1>8, <1>9 DEF QueueInv

LEMMA EnqueueStep ==
  ASSUME QueueInv, NEW e \in Entry, Queue!Enqueue(e)
  PROVE  QueueInv'
<1>1. /\ items \in Seq(Entry) /\ Len(items) \in Nat /\ DOMAIN items = 1..Len(items)
      /\ enqueuedAt \in [Entry -> Nat] /\ now \in Nat
      /\ fate \in [Entry -> {"new", "queued", "refused", "cancelled", "served"}]
      /\ \A j, k \in DOMAIN items : j < k =>
           items[j] # items[k] /\ enqueuedAt[items[j]] <= enqueuedAt[items[k]]
      /\ \A k \in DOMAIN items : enqueuedAt[items[k]] <= now
      /\ \A f \in Entry : fate[f] = "queued" <=> f \in Queue!Queued
  BY LenProperties DEF QueueInv, Queue!TypeOK, Queue!QueueIsWaiting
<1>2. fate[e] # "queued" /\ e \notin Queue!Queued /\ now' = now
  BY <1>1 DEF Queue!Enqueue
<1>3. CASE fate' = [fate EXCEPT ![e] = "refused"] /\ UNCHANGED <<items, enqueuedAt>>
  <2>1. Queue!Queued' = Queue!Queued
    BY <1>3 DEF Queue!Queued
  <2>2. Queue!QueueIsWaiting'
    BY <1>1, <1>2, <1>3, <2>1 DEF Queue!QueueIsWaiting
  <2> QED
    BY <1>1, <1>2, <1>3, <2>2 DEF QueueInv, Queue!TypeOK
<1>4. CASE /\ items' = Append(items, e)
           /\ enqueuedAt' = [enqueuedAt EXCEPT ![e] = now]
           /\ fate' = [fate EXCEPT ![e] = "queued"]
  <2>1. /\ items' \in Seq(Entry) /\ DOMAIN items' = 1..(Len(items) + 1)
        /\ \A k \in 1..Len(items) : items'[k] = items[k]
        /\ items'[Len(items) + 1] = e
    BY <1>1, <1>4, AppendProperties, LenProperties
  <2>2. \A k \in DOMAIN items : items[k] \in Entry /\ items[k] # e
    BY <1>1, <1>2, ElementOfSeq DEF Queue!Queued
  <2>3. /\ \A f \in Entry : f # e => enqueuedAt'[f] = enqueuedAt[f] /\ fate'[f] = fate[f]
        /\ enqueuedAt'[e] = now /\ fate'[e] = "queued"
    BY <1>1, <1>4
  <2>4. \A f : f \in Queue!Queued' <=> f \in Queue!Queued \/ f = e
    <3>1. \A f : f \in Queue!Queued <=> \E k \in 1..Len(items) : f = items[k]
      BY <1>1 DEF Queue!Queued
    <3>2. \A f : f \in Queue!Queued' <=> \E k \in 1..(Len(items) + 1) : f = items'[k]
      BY <2>1 DEF Queue!Queued
    <3>3. \A k \in 1..(Len(items) + 1) : k \in 1..Len(items) \/ k = Len(items) + 1
      BY <1>1
    <3>4. 1..Len(items) \subseteq 1..(Len(items) + 1) /\ Len(items) + 1 \in 1..(Len(items) + 1)
      BY <1>1
    <3> QED
      BY <2>1, <3>1, <3>2, <3>3, <3>4
  <2>5. \A k \in DOMAIN items' : k \in DOMAIN items \/ k = Len(items) + 1
    BY <1>1, <2>1
  <2>6. \A k \in DOMAIN items : enqueuedAt'[items'[k]] = enqueuedAt[items[k]] /\ items'[k] = items[k]
    BY <1>1, <2>1, <2>2, <2>3
  <2>7. \A j, k \in DOMAIN items' : j < k =>
          items'[j] # items'[k] /\ enqueuedAt'[items'[j]] <= enqueuedAt'[items'[k]]
    <3> SUFFICES ASSUME NEW j \in DOMAIN items', NEW k \in DOMAIN items', j < k
                 PROVE  items'[j] # items'[k] /\ enqueuedAt'[items'[j]] <= enqueuedAt'[items'[k]]
      OBVIOUS
    <3>1. j \in DOMAIN items
      BY <1>1, <2>1
    <3>2. CASE k \in DOMAIN items
      BY <1>1, <2>6, <3>1, <3>2
    <3>3. CASE k = Len(items) + 1
      BY <1>1, <2>1, <2>2, <2>3, <2>6, <3>1, <3>3
    <3> QED
      BY <2>5, <3>2, <3>3
  <2>8. \A k \in DOMAIN items' : enqueuedAt'[items'[k]] <= now'
    BY <1>1, <1>2, <2>1, <2>3, <2>5, <2>6
  <2>9. \A f \in Entry : fate'[f] = "queued" <=> f \in Queue!Queued'
    BY <1>1, <2>3, <2>4
  <2>10. Queue!TypeOK'
    BY <1>1, <1>2, <1>4, <2>1 DEF Queue!TypeOK
  <2> QED
    BY <2>7, <2>8, <2>9, <2>10 DEF QueueInv, Queue!QueueIsWaiting
<1> QED
  BY <1>3, <1>4 DEF Queue!Enqueue

LEMMA RemovalStep ==
  ASSUME QueueInv, Queue!Dequeue \/ \E e \in Entry : Queue!Cancel(e)
  PROVE  QueueInv'
<1>1. PICK i \in DOMAIN items, fallen \in {"served", "cancelled"} :
        /\ items' = Queue!RemoveIndex(items, i) /\ fate' = [fate EXCEPT ![items[i]] = fallen]
        /\ UNCHANGED <<enqueuedAt, now>>
  BY DEF Queue!Dequeue, Queue!Cancel
<1>2. items[i] \in Entry
  BY <1>1, ElementOfSeq, LenProperties DEF QueueInv, Queue!TypeOK
<1>3. /\ fate' \in [Entry -> {"new", "queued", "refused", "cancelled", "served"}]
      /\ fate'[items[i]] # "queued" /\ \A f \in Entry : f # items[i] => fate'[f] = fate[f]
  BY <1>1, <1>2 DEF QueueInv, Queue!TypeOK
<1>4. PICK e \in Entry : e = items[i]
  BY <1>2
<1> QED
  BY <1>1, <1>3, <1>4, RemovalKeepsOrder

LEMMA TickStep ==
  ASSUME QueueInv, Queue!Tick
  PROVE  QueueInv'
<1>1. /\ items \in Seq(Entry) /\ Len(items) \in Nat /\ DOMAIN items = 1..Len(items)
      /\ \A k \in DOMAIN items : items[k] \in Entry
  BY LenProperties, ElementOfSeq DEF QueueInv, Queue!TypeOK
<1>2. UNCHANGED <<items, enqueuedAt, fate>> /\ now' = now + 1 /\ now \in Nat
      /\ enqueuedAt \in [Entry -> Nat]
  BY DEF Queue!Tick, QueueInv, Queue!TypeOK
<1>3. \A k \in DOMAIN items : enqueuedAt[items[k]] \in Nat /\ enqueuedAt[items[k]] <= now
  BY <1>1, <1>2 DEF QueueInv, Queue!QueueIsWaiting
<1>4. \A k \in DOMAIN items : enqueuedAt[items[k]] <= now + 1
  BY <1>2, <1>3
<1>5. Queue!QueueIsWaiting'
  BY <1>2, <1>4 DEF QueueInv, Queue!QueueIsWaiting, Queue!Queued
<1>6. Queue!TypeOK'
  BY <1>2 DEF QueueInv, Queue!TypeOK
<1> QED
  BY <1>5, <1>6 DEF QueueInv

LEMMA InitIsInductive == Queue!Init => QueueInv
<1> SUFFICES ASSUME Queue!Init
             PROVE  QueueInv
  OBVIOUS
<1>1. items \in Seq(Entry) /\ DOMAIN items = {} /\ Queue!Queued = {}
  BY EmptySeq, LenProperties DEF Queue!Init, Queue!Queued
<1> QED
  BY <1>1 DEF Queue!Init, QueueInv, Queue!TypeOK, Queue!QueueIsWaiting

LEMMA StepIsInductive == QueueInv /\ [Queue!Next]_(Queue!vars) => QueueInv'
<1> SUFFICES ASSUME QueueInv, [Queue!Next]_(Queue!vars)
             PROVE  QueueInv'
  OBVIOUS
<1>1. CASE UNCHANGED Queue!vars
  BY <1>1 DEF Queue!vars, QueueInv, Queue!TypeOK, Queue!QueueIsWaiting, Queue!Queued
<1> QED
  BY <1>1, EnqueueStep, RemovalStep, TickStep DEF Queue!Next

-----------------------------------------------------------------------------
(* Who is served next. *)

\* A step serves one entry, the best of those that wait.
LEMMA Served ==
  ASSUME QueueInv, [Queue!Next]_(Queue!vars), NEW e \in Entry, NEW f \in Entry, Queue!Serves(e), Queue!Stays(f)
  PROVE  \E i, k \in DOMAIN items : items[i] = e /\ items[k] = f /\ Queue!Before(i, k)
<1>1. fate \in [Entry -> {"new", "queued", "refused", "cancelled", "served"}]
  BY DEF QueueInv, Queue!TypeOK
<1>2. Queue!Dequeue
  <2>1. ~UNCHANGED fate
    BY DEF Queue!Serves
  <2>2. ~ \E g \in Entry : Queue!Enqueue(g)
    BY <1>1 DEF Queue!Serves, Queue!Enqueue
  <2>3. ~ \E g \in Entry : Queue!Cancel(g)
    BY <1>1 DEF Queue!Serves, Queue!Cancel
  <2> QED
    BY <2>1, <2>2, <2>3 DEF Queue!Next, Queue!Tick, Queue!vars
<1>3. PICK i \in DOMAIN items : Queue!Best(i) /\ fate' = [fate EXCEPT ![items[i]] = "served"]
  BY <1>2 DEF Queue!Dequeue
<1>4. items[i] = e
  BY <1>1, <1>3 DEF Queue!Serves
<1>5. PICK k \in DOMAIN items : items[k] = f
  BY DEF Queue!Stays, QueueInv, Queue!QueueIsWaiting, Queue!Queued
<1> QED
  BY <1>3, <1>4, <1>5 DEF Queue!Best

\* What an entry's class is at a time: never negative, and 0 once it waited enough.
LEMMA EffectiveRange ==
  ASSUME Queue!Assumptions, QueueInv, NEW e \in Entry
  PROVE  /\ Queue!Effective(e, now) \in Nat
         /\ Queue!Effective(e, now) = LET boost == (now - enqueuedAt[e]) \div AgingMs
                                IN IF boost >= Priority[e] THEN 0 ELSE Priority[e] - boost
         /\ Queue!Waited(e) >= Priority[e] * AgingMs => Queue!Effective(e, now) = 0
<1>1. /\ Priority[e] \in Nat /\ AgingMs \in Nat \ {0} /\ now \in Nat /\ enqueuedAt[e] \in Nat
  BY DEF Queue!Assumptions, QueueInv, Queue!TypeOK
<1> DEFINE boost == (now - enqueuedAt[e]) \div AgingMs
<1>2. boost \in Int /\ (Queue!Waited(e) >= Priority[e] * AgingMs => boost >= Priority[e])
  <2>1. now - enqueuedAt[e] \in Int /\ Queue!Waited(e) = now - enqueuedAt[e]
    BY <1>1 DEF Queue!Waited
  <2> QED
    BY <1>1, <2>1, Division, DivisionBound
<1>3. Queue!Effective(e, now) = IF boost >= Priority[e] THEN 0 ELSE Priority[e] - boost
  BY DEF Queue!Effective
<1> HIDE DEF boost
<1>4. /\ Queue!Effective(e, now) \in Nat
      /\ Queue!Waited(e) >= Priority[e] * AgingMs => Queue!Effective(e, now) = 0
  BY <1>1, <1>2, <1>3
<1> QED
  BY <1>3, <1>4 DEF boost

LEMMA LongerWaitIsNoWorse ==
  ASSUME Queue!Assumptions, QueueInv, NEW e \in Entry, NEW f \in Entry,
         Priority[f] <= Priority[e], enqueuedAt[f] <= enqueuedAt[e]
  PROVE  Queue!Effective(f, now) <= Queue!Effective(e, now)
<1>1. /\ Priority \in [Entry -> Nat] /\ AgingMs \in Nat \ {0} /\ now \in Nat
      /\ enqueuedAt \in [Entry -> Nat]
  BY DEF Queue!Assumptions, QueueInv, Queue!TypeOK
<1> DEFINE be == (now - enqueuedAt[e]) \div AgingMs
           bf == (now - enqueuedAt[f]) \div AgingMs
<1>2. be \in Int /\ bf \in Int /\ be <= bf
  <2>1. /\ now - enqueuedAt[e] \in Int /\ now - enqueuedAt[f] \in Int
        /\ now - enqueuedAt[e] <= now - enqueuedAt[f]
    BY <1>1
  <2> QED
    BY <1>1, <2>1, Division, DivisionIsMonotone
<1>3. /\ Queue!Effective(e, now) = IF be >= Priority[e] THEN 0 ELSE Priority[e] - be
      /\ Queue!Effective(f, now) = IF bf >= Priority[f] THEN 0 ELSE Priority[f] - bf
  BY DEF Queue!Effective
<1> HIDE DEF be, bf
<1>4. Priority[e] \in Nat /\ Priority[f] \in Nat
  BY <1>1
<1> QED
  BY <1>2, <1>3, <1>4

LEMMA ServiceStep ==
  ASSUME Queue!Assumptions, QueueInv, [Queue!Next]_(Queue!vars), NEW e \in Entry, NEW f \in Entry, Queue!Serves(e), Queue!Stays(f)
  PROVE  /\ Queue!Waited(f) >= Priority[f] * AgingMs => enqueuedAt[e] <= enqueuedAt[f]
         /\ Priority[f] <= Priority[e] => enqueuedAt[e] <= enqueuedAt[f]
<1>1. PICK i \in DOMAIN items, k \in DOMAIN items : items[i] = e /\ items[k] = f /\ Queue!Before(i, k)
  BY Served
<1>2. \/ Queue!Effective(e, now) < Queue!Effective(f, now)
      \/ Queue!Effective(e, now) = Queue!Effective(f, now) /\ enqueuedAt[e] <= enqueuedAt[f]
  <2>1. enqueuedAt[e] \in Nat /\ enqueuedAt[f] \in Nat
    BY DEF QueueInv, Queue!TypeOK
  <2> QED
    BY <1>1, <2>1 DEF Queue!Before
<1>3. /\ Queue!Effective(e, now) \in Nat /\ Queue!Effective(f, now) \in Nat
      /\ Queue!Waited(f) >= Priority[f] * AgingMs => Queue!Effective(f, now) = 0
  BY EffectiveRange
<1>4. enqueuedAt[e] \in Nat /\ enqueuedAt[f] \in Nat
  BY DEF QueueInv, Queue!TypeOK
<1>5. Priority[f] <= Priority[e] /\ enqueuedAt[f] <= enqueuedAt[e] =>
        Queue!Effective(f, now) <= Queue!Effective(e, now)
  BY LongerWaitIsNoWorse
<1> QED
  BY <1>2, <1>3, <1>4, <1>5

-----------------------------------------------------------------------------
(* The theorems about the queue. *)

(* The queue is well typed, and holds each waiting entry once, in the      *)
(* order of pushing, and nothing else: what was served, cancelled or       *)
(* refused has left nothing behind (enqueue, dequeue, cancel).             *)
THEOREM QueueSafety == Queue!Spec => [](Queue!TypeOK /\ QueueIsWaiting)
  BY InitIsInductive, StepIsInductive, PTL DEF Queue!Spec, QueueInv, QueueIsWaiting

(* An entry that has waited its class out is served before everything that *)
(* was pushed later, and otherwise only a longer wait overtakes a better   *)
(* class (effectivePriority, the selection loop of dequeue).               *)
THEOREM ServiceSafety == Queue!Spec => ServiceIsFair
<1>1. Queue!Assumptions
  BY EnginePackageAssumptions
<1>2. QueueInv /\ [Queue!Next]_(Queue!vars) =>
        [\A e \in Entry : Queue!Serves(e) =>
           \A f \in Entry : Queue!Stays(f) /\ Queue!Waited(f) >= Priority[f] * AgingMs
             => enqueuedAt[e] <= enqueuedAt[f]]_(Queue!vars)
  BY <1>1, ServiceStep
<1>3. QueueInv /\ [Queue!Next]_(Queue!vars) =>
        [\A e \in Entry : Queue!Serves(e) =>
           \A f \in Entry : Queue!Stays(f) /\ Priority[f] <= Priority[e]
             => enqueuedAt[e] <= enqueuedAt[f]]_(Queue!vars)
  BY <1>1, ServiceStep
<1>4. Queue!Spec => Queue!ServiceIsFair
  BY <1>2, <1>3, InitIsInductive, StepIsInductive, PTL
     DEF Queue!Spec, Queue!ServiceIsFair, Queue!AgedIsNext, Queue!NoInversion
<1> QED
  BY <1>4 DEF ServiceIsFair

-----------------------------------------------------------------------------
(* Analyses of one position (EnginePackage, AnalysisCache). *)

LEMMA AnalysisConstants ==
  /\ CallerProcess \in [Caller -> Process] /\ Wants \in [Caller -> Limit]
  /\ \A l \in Limit : l.depth \in Nat /\ l.nodes \in Nat /\ l # Nothing
BY EnginePackageAssumptions DEF Analyses!Assumptions

LEMMA SatisfiesItself == \A l \in Limit : Analyses!Satisfies(l, l)
BY AnalysisConstants DEF Analyses!Satisfies

LEMMA SatisfiesMore ==
  \A k, l, m \in Limit : Analyses!Satisfies(k, l) /\ Analyses!Satisfies(l, m) => Analyses!Satisfies(k, m)
BY AnalysisConstants DEF Analyses!Satisfies

FlightRecord ==
  [phase : {"none", "hit", "reading", "read", "computing", "writing"}, proc : Process \cup {Nothing},
   want : Limit \cup {Nothing}, seen : Limit \cup {Nothing}, aborted : BOOLEAN, mapped : BOOLEAN]

CallerRecord ==
  [st : {"new", "waiting", "value", "cancelled", "error"}, flight : Flight \cup {Nothing},
   got : Limit \cup {Nothing}, left : BOOLEAN]

\* What stands of a flight by itself: it is in the map until it is aborted, and what
\* it brings from a tier answers what it is for.
FlightOK(r) ==
  /\ r.phase = "none" => r = Analyses!NoFlight
  /\ r.phase # "none" => r.proc \in Process /\ r.want \in Limit /\ (r.mapped <=> ~r.aborted)
  /\ r.phase = "hit" => r.seen \in Limit /\ Analyses!Satisfies(r.seen, r.want)
  /\ r.phase = "read" /\ r.seen # Nothing => Analyses!Satisfies(r.seen, r.want)
  /\ r.phase = "writing" => r.seen \in Limit

Waiting(c, f) == caller[c].st = "waiting" /\ caller[c].flight = f

\* Who waits has a flight of its request in the map, a flight is in the map while
\* somebody waits, and a request has one such flight in a process.
Flights ==
  /\ search \in [Flight -> FlightRecord] /\ caller \in [Caller -> CallerRecord]
  /\ \A f \in Flight : FlightOK(search[f])
  /\ \A c \in Caller : caller[c].st = "waiting" =>
       /\ caller[c].flight \in Flight /\ search[caller[c].flight].mapped
       /\ search[caller[c].flight].proc = CallerProcess[c] /\ search[caller[c].flight].want = Wants[c]
  /\ \A f \in Flight : search[f].mapped => \E c \in Caller : Waiting(c, f)
  /\ \A f, g \in Flight :
       search[f].mapped /\ search[g].mapped /\ search[f].proc = search[g].proc /\ search[f].want = search[g].want
         => f = g
  /\ \A c \in Caller : caller[c].st = "cancelled" => caller[c].left

HotEntry(h) == h # Nothing => h \in Analyses!Cached /\ Analyses!Satisfies(h.value, h.claim)

Tiers ==
  /\ closed \subseteq Process /\ durable \in Limit \cup {Nothing}
  /\ hot \in [Process -> Analyses!Cached \cup {Nothing}]
  /\ \A p \in Process : HotEntry(hot[p])
  /\ \A p \in closed : hot[p] = Nothing

AnalysisInv == Flights /\ Tiers

\* No tier forgets the better search, but by expiry, eviction or retention.
TiersKeep ==
  /\ durable # Nothing /\ durable' # Nothing => Analyses!Satisfies(durable', durable)
  /\ \A p \in Process : hot[p] # Nothing /\ hot'[p] # Nothing => Analyses!Satisfies(hot'[p].claim, hot[p].claim)

LEMMA NoFlightIs ==
  /\ Analyses!NoFlight \in FlightRecord /\ Analyses!NoFlight.phase = "none" /\ Analyses!NoFlight.mapped = FALSE
  /\ FlightOK(Analyses!NoFlight)
BY DEF Analyses!NoFlight, FlightRecord, FlightOK

LEMMA TiersStand ==
  ASSUME Tiers, UNCHANGED <<hot, closed, durable>>
  PROVE  Tiers' /\ TiersKeep
<1>1. Tiers'
  BY DEF Tiers
<1>2. \A p \in Process : hot[p] # Nothing => hot[p].claim \in Limit
  BY DEF Tiers, HotEntry, Analyses!Cached
<1>3. TiersKeep
  BY <1>2, SatisfiesItself DEF Tiers, TiersKeep
<1> QED BY <1>1, <1>3

\* A store in a hot tier.
LEMMA StoreKeeps ==
  ASSUME Tiers, NEW p \in Process, NEW value \in Limit, NEW claim \in Limit, Analyses!Satisfies(value, claim),
         hot' = Analyses!Store(p, value, claim), UNCHANGED <<closed, durable>>
  PROVE  Tiers' /\ TiersKeep
<1> DEFINE entry == [value |-> value, claim |-> claim]
<1>1. CASE hot' = hot
  BY <1>1, TiersStand
<1>2. CASE hot' # hot
  <2>1. /\ p \notin closed /\ hot' = [hot EXCEPT ![p] = entry]
        /\ hot[p] # Nothing => Analyses!Satisfies(claim, hot[p].claim)
    BY <1>2 DEF Analyses!Store
  <2>2. entry \in Analyses!Cached /\ entry.value = value /\ entry.claim = claim
    BY DEF Analyses!Cached
  <2> HIDE DEF entry
  <2>3. /\ hot' \in [Process -> Analyses!Cached \cup {Nothing}]
        /\ \A q \in Process : hot'[q] = IF q = p THEN entry ELSE hot[q]
    BY <2>1, <2>2 DEF Tiers
  <2>4. \A q \in Process : HotEntry(hot'[q])
    BY <2>2, <2>3 DEF Tiers, HotEntry
  <2>5. \A q \in Process : HotEntry(hot[q])'
    BY <2>4 DEF HotEntry
  <2>6. Tiers'
    BY <2>1, <2>3, <2>5 DEF Tiers
  <2>7. \A q \in Process : hot[q] # Nothing => hot[q].claim \in Limit
    BY DEF Tiers, HotEntry, Analyses!Cached
  <2>8. TiersKeep
    BY <2>1, <2>2, <2>3, <2>7, SatisfiesItself DEF Tiers, TiersKeep
  <2> QED BY <2>6, <2>8
<1> QED BY <1>1, <1>2

LEMMA UpsertKeeps ==
  ASSUME Tiers, NEW value \in Limit, UNCHANGED <<hot, closed>>,
         durable' = durable \/ durable' = Analyses!Upsert(value)
  PROVE  Tiers' /\ TiersKeep
<1>1. Tiers'
  BY DEF Tiers, Analyses!Upsert
<1>2. \A p \in Process : hot[p] # Nothing => hot[p].claim \in Limit
  BY DEF Tiers, HotEntry, Analyses!Cached
<1>3. TiersKeep
  BY <1>2, SatisfiesItself DEF Tiers, TiersKeep, Analyses!Upsert
<1> QED BY <1>1, <1>3

-----------------------------------------------------------------------------
(* What moves a flight or a caller. *)

\* A flight goes on, in the map or out of it as it was.
LEMMA FlightGoesOn ==
  ASSUME Flights, NEW f \in Flight, NEW r \in FlightRecord, search' = [search EXCEPT ![f] = r], UNCHANGED caller,
         FlightOK(r), r.mapped = search[f].mapped, r.proc = search[f].proc, r.want = search[f].want
  PROVE  Flights'
<1>1. /\ search' \in [Flight -> FlightRecord]
      /\ \A g \in Flight : search'[g] = IF g = f THEN r ELSE search[g]
  BY DEF Flights
<1>2. \A g \in Flight : FlightOK(search'[g])
  BY <1>1 DEF Flights
<1>3. \A g \in Flight : FlightOK(search[g])'
  BY <1>2 DEF FlightOK, Analyses!NoFlight
<1>4. \A g \in Flight : /\ search'[g].mapped = search[g].mapped /\ search'[g].proc = search[g].proc
                        /\ search'[g].want = search[g].want
  BY <1>1
<1>5. \A c \in Caller, g \in Flight : Waiting(c, g)' <=> Waiting(c, g)
  BY DEF Waiting
<1> QED BY <1>1, <1>3, <1>4, <1>5 DEF Flights

Answered(u, how, got) == [u EXCEPT !.st = how, !.got = got, !.flight = Nothing]

LEMMA AnsweredIs ==
  ASSUME NEW u \in CallerRecord, NEW how \in {"value", "cancelled", "error"}, NEW got \in Limit \cup {Nothing}
  PROVE  Answered(u, how, got) \in CallerRecord /\ Answered(u, how, got).st = how
BY DEF CallerRecord, Answered

\* A flight ends, and with it the waiting for it.
LEMMA FlightSettles ==
  ASSUME Flights, NEW f \in Flight, NEW how \in {"value", "cancelled", "error"}, NEW got \in Limit \cup {Nothing},
         Analyses!SettleFlight(f, how, got), how = "cancelled" => ~search[f].mapped
  PROVE  Flights'
<1>1. /\ search' \in [Flight -> FlightRecord]
      /\ \A g \in Flight : search'[g] = IF g = f THEN Analyses!NoFlight ELSE search[g]
  BY NoFlightIs DEF Flights, Analyses!SettleFlight, Analyses!Ended
<1>2. \A c \in Caller : c \in Analyses!Consumers(f) <=> Waiting(c, f)
  BY DEF Analyses!Consumers, Waiting
<1>3. /\ DOMAIN caller' = Caller
      /\ \A c \in Caller : Waiting(c, f) => caller'[c] = Answered(caller[c], how, got)
      /\ \A c \in Caller : ~Waiting(c, f) => caller'[c] = caller[c]
  BY <1>2 DEF Analyses!SettleFlight, Answered
<1>4. \A c \in Caller : Waiting(c, f) => caller'[c] \in CallerRecord /\ caller'[c].st = how
  <2>1. \A c \in Caller : caller[c] \in CallerRecord
    BY DEF Flights
  <2> QED BY <1>3, <2>1, AnsweredIs
<1>5. caller' \in [Caller -> CallerRecord]
  <2>1. caller' = [c \in Caller |-> caller'[c]]
    BY DEF Analyses!SettleFlight
  <2>2. \A c \in Caller : caller'[c] \in CallerRecord
    BY <1>3, <1>4 DEF Flights
  <2> QED BY <2>1, <2>2
<1>6. \A g \in Flight : FlightOK(search[g])'
  <2>1. \A g \in Flight : FlightOK(search'[g])
    BY <1>1, NoFlightIs DEF Flights
  <2> QED BY <2>1 DEF FlightOK, Analyses!NoFlight
<1>7. \A c \in Caller, g \in Flight : Waiting(c, g)' <=> Waiting(c, g) /\ g # f
  BY <1>3, <1>4 DEF Waiting
<1>8. \A c \in Caller : caller'[c].st = "waiting" => caller'[c] = caller[c] /\ caller[c].flight # f
  <2>1. \A c \in Caller : caller'[c].st = "waiting" => ~Waiting(c, f)
    BY <1>4
  <2> QED BY <1>3, <2>1 DEF Waiting
<1>9. \A c \in Caller : caller'[c].st = "waiting" =>
       /\ caller'[c].flight \in Flight /\ search'[caller'[c].flight].mapped
       /\ search'[caller'[c].flight].proc = CallerProcess[c] /\ search'[caller'[c].flight].want = Wants[c]
  BY <1>1, <1>8 DEF Flights
<1>10. \A g \in Flight : search'[g].mapped => g # f /\ search[g].mapped
  BY <1>1, NoFlightIs
<1>11. \A g \in Flight : search'[g].mapped => \E c \in Caller : Waiting(c, g)'
  BY <1>7, <1>10 DEF Flights
<1>12. \A g, h \in Flight :
         search'[g].mapped /\ search'[h].mapped /\ search'[g].proc = search'[h].proc /\ search'[g].want = search'[h].want
           => g = h
  BY <1>1, <1>10 DEF Flights
<1>13. \A c \in Caller : caller'[c].st = "cancelled" => caller'[c].left
  <2>1. \A c \in Caller : Waiting(c, f) => how # "cancelled"
    BY DEF Flights, Waiting
  <2> QED BY <1>3, <1>4, <2>1 DEF Flights
<1> QED BY <1>1, <1>5, <1>6, <1>9, <1>11, <1>12, <1>13 DEF Flights

-----------------------------------------------------------------------------
(* The actions, one by one. *)

StartedAs(n, p, want, phase, seen) ==
  [n EXCEPT !.proc = p, !.want = want, !.mapped = TRUE, !.phase = phase, !.seen = seen]

StartedIs(n, p, want, phase, seen) ==
  LET r == StartedAs(n, p, want, phase, seen)
  IN /\ r \in FlightRecord /\ r.proc = p /\ r.want = want /\ r.mapped = TRUE /\ r.aborted = FALSE
     /\ r.phase = phase /\ r.seen = seen

LEMMA Starting ==
  \A n \in FlightRecord : n.aborted = FALSE =>
    \A p \in Process, want \in Limit, phase \in {"hit", "reading"}, seen \in Limit \cup {Nothing} :
      StartedIs(n, p, want, phase, seen)
<1> SUFFICES ASSUME NEW n \in FlightRecord, n.aborted = FALSE, NEW p \in Process, NEW want \in Limit,
                    NEW phase \in {"hit", "reading"}, NEW seen \in Limit \cup {Nothing}
             PROVE  StartedIs(n, p, want, phase, seen)
  OBVIOUS
<1> DEFINE r == StartedAs(n, p, want, phase, seen)
<1>1. r.proc = p /\ r.want = want /\ r.mapped = TRUE
  BY DEF StartedAs, FlightRecord
<1>2. r.aborted = FALSE /\ r.phase = phase /\ r.seen = seen
  BY DEF StartedAs, FlightRecord
<1>3. r \in FlightRecord
  BY DEF StartedAs, FlightRecord
<1> QED BY <1>1, <1>2, <1>3 DEF StartedIs

JoinedAs(u, f) == [u EXCEPT !.st = "waiting", !.flight = f]

LEMMA JoinedIs ==
  ASSUME NEW u \in CallerRecord, NEW f \in Flight
  PROVE  JoinedAs(u, f) \in CallerRecord /\ JoinedAs(u, f).st = "waiting" /\ JoinedAs(u, f).flight = f
BY DEF CallerRecord, JoinedAs

\* A caller joins the flight of its request, or starts it.
LEMMA AnalyzeKeeps ==
  ASSUME AnalysisInv, NEW c \in Caller, Analyses!Analyze(c)
  PROVE  AnalysisInv' /\ TiersKeep
<1> DEFINE p == CallerProcess[c]
           w == Wants[c]
           Mine(g) == search[g].mapped /\ search[g].proc = p /\ search[g].want = w
<1>1. PICK f \in Flight :
        /\ \/ f \in Analyses!Joinable(c) /\ UNCHANGED search
           \/ /\ Analyses!Joinable(c) = {} /\ search[f] = Analyses!NoFlight
              /\ search' = [search EXCEPT ![f] = Analyses!Started(c)]
        /\ caller' = [caller EXCEPT ![c].st = "waiting", ![c].flight = f]
  BY DEF Analyses!Analyze
<1>2. Tiers' /\ TiersKeep
  <2>1. UNCHANGED <<hot, closed, durable>>
    BY DEF Analyses!Analyze
  <2> QED BY <2>1, TiersStand DEF AnalysisInv
<1>3. p \in Process /\ w \in Limit
  BY AnalysisConstants
<1>4. \A g \in Flight : g \in Analyses!Joinable(c) <=> Mine(g)
  BY DEF Analyses!Joinable
<1>5. /\ caller' \in [Caller -> CallerRecord] /\ caller[c].st = "new"
      /\ \A d \in Caller : d # c => caller'[d] = caller[d]
      /\ caller'[c].st = "waiting" /\ caller'[c].flight = f
  <2>1. caller[c] \in CallerRecord /\ caller[c].st = "new" /\ caller \in [Caller -> CallerRecord]
    BY DEF AnalysisInv, Flights, Analyses!Analyze
  <2>2. caller' = [caller EXCEPT ![c] = JoinedAs(caller[c], f)]
    BY <1>1, <2>1 DEF JoinedAs
  <2>3. JoinedAs(caller[c], f) \in CallerRecord /\ JoinedAs(caller[c], f).st = "waiting"
        /\ JoinedAs(caller[c], f).flight = f
    BY <2>1, JoinedIs
  <2> QED BY <2>1, <2>2, <2>3
<1>6. \A d \in Caller, g \in Flight : Waiting(d, g)' <=> Waiting(d, g) \/ (d = c /\ g = f)
  BY <1>5 DEF Waiting
<1>7. \A d \in Caller : caller'[d].st = "cancelled" => caller'[d].left
  BY <1>5 DEF AnalysisInv, Flights
<1>8. CASE Mine(f) /\ UNCHANGED search
  <2>1. \A g \in Flight : FlightOK(search[g])'
    BY <1>8 DEF AnalysisInv, Flights, FlightOK, Analyses!NoFlight
  <2>2. Flights'
    BY <1>5, <1>6, <1>7, <1>8, <2>1 DEF AnalysisInv, Flights
  <2> QED BY <1>2, <2>2 DEF AnalysisInv
<1>9. CASE /\ \A g \in Flight : ~Mine(g)
           /\ search[f] = Analyses!NoFlight /\ search' = [search EXCEPT ![f] = Analyses!Started(c)]
  <2> DEFINE r == Analyses!Started(c)
  <2>1. /\ r \in FlightRecord /\ r.proc = p /\ r.want = w /\ r.mapped = TRUE /\ FlightOK(r)
    <3> DEFINE hit == Analyses!TakeLive(p, w)
               phase == IF hit THEN "hit" ELSE "reading"
               seen == IF hit THEN hot[p].value ELSE Nothing
    <3>1. r = StartedAs(Analyses!NoFlight, p, w, phase, seen)
      BY DEF StartedAs, Analyses!Started
    <3>2. hit => seen \in Limit /\ Analyses!Satisfies(seen, w)
      <4>1. SUFFICES ASSUME hit PROVE seen \in Limit /\ Analyses!Satisfies(seen, w)
        OBVIOUS
      <4>2. hot[p] # Nothing /\ Analyses!Satisfies(hot[p].claim, w) /\ HotEntry(hot[p])
        BY <1>3, <4>1 DEF Analyses!TakeLive, AnalysisInv, Tiers
      <4>3. hot[p].value \in Limit /\ hot[p].claim \in Limit /\ Analyses!Satisfies(hot[p].value, hot[p].claim)
        BY <4>2 DEF HotEntry, Analyses!Cached
      <4>4. Analyses!Satisfies(hot[p].value, w)
        BY <1>3, <4>2, <4>3, SatisfiesMore
      <4> QED BY <4>1, <4>3, <4>4
    <3>3. phase \in {"hit", "reading"} /\ seen \in Limit \cup {Nothing} /\ (phase = "hit" <=> hit)
      BY <3>2
    <3> HIDE DEF hit, phase, seen, r, p, w
    <3>4. r \in FlightRecord /\ r.proc = p /\ r.want = w /\ r.mapped = TRUE /\ r.aborted = FALSE
          /\ r.phase = phase /\ r.seen = seen
      <4>1. Analyses!NoFlight \in FlightRecord /\ Analyses!NoFlight.aborted = FALSE
        BY NoFlightIs DEF Analyses!NoFlight
      <4> DEFINE n == Analyses!NoFlight
      <4> HIDE DEF n
      <4>2. StartedIs(n, p, w, phase, seen)
        BY <1>3, <3>3, <4>1, Starting DEF n
      <4> QED BY <3>1, <4>2 DEF n, StartedIs
    <3>5. FlightOK(r)
      BY <1>3, <3>2, <3>3, <3>4 DEF FlightOK
    <3> QED BY <3>4, <3>5
  <2> HIDE DEF r
  <2>2. /\ search' \in [Flight -> FlightRecord]
        /\ \A g \in Flight : search'[g] = IF g = f THEN r ELSE search[g]
    BY <1>9, <2>1 DEF AnalysisInv, Flights, r
  <2>3. \A g \in Flight : FlightOK(search[g])'
    <3>1. \A g \in Flight : FlightOK(search'[g])
      BY <2>1, <2>2 DEF AnalysisInv, Flights
    <3> QED BY <3>1 DEF FlightOK, Analyses!NoFlight
  <2>4. ~search[f].mapped
    BY <1>9, NoFlightIs
  <2>5. \A d \in Caller : caller'[d].st = "waiting" =>
         /\ caller'[d].flight \in Flight /\ search'[caller'[d].flight].mapped
         /\ search'[caller'[d].flight].proc = CallerProcess[d] /\ search'[caller'[d].flight].want = Wants[d]
    BY <1>5, <2>1, <2>2, <2>4 DEF AnalysisInv, Flights
  <2>6. \A g \in Flight : search'[g].mapped => \E d \in Caller : Waiting(d, g)'
    BY <1>6, <2>2 DEF AnalysisInv, Flights
  <2>7. \A g, h \in Flight :
         search'[g].mapped /\ search'[h].mapped /\ search'[g].proc = search'[h].proc /\ search'[g].want = search'[h].want
           => g = h
    BY <1>9, <2>1, <2>2 DEF AnalysisInv, Flights
  <2>8. Flights'
    BY <1>5, <1>7, <2>2, <2>3, <2>5, <2>6, <2>7 DEF Flights
  <2> QED BY <1>2, <2>8 DEF AnalysisInv
<1> QED BY <1>1, <1>4, <1>8, <1>9

LeftAs(u) == [u EXCEPT !.st = "cancelled", !.left = TRUE]
AbandonedAs(r) == [r EXCEPT !.aborted = TRUE, !.mapped = FALSE]

LEMMA LeavingIs ==
  /\ \A u \in CallerRecord : /\ LeftAs(u) \in CallerRecord /\ LeftAs(u).st = "cancelled" /\ LeftAs(u).left
                             /\ LeftAs(u).flight = u.flight
  /\ \A r \in FlightRecord : r.phase # "none" /\ FlightOK(r) =>
       AbandonedAs(r) \in FlightRecord /\ FlightOK(AbandonedAs(r)) /\ ~AbandonedAs(r).mapped
<1>1. \A u \in CallerRecord : /\ LeftAs(u) \in CallerRecord /\ LeftAs(u).st = "cancelled" /\ LeftAs(u).left
                              /\ LeftAs(u).flight = u.flight
  BY DEF CallerRecord, LeftAs
<1>2. ASSUME NEW r \in FlightRecord, r.phase # "none", FlightOK(r)
      PROVE  AbandonedAs(r) \in FlightRecord /\ FlightOK(AbandonedAs(r)) /\ ~AbandonedAs(r).mapped
  <2> DEFINE s == AbandonedAs(r)
  <2>1. s \in FlightRecord /\ s.phase = r.phase /\ s.proc = r.proc /\ s.want = r.want /\ s.seen = r.seen
        /\ s.aborted = TRUE /\ s.mapped = FALSE
    BY DEF FlightRecord, AbandonedAs
  <2> HIDE DEF s
  <2>2. FlightOK(s)
    BY <1>2, <2>1 DEF FlightOK
  <2> QED BY <2>1, <2>2 DEF s
<1> QED BY <1>1, <1>2

\* A caller leaves; the last one takes the flight with it.
LEMMA CancelKeeps ==
  ASSUME AnalysisInv, NEW c \in Caller, Analyses!Cancel(c)
  PROVE  AnalysisInv' /\ TiersKeep
<1> DEFINE f == caller[c].flight
<1>1. Tiers' /\ TiersKeep
  <2>1. UNCHANGED <<hot, closed, durable>>
    BY DEF Analyses!Cancel
  <2> QED BY <2>1, TiersStand DEF AnalysisInv
<1>2. /\ caller[c].st = "waiting" /\ f \in Flight /\ search[f].mapped /\ search[f] \in FlightRecord
      /\ FlightOK(search[f]) /\ search[f].phase # "none"
      /\ caller \in [Caller -> CallerRecord] /\ search \in [Flight -> FlightRecord]
  BY NoFlightIs DEF AnalysisInv, Flights, FlightOK, Analyses!Cancel
<1>3. \A d \in Caller : d \in Analyses!Consumers(f) <=> Waiting(d, f)
  BY DEF Analyses!Consumers, Waiting
<1>4. /\ caller' \in [Caller -> CallerRecord]
      /\ \A d \in Caller : d # c => caller'[d] = caller[d]
      /\ caller'[c].st = "cancelled" /\ caller'[c].left
  <2>1. caller' = [caller EXCEPT ![c] = LeftAs(caller[c])]
    BY <1>2 DEF Analyses!Cancel, LeftAs
  <2>2. caller[c] \in CallerRecord
    BY <1>2
  <2> QED BY <1>2, <2>1, <2>2, LeavingIs
<1>5. \A d \in Caller, g \in Flight : Waiting(d, g)' <=> Waiting(d, g) /\ d # c
  BY <1>4 DEF Waiting
<1>6. \A d \in Caller : caller'[d].st = "cancelled" => caller'[d].left
  BY <1>4 DEF AnalysisInv, Flights
<1>7. Waiting(c, f)
  BY <1>2 DEF Waiting
<1> HIDE DEF f
<1>8. CASE Analyses!Consumers(f) = {c}
  <2>1. \A d \in Caller : Waiting(d, f) => d = c
    BY <1>3, <1>8
  <2>2. search' = [search EXCEPT ![f] = AbandonedAs(search[f])]
    BY <1>8 DEF Analyses!Cancel, Analyses!Abandoned, AbandonedAs, f
  <2> DEFINE s == AbandonedAs(search[f])
  <2>3. s \in FlightRecord /\ FlightOK(s) /\ ~s.mapped
    BY <1>2, LeavingIs
  <2> HIDE DEF s
  <2>4. /\ search' \in [Flight -> FlightRecord]
        /\ \A g \in Flight : search'[g] = IF g = f THEN s ELSE search[g]
    BY <1>2, <2>2, <2>3 DEF s
  <2>5. \A g \in Flight : FlightOK(search[g])'
    <3>1. \A g \in Flight : FlightOK(search'[g])
      BY <2>3, <2>4 DEF AnalysisInv, Flights
    <3> QED BY <3>1 DEF FlightOK, Analyses!NoFlight
  <2>6. \A d \in Caller : caller'[d].st = "waiting" => d # c /\ caller'[d] = caller[d] /\ caller[d].flight # f
    BY <1>4, <2>1 DEF Waiting
  <2>7. \A d \in Caller : caller'[d].st = "waiting" =>
         /\ caller'[d].flight \in Flight /\ search'[caller'[d].flight].mapped
         /\ search'[caller'[d].flight].proc = CallerProcess[d] /\ search'[caller'[d].flight].want = Wants[d]
    BY <2>4, <2>6 DEF AnalysisInv, Flights
  <2>8. \A g \in Flight : search'[g].mapped => g # f /\ search[g].mapped
    BY <2>3, <2>4
  <2>9. \A g \in Flight : search'[g].mapped => \E d \in Caller : Waiting(d, g)'
    <3>1. \A g \in Flight : g # f => ~Waiting(c, g)
      BY DEF Waiting, f
    <3> QED BY <1>5, <2>8, <3>1 DEF AnalysisInv, Flights
  <2>10. \A g, h \in Flight :
          search'[g].mapped /\ search'[h].mapped /\ search'[g].proc = search'[h].proc /\ search'[g].want = search'[h].want
            => g = h
    BY <2>4, <2>8 DEF AnalysisInv, Flights
  <2>11. Flights'
    BY <1>4, <1>6, <2>4, <2>5, <2>7, <2>9, <2>10 DEF Flights
  <2> QED BY <1>1, <2>11 DEF AnalysisInv
<1>9. CASE Analyses!Consumers(f) # {c}
  <2>1. UNCHANGED search
    BY <1>9 DEF Analyses!Cancel, f
  <2>2. PICK e \in Caller : Waiting(e, f) /\ e # c
    <3>1. Analyses!Consumers(f) \subseteq Caller
      BY DEF Analyses!Consumers
    <3> QED BY <1>3, <1>7, <1>9, <3>1
  <2>3. \A g \in Flight : FlightOK(search[g])'
    BY <2>1 DEF AnalysisInv, Flights, FlightOK, Analyses!NoFlight
  <2>4. \A g \in Flight : g # f => ~Waiting(c, g)
    BY DEF Waiting, f
  <2>5. \A g \in Flight : search'[g].mapped => \E d \in Caller : Waiting(d, g)'
    BY <1>5, <2>1, <2>2, <2>4 DEF AnalysisInv, Flights
  <2>6. \A d \in Caller : caller'[d].st = "waiting" => caller'[d] = caller[d]
    BY <1>4
  <2>7. Flights'
    BY <1>4, <1>6, <2>1, <2>3, <2>5, <2>6 DEF AnalysisInv, Flights
  <2> QED BY <1>1, <2>7 DEF AnalysisInv
<1> QED BY <1>8, <1>9


ReadAs(r, seen) == [r EXCEPT !.phase = "read", !.seen = seen]
ComputingAs(r) == [r EXCEPT !.phase = "computing"]
WritingAs(r, seen) == [r EXCEPT !.phase = "writing", !.seen = seen]

LEMMA GoingOn ==
  ASSUME NEW r \in FlightRecord, FlightOK(r), r.phase # "none"
  PROVE  /\ \A seen \in Limit \cup {Nothing} :
              /\ ReadAs(r, seen) \in FlightRecord /\ ReadAs(r, seen).mapped = r.mapped
              /\ ReadAs(r, seen).proc = r.proc /\ ReadAs(r, seen).want = r.want
              /\ (seen # Nothing => Analyses!Satisfies(seen, r.want)) => FlightOK(ReadAs(r, seen))
         /\ /\ ComputingAs(r) \in FlightRecord /\ ComputingAs(r).mapped = r.mapped
            /\ ComputingAs(r).proc = r.proc /\ ComputingAs(r).want = r.want /\ FlightOK(ComputingAs(r))
         /\ \A seen \in Limit :
              /\ WritingAs(r, seen) \in FlightRecord /\ WritingAs(r, seen).mapped = r.mapped
              /\ WritingAs(r, seen).proc = r.proc /\ WritingAs(r, seen).want = r.want /\ FlightOK(WritingAs(r, seen))
<1>1. ASSUME NEW seen \in Limit \cup {Nothing}
      PROVE  /\ ReadAs(r, seen) \in FlightRecord /\ ReadAs(r, seen).mapped = r.mapped
             /\ ReadAs(r, seen).proc = r.proc /\ ReadAs(r, seen).want = r.want
             /\ (seen # Nothing => Analyses!Satisfies(seen, r.want)) => FlightOK(ReadAs(r, seen))
  <2> DEFINE s == ReadAs(r, seen)
  <2>1. /\ s \in FlightRecord /\ s.mapped = r.mapped /\ s.proc = r.proc /\ s.want = r.want
        /\ s.aborted = r.aborted /\ s.phase = "read" /\ s.seen = seen
    BY DEF ReadAs, FlightRecord
  <2> HIDE DEF s
  <2>2. (seen # Nothing => Analyses!Satisfies(seen, r.want)) => FlightOK(s)
    BY <2>1 DEF FlightOK
  <2> QED BY <2>1, <2>2 DEF s
<1>2. /\ ComputingAs(r) \in FlightRecord /\ ComputingAs(r).mapped = r.mapped
      /\ ComputingAs(r).proc = r.proc /\ ComputingAs(r).want = r.want /\ FlightOK(ComputingAs(r))
  <2> DEFINE s == ComputingAs(r)
  <2>1. /\ s \in FlightRecord /\ s.mapped = r.mapped /\ s.proc = r.proc /\ s.want = r.want
        /\ s.aborted = r.aborted /\ s.phase = "computing"
    BY DEF ComputingAs, FlightRecord
  <2> HIDE DEF s
  <2>2. FlightOK(s)
    BY <2>1 DEF FlightOK
  <2> QED BY <2>1, <2>2 DEF s
<1>3. ASSUME NEW seen \in Limit
      PROVE  /\ WritingAs(r, seen) \in FlightRecord /\ WritingAs(r, seen).mapped = r.mapped
             /\ WritingAs(r, seen).proc = r.proc /\ WritingAs(r, seen).want = r.want /\ FlightOK(WritingAs(r, seen))
  <2> DEFINE s == WritingAs(r, seen)
  <2>1. /\ s \in FlightRecord /\ s.mapped = r.mapped /\ s.proc = r.proc /\ s.want = r.want
        /\ s.aborted = r.aborted /\ s.phase = "writing" /\ s.seen = seen
    BY DEF WritingAs, FlightRecord
  <2> HIDE DEF s
  <2>2. FlightOK(s)
    BY <2>1 DEF FlightOK
  <2> QED BY <2>1, <2>2 DEF s
<1> QED BY <1>1, <1>2, <1>3

\* What a flight that is going on is for.
LEMMA GoingOnIs ==
  ASSUME Flights, NEW f \in Flight, search[f].phase # "none"
  PROVE  /\ search[f] \in FlightRecord /\ FlightOK(search[f]) /\ search[f].proc \in Process
         /\ search[f].want \in Limit /\ (search[f].mapped <=> ~search[f].aborted)
BY DEF Flights, FlightOK

LEMMA HitSettlesKeeps ==
  ASSUME AnalysisInv, NEW f \in Flight, Analyses!HitSettles(f)
  PROVE  AnalysisInv' /\ TiersKeep
<1>1. Tiers' /\ TiersKeep
  <2>1. UNCHANGED <<hot, closed, durable>>
    BY DEF Analyses!HitSettles
  <2> QED BY <2>1, TiersStand DEF AnalysisInv
<1>2. Flights /\ search[f].phase = "hit"
  BY DEF AnalysisInv, Analyses!HitSettles
<1>3. /\ search[f].seen \in Limit /\ (search[f].aborted => ~search[f].mapped)
  BY <1>2 DEF Flights, FlightOK
<1>4. CASE search[f].aborted /\ Analyses!SettleFlight(f, "cancelled", Nothing)
  BY <1>1, <1>2, <1>3, <1>4, FlightSettles DEF AnalysisInv
<1>5. CASE Analyses!SettleFlight(f, "value", search[f].seen)
  BY <1>1, <1>2, <1>3, <1>5, FlightSettles DEF AnalysisInv
<1> QED BY <1>4, <1>5 DEF Analyses!HitSettles

LEMMA DurableReadKeeps ==
  ASSUME AnalysisInv, NEW f \in Flight, Analyses!DurableRead(f)
  PROVE  AnalysisInv' /\ TiersKeep
<1>1. Tiers' /\ TiersKeep
  <2>1. UNCHANGED <<hot, closed, durable>>
    BY DEF Analyses!DurableRead
  <2> QED BY <2>1, TiersStand DEF AnalysisInv
<1>2. Flights /\ search[f].phase = "reading"
  BY DEF AnalysisInv, Analyses!DurableRead
<1> DEFINE seen == IF durable # Nothing /\ Analyses!Satisfies(durable, search[f].want) THEN durable ELSE Nothing
<1>3. seen \in Limit \cup {Nothing} /\ (seen # Nothing => Analyses!Satisfies(seen, search[f].want))
  BY DEF AnalysisInv, Tiers
<1>4. search' = [search EXCEPT ![f] = ReadAs(search[f], seen)] /\ UNCHANGED caller
  BY DEF Analyses!DurableRead, ReadAs
<1> HIDE DEF seen
<1>5. /\ ReadAs(search[f], seen) \in FlightRecord /\ ReadAs(search[f], seen).mapped = search[f].mapped
      /\ ReadAs(search[f], seen).proc = search[f].proc /\ ReadAs(search[f], seen).want = search[f].want
      /\ FlightOK(ReadAs(search[f], seen))
  BY <1>2, <1>3, GoingOnIs, GoingOn
<1>6. Flights'
  BY <1>2, <1>4, <1>5, FlightGoesOn
<1> QED BY <1>1, <1>6 DEF AnalysisInv

LEMMA ReadReplyKeeps ==
  ASSUME AnalysisInv, NEW f \in Flight, NEW failed \in BOOLEAN, Analyses!ReadReply(f, failed)
  PROVE  AnalysisInv' /\ TiersKeep
<1>1. Flights /\ Tiers /\ search[f].phase = "read" /\ UNCHANGED <<closed, durable>>
  BY DEF AnalysisInv, Analyses!ReadReply
<1>2. /\ search[f] \in FlightRecord /\ FlightOK(search[f]) /\ search[f].proc \in Process
      /\ search[f].want \in Limit /\ (search[f].mapped <=> ~search[f].aborted)
  BY <1>1, GoingOnIs
<1>3. /\ search[f].seen \in Limit \cup {Nothing}
      /\ search[f].seen # Nothing => Analyses!Satisfies(search[f].seen, search[f].want)
  BY <1>1, <1>2 DEF FlightOK, FlightRecord
<1> DEFINE found == IF failed THEN Nothing ELSE search[f].seen
<1>4. found \in Limit \cup {Nothing} /\ (found # Nothing => Analyses!Satisfies(found, search[f].want))
  BY <1>3
<1>5. /\ hot' = IF found = Nothing THEN hot ELSE Analyses!Store(search[f].proc, found, search[f].want)
      /\ \/ search[f].aborted /\ Analyses!SettleFlight(f, "cancelled", Nothing)
         \/ found # Nothing /\ Analyses!SettleFlight(f, "value", found)
         \/ search' = [search EXCEPT ![f].phase = "computing"] /\ UNCHANGED caller
  BY DEF Analyses!ReadReply
<1> HIDE DEF found
<1>6. Tiers' /\ TiersKeep
  <2>1. CASE found = Nothing
    <3>1. UNCHANGED <<hot, closed, durable>>
      BY <1>1, <1>5, <2>1
    <3> QED BY <1>1, <3>1, TiersStand
  <2>2. CASE found # Nothing
    BY <1>1, <1>2, <1>4, <1>5, <2>2, StoreKeeps
  <2> QED BY <2>1, <2>2
<1>7. Flights'
  <2>1. CASE search[f].aborted /\ Analyses!SettleFlight(f, "cancelled", Nothing)
    BY <1>1, <1>2, <2>1, FlightSettles
  <2>2. CASE Analyses!SettleFlight(f, "value", found)
    BY <1>1, <1>4, <2>2, FlightSettles
  <2>3. CASE search' = [search EXCEPT ![f].phase = "computing"] /\ UNCHANGED caller
    <3>1. search' = [search EXCEPT ![f] = ComputingAs(search[f])]
      BY <2>3 DEF ComputingAs
    <3>2. /\ ComputingAs(search[f]) \in FlightRecord /\ ComputingAs(search[f]).mapped = search[f].mapped
          /\ ComputingAs(search[f]).proc = search[f].proc /\ ComputingAs(search[f]).want = search[f].want
          /\ FlightOK(ComputingAs(search[f]))
      BY <1>1, <1>2, GoingOn
    <3> QED BY <1>1, <2>3, <3>1, <3>2, FlightGoesOn
  <2> QED BY <1>5, <2>1, <2>2, <2>3
<1> QED BY <1>6, <1>7 DEF AnalysisInv

LEMMA ComputedKeeps ==
  ASSUME AnalysisInv, NEW f \in Flight, NEW value \in Limit, Analyses!Computed(f, value)
  PROVE  AnalysisInv' /\ TiersKeep
<1>1. /\ Flights /\ Tiers /\ search[f].phase = "computing" /\ UNCHANGED <<caller, closed, durable>>
      /\ hot' = Analyses!Store(search[f].proc, value, value)
      /\ search' = [search EXCEPT ![f] = WritingAs(search[f], value)]
  BY DEF AnalysisInv, Analyses!Computed, WritingAs
<1>2. search[f] \in FlightRecord /\ FlightOK(search[f]) /\ search[f].proc \in Process
  BY <1>1, GoingOnIs
<1>3. Tiers' /\ TiersKeep
  BY <1>1, <1>2, SatisfiesItself, StoreKeeps
<1>4. /\ WritingAs(search[f], value) \in FlightRecord /\ WritingAs(search[f], value).mapped = search[f].mapped
      /\ WritingAs(search[f], value).proc = search[f].proc /\ WritingAs(search[f], value).want = search[f].want
      /\ FlightOK(WritingAs(search[f], value))
  BY <1>1, <1>2, GoingOn
<1>5. Flights'
  BY <1>1, <1>4, FlightGoesOn
<1> QED BY <1>3, <1>5 DEF AnalysisInv

LEMMA ComputeFailsKeeps ==
  ASSUME AnalysisInv, NEW f \in Flight, Analyses!ComputeFails(f)
  PROVE  AnalysisInv' /\ TiersKeep
<1>1. Tiers' /\ TiersKeep
  <2>1. UNCHANGED <<hot, closed, durable>>
    BY DEF Analyses!ComputeFails
  <2> QED BY <2>1, TiersStand DEF AnalysisInv
<1>2. /\ Flights /\ search[f].phase = "computing"
      /\ Analyses!SettleFlight(f, IF search[f].aborted THEN "cancelled" ELSE "error", Nothing)
  BY DEF AnalysisInv, Analyses!ComputeFails
<1>3. search[f].mapped <=> ~search[f].aborted
  BY <1>2, GoingOnIs
<1>4. CASE search[f].aborted /\ Analyses!SettleFlight(f, "cancelled", Nothing)
  BY <1>1, <1>2, <1>3, <1>4, FlightSettles DEF AnalysisInv
<1>5. CASE Analyses!SettleFlight(f, "error", Nothing)
  BY <1>1, <1>2, <1>5, FlightSettles DEF AnalysisInv
<1> QED BY <1>2, <1>4, <1>5

LEMMA WriteDoneKeeps ==
  ASSUME AnalysisInv, NEW f \in Flight, NEW failed \in BOOLEAN, Analyses!WriteDone(f, failed)
  PROVE  AnalysisInv' /\ TiersKeep
<1>1. /\ Flights /\ Tiers /\ search[f].phase = "writing" /\ UNCHANGED <<hot, closed>>
      /\ Analyses!SettleFlight(f, "value", search[f].seen)
      /\ durable' = durable \/ durable' = Analyses!Upsert(search[f].seen)
  BY DEF AnalysisInv, Analyses!WriteDone
<1>2. search[f].seen \in Limit
  BY <1>1 DEF Flights, FlightOK
<1>3. Tiers' /\ TiersKeep
  BY <1>1, <1>2, UpsertKeeps
<1>4. Flights'
  BY <1>1, <1>2, FlightSettles
<1> QED BY <1>3, <1>4 DEF AnalysisInv

\* A tier is emptied: an entry expires, a tier is released, the row is swept.
LEMMA TierEmptied ==
  ASSUME AnalysisInv, NEW p \in Process, Analyses!DropHot(p) \/ Analyses!Close(p) \/ Analyses!Sweep
  PROVE  AnalysisInv' /\ TiersKeep
<1>1. UNCHANGED <<search, caller>>
  BY DEF Analyses!DropHot, Analyses!Close, Analyses!Sweep
<1>2. Flights'
  <2>1. \A f \in Flight : FlightOK(search[f])'
    BY <1>1 DEF AnalysisInv, Flights, FlightOK, Analyses!NoFlight
  <2>2. \A c \in Caller, f \in Flight : Waiting(c, f)' <=> Waiting(c, f)
    BY <1>1 DEF Waiting
  <2> QED BY <1>1, <2>1, <2>2 DEF AnalysisInv, Flights
<1>3. /\ hot' = hot \/ hot' = [hot EXCEPT ![p] = Nothing]
      /\ closed' \in {closed, closed \cup {p}} /\ (closed' # closed => hot' = [hot EXCEPT ![p] = Nothing])
      /\ durable' \in {durable, Nothing}
  BY DEF Analyses!DropHot, Analyses!Close, Analyses!Sweep
<1>4. /\ hot' \in [Process -> Analyses!Cached \cup {Nothing}]
      /\ \A q \in Process : hot'[q] = hot[q] \/ hot'[q] = Nothing
      /\ closed' # closed => hot'[p] = Nothing
  BY <1>3 DEF AnalysisInv, Tiers
<1>5. \A q \in Process : HotEntry(hot[q])'
  <2>1. \A q \in Process : HotEntry(hot'[q])
    BY <1>4 DEF AnalysisInv, Tiers, HotEntry
  <2> QED BY <2>1 DEF HotEntry
<1>6. \A q \in closed' : hot'[q] = Nothing
  BY <1>3, <1>4 DEF AnalysisInv, Tiers
<1>7. Tiers'
  BY <1>3, <1>4, <1>5, <1>6 DEF AnalysisInv, Tiers
<1>8. TiersKeep
  <2>1. \A q \in Process : hot[q] # Nothing => hot[q].claim \in Limit
    BY DEF AnalysisInv, Tiers, HotEntry, Analyses!Cached
  <2> QED BY <1>3, <1>4, <2>1, SatisfiesItself DEF AnalysisInv, Tiers, TiersKeep
<1> QED BY <1>2, <1>7, <1>8 DEF AnalysisInv

LEMMA SweepKeeps ==
  ASSUME AnalysisInv, Analyses!Sweep
  PROVE  AnalysisInv' /\ TiersKeep
<1>1. CASE Process # {}
  BY <1>1, TierEmptied
<1>2. CASE Process = {}
  <2>1. UNCHANGED <<search, caller, hot, closed>> /\ durable' = Nothing
    BY DEF Analyses!Sweep
  <2>2. Flights'
    <3>1. \A f \in Flight : FlightOK(search[f])'
      BY <2>1 DEF AnalysisInv, Flights, FlightOK, Analyses!NoFlight
    <3>2. \A c \in Caller, f \in Flight : Waiting(c, f)' <=> Waiting(c, f)
      BY <2>1 DEF Waiting
    <3> QED BY <2>1, <3>1, <3>2 DEF AnalysisInv, Flights
  <2>3. Tiers' /\ TiersKeep
    BY <1>2, <2>1 DEF AnalysisInv, Tiers, TiersKeep
  <2> QED BY <2>2, <2>3 DEF AnalysisInv
<1> QED BY <1>1, <1>2

-----------------------------------------------------------------------------
(* The theorem about analyses. *)

LEMMA AnalysisInit == Analyses!Init => AnalysisInv
<1> SUFFICES ASSUME Analyses!Init PROVE AnalysisInv
  OBVIOUS
<1> DEFINE fresh == [st |-> "new", flight |-> Nothing, got |-> Nothing, left |-> FALSE]
<1>1. fresh \in CallerRecord /\ fresh.st = "new"
  BY DEF CallerRecord
<1>2. /\ search = [f \in Flight |-> Analyses!NoFlight] /\ caller = [c \in Caller |-> fresh]
      /\ hot = [p \in Process |-> Nothing] /\ closed = {} /\ durable = Nothing
  BY DEF Analyses!Init
<1> HIDE DEF fresh
<1>3. Flights
  BY <1>1, <1>2, NoFlightIs DEF Flights
<1>4. Tiers
  BY <1>2 DEF Tiers, HotEntry
<1> QED BY <1>3, <1>4 DEF AnalysisInv

LEMMA FlightStepKeeps ==
  ASSUME AnalysisInv, NEW f \in Flight, Analyses!FlightStep(f)
  PROVE  AnalysisInv' /\ TiersKeep
<1>1. CASE Analyses!HitSettles(f)
  BY <1>1, HitSettlesKeeps
<1>2. CASE Analyses!DurableRead(f)
  BY <1>2, DurableReadKeeps
<1>3. CASE Analyses!ComputeFails(f)
  BY <1>3, ComputeFailsKeeps
<1>4. CASE \E value \in Limit : Analyses!Computed(f, value)
  BY <1>4, ComputedKeeps
<1>5. CASE \E failed \in BOOLEAN : Analyses!ReadReply(f, failed)
  BY <1>5, ReadReplyKeeps
<1>6. CASE \E failed \in BOOLEAN : Analyses!WriteDone(f, failed)
  BY <1>6, WriteDoneKeeps
<1> QED BY <1>1, <1>2, <1>3, <1>4, <1>5, <1>6 DEF Analyses!FlightStep

LEMMA AnalysisStep ==
  AnalysisInv /\ [Analyses!Next]_(Analyses!vars) => AnalysisInv' /\ [TiersKeep]_(Analyses!vars)
<1> SUFFICES ASSUME AnalysisInv, [Analyses!Next]_(Analyses!vars)
             PROVE  AnalysisInv' /\ [TiersKeep]_(Analyses!vars)
  OBVIOUS
<1>1. CASE Analyses!Next
  <2>1. CASE \E c \in Caller : Analyses!Analyze(c)
    BY <2>1, AnalyzeKeeps
  <2>2. CASE \E c \in Caller : Analyses!Cancel(c)
    BY <2>2, CancelKeeps
  <2>3. CASE \E f \in Flight : Analyses!FlightStep(f)
    BY <2>3, FlightStepKeeps
  <2>4. CASE \E p \in Process : Analyses!DropHot(p) \/ Analyses!Close(p)
    BY <2>4, TierEmptied
  <2>5. CASE Analyses!Sweep
    BY <2>5, SweepKeeps
  <2> QED BY <1>1, <2>1, <2>2, <2>3, <2>4, <2>5 DEF Analyses!Next
<1>2. CASE UNCHANGED Analyses!vars
  <2>1. UNCHANGED <<search, caller, hot, closed, durable>>
    BY <1>2 DEF Analyses!vars
  <2>2. Tiers'
    BY <2>1, TiersStand DEF AnalysisInv
  <2>3. \A f \in Flight : FlightOK(search[f])'
    BY <2>1 DEF AnalysisInv, Flights, FlightOK, Analyses!NoFlight
  <2>4. \A c \in Caller, f \in Flight : Waiting(c, f)' <=> Waiting(c, f)
    BY <2>1 DEF Waiting
  <2>5. Flights'
    BY <2>1, <2>3, <2>4 DEF AnalysisInv, Flights
  <2> QED BY <1>2, <2>2, <2>5 DEF AnalysisInv
<1> QED BY <1>1, <1>2

LEMMA WhoWaits ==
  ASSUME AnalysisInv
  PROVE  \A f \in Flight : /\ search[f] \in FlightRecord /\ FlightOK(search[f])
                           /\ Analyses!Consumers(f) # {} <=> search[f].mapped
<1> SUFFICES ASSUME NEW f \in Flight
             PROVE  /\ search[f] \in FlightRecord /\ FlightOK(search[f])
                    /\ Analyses!Consumers(f) # {} <=> search[f].mapped
  OBVIOUS
<1>1. search[f] \in FlightRecord /\ FlightOK(search[f]) /\ search[f].mapped \in BOOLEAN
  BY DEF AnalysisInv, Flights, FlightRecord
<1>2. \A c \in Caller : c \in Analyses!Consumers(f) <=> Waiting(c, f)
  BY DEF Analyses!Consumers, Waiting
<1>3. Analyses!Consumers(f) \subseteq Caller
  BY DEF Analyses!Consumers
<1>4. ASSUME search[f].mapped PROVE Analyses!Consumers(f) # {}
  BY <1>2, <1>4 DEF AnalysisInv, Flights
<1>5. ASSUME Analyses!Consumers(f) # {} PROVE search[f].mapped
  BY <1>2, <1>3, <1>5 DEF AnalysisInv, Flights, Waiting
<1> QED BY <1>1, <1>4, <1>5

LEMMA AnalysesStand ==
  AnalysisInv => Analyses!CacheKeepsItsWord /\ Analyses!ComputedOnce /\ Analyses!CancellationIsOnesOwn
<1> SUFFICES ASSUME AnalysisInv
             PROVE  Analyses!CacheKeepsItsWord /\ Analyses!ComputedOnce /\ Analyses!CancellationIsOnesOwn
  OBVIOUS
<1>1. Analyses!CacheKeepsItsWord
  <2>1. \A p \in Process : hot[p] # Nothing => Analyses!Satisfies(hot[p].value, hot[p].claim)
    BY DEF AnalysisInv, Tiers, HotEntry
  <2>2. \A f \in Flight : search[f].phase = "hit" => Analyses!Satisfies(search[f].seen, search[f].want)
    BY DEF AnalysisInv, Flights, FlightOK
  <2>3. \A p \in closed : hot[p] = Nothing
    BY DEF AnalysisInv, Tiers
  <2> QED BY <2>1, <2>2, <2>3 DEF Analyses!CacheKeepsItsWord
<1>2. Analyses!ComputedOnce
  BY WhoWaits DEF AnalysisInv, Flights, Analyses!ComputedOnce
<1>3. Analyses!CancellationIsOnesOwn
  <2>1. \A f \in Flight : search[f].phase # "none" => (search[f].aborted <=> Analyses!Consumers(f) = {})
    BY WhoWaits DEF FlightOK
  <2>2. \A c \in Caller : caller[c].st = "cancelled" => caller[c].left
    BY DEF AnalysisInv, Flights
  <2> QED BY <2>1, <2>2 DEF Analyses!CancellationIsOnesOwn
<1> QED BY <1>1, <1>2, <1>3

\* For every number of processes, callers, limits and flights, a cached analysis
\* achieved what it is served for and is only displaced by one that answers more,
\* callers of one request share one search, and it is aborted exactly when the last
\* of them has left (get, set, clear; analyze, start, join, cancelConsumer).
THEOREM SharedAnalyses == Analyses!Spec => AnalysesAreShared
<1>1. Analyses!Spec => []AnalysisInv
  BY AnalysisInit, AnalysisStep, PTL DEF Analyses!Spec
<1>2. Analyses!Spec => [](Analyses!CacheKeepsItsWord /\ Analyses!ComputedOnce /\ Analyses!CancellationIsOnesOwn)
  BY <1>1, AnalysesStand, PTL
<1>3. Analyses!Spec => [][TiersKeep]_(Analyses!vars)
  BY <1>1, AnalysisStep, PTL DEF Analyses!Spec
<1>4. [][TiersKeep]_(Analyses!vars) => Analyses!NeverWeaker
  BY PTL DEF TiersKeep, Analyses!NeverWeaker
<1> QED BY <1>2, <1>3, <1>4, PTL DEF AnalysesAreShared, Analyses!AnalysesAreShared

-----------------------------------------------------------------------------
(* The pool (EnginePool).  Its methods are operators on the pool p. *)

PoolJob == Play \cup Analysis \cup {NoJob}
PoolState ==
  [queue : Seq(PoolJob), inst : Seq(Worker), worker : [Worker -> Engines!ProcessRecord],
   tries : [Engines!Job -> Nat], reap : SUBSET Worker,
   breaker : {"closed", "open", "half-open"}, fails : Nat, cooled : BOOLEAN, caps : BOOLEAN,
   draining : BOOLEAN, warm : {"none", "pending", "done", "failed"}, warmers : SUBSET Worker]

LEMMA PoolFields ==
  ASSUME NEW p \in PoolState
  PROVE  /\ p.queue \in Seq(PoolJob) /\ p.inst \in Seq(Worker) /\ p.worker \in [Worker -> Engines!ProcessRecord]
         /\ p.tries \in [Engines!Job -> Nat] /\ p.reap \in SUBSET Worker
         /\ p.breaker \in {"closed", "open", "half-open"} /\ p.fails \in Nat
         /\ p.cooled \in BOOLEAN /\ p.caps \in BOOLEAN /\ p.draining \in BOOLEAN
         /\ p.warm \in {"none", "pending", "done", "failed"} /\ p.warmers \in SUBSET Worker
BY DEF PoolState

\* What does not concern the processes.
Aside(p, q) ==
  /\ q.inst = p.inst /\ q.worker = p.worker /\ q.draining = p.draining /\ q.warm = p.warm /\ q.warmers = p.warmers

LEMMA SetQueue ==
  ASSUME NEW p \in PoolState, NEW v \in Seq(PoolJob), NEW q, q = [p EXCEPT !.queue = v]
  PROVE  /\ q \in PoolState /\ q.queue = v /\ Aside(p, q)
         /\ q.tries = p.tries /\ q.breaker = p.breaker /\ q.cooled = p.cooled
BY DEF PoolState, Aside

LEMMA SetTries ==
  ASSUME NEW p \in PoolState, NEW v \in [Engines!Job -> Nat], NEW q, q = [p EXCEPT !.tries = v]
  PROVE  /\ q \in PoolState /\ q.tries = v /\ Aside(p, q)
         /\ q.queue = p.queue /\ q.breaker = p.breaker /\ q.cooled = p.cooled
BY DEF PoolState, Aside

LEMMA SetWorker ==
  ASSUME NEW p \in PoolState, NEW v \in [Worker -> Engines!ProcessRecord], NEW q, q = [p EXCEPT !.worker = v]
  PROVE  /\ q \in PoolState /\ q.worker = v
         /\ q.inst = p.inst /\ q.draining = p.draining /\ q.warm = p.warm /\ q.warmers = p.warmers
         /\ q.queue = p.queue /\ q.tries = p.tries /\ q.breaker = p.breaker /\ q.cooled = p.cooled
BY DEF PoolState

LEMMA SetInst ==
  ASSUME NEW p \in PoolState, NEW v \in Seq(Worker), NEW q, q = [p EXCEPT !.inst = v]
  PROVE  /\ q \in PoolState /\ q.inst = v
         /\ q.worker = p.worker /\ q.draining = p.draining /\ q.warm = p.warm /\ q.warmers = p.warmers
         /\ q.queue = p.queue /\ q.tries = p.tries /\ q.breaker = p.breaker /\ q.cooled = p.cooled
BY DEF PoolState

LEMMA SetReap ==
  ASSUME NEW p \in PoolState, NEW v \in SUBSET Worker, NEW q, q = [p EXCEPT !.reap = v]
  PROVE  /\ q \in PoolState /\ Aside(p, q)
         /\ q.queue = p.queue /\ q.tries = p.tries /\ q.breaker = p.breaker /\ q.cooled = p.cooled
BY DEF PoolState, Aside

LEMMA SetBreaker ==
  ASSUME NEW p \in PoolState, NEW v \in {"closed", "open", "half-open"}, NEW q, q = [p EXCEPT !.breaker = v]
  PROVE  /\ q \in PoolState /\ q.breaker = v /\ Aside(p, q)
         /\ q.queue = p.queue /\ q.tries = p.tries /\ q.cooled = p.cooled
BY DEF PoolState, Aside

LEMMA SetFails ==
  ASSUME NEW p \in PoolState, NEW v \in Nat, NEW q, q = [p EXCEPT !.fails = v]
  PROVE  /\ q \in PoolState /\ Aside(p, q)
         /\ q.queue = p.queue /\ q.tries = p.tries /\ q.breaker = p.breaker /\ q.cooled = p.cooled
BY DEF PoolState, Aside

LEMMA SetCooled ==
  ASSUME NEW p \in PoolState, NEW v \in BOOLEAN, NEW q, q = [p EXCEPT !.cooled = v]
  PROVE  /\ q \in PoolState /\ q.cooled = v /\ Aside(p, q)
         /\ q.queue = p.queue /\ q.tries = p.tries /\ q.breaker = p.breaker
BY DEF PoolState, Aside

LEMMA SetCaps ==
  ASSUME NEW p \in PoolState, NEW v \in BOOLEAN, NEW q, q = [p EXCEPT !.caps = v]
  PROVE  /\ q \in PoolState /\ Aside(p, q)
         /\ q.queue = p.queue /\ q.tries = p.tries /\ q.breaker = p.breaker /\ q.cooled = p.cooled
BY DEF PoolState, Aside

LEMMA SetWarm ==
  ASSUME NEW p \in PoolState, NEW v \in {"none", "pending", "done", "failed"}, NEW x \in SUBSET Worker,
         NEW q, q = [p EXCEPT !.warm = v, !.warmers = x]
  PROVE  /\ q \in PoolState /\ q.warm = v /\ q.warmers = x
         /\ q.inst = p.inst /\ q.worker = p.worker /\ q.draining = p.draining
         /\ q.queue = p.queue /\ q.tries = p.tries /\ q.breaker = p.breaker /\ q.cooled = p.cooled
BY DEF PoolState

Load(p) == Len(p.inst) + Cardinality(Engines!Spawning(p))
Shut(p) == p.breaker = "open" /\ ~p.cooled

\* What no method does on its own: end the drain, begin what a drain forbids, start a
\* process behind the breaker, or load the pool beyond its maximum.
Keeps(p, q) ==
  /\ p \in PoolState /\ q \in PoolState
  /\ q.draining = p.draining /\ q.warm = p.warm /\ q.warmers \subseteq p.warmers
  /\ p.draining => q.tries = p.tries /\ q.queue = p.queue
  /\ Shut(p) => Shut(q) /\ Engines!Spawning(q) \subseteq Engines!Spawning(p)
  /\ Load(q) <= Load(p) \/ Load(q) <= MaxWorkers

LEMMA PoolConstants ==
  /\ IsFiniteSet(Worker) /\ MinWorkers \in Nat /\ MaxWorkers \in Nat /\ MinWorkers <= MaxWorkers /\ MaxWorkers > 0
  /\ Capacity \in Nat \ {0} /\ MaxAttempts \in Nat \ {0} /\ FailureThreshold \in Nat \ {0}
BY EnginePackageAssumptions DEF EnginePackageAssumptions, Engines!Assumptions, Engines!IsFiniteSet, IsFiniteSet

LEMMA Counting == \A S : Engines!Cardinality(S) = Cardinality(S)
BY DEF Engines!Cardinality, Cardinality

LEMMA LeastOfTwo ==
  ASSUME NEW a \in Int, NEW b \in Int
  PROVE  /\ Engines!Min({a, b}) \in {a, b} /\ Engines!Min({a, b}) <= a /\ Engines!Min({a, b}) <= b
         /\ Engines!Max({a, b}) \in {a, b} /\ Engines!Max({a, b}) >= a /\ Engines!Max({a, b}) >= b
<1>1. \E x \in {a, b} : \A y \in {a, b} : x <= y
  OBVIOUS
<1>2. \E x \in {a, b} : \A y \in {a, b} : x >= y
  OBVIOUS
<1>3. Engines!Min({a, b}) \in {a, b} /\ \A y \in {a, b} : Engines!Min({a, b}) <= y
  BY <1>1 DEF Engines!Min
<1>4. Engines!Max({a, b}) \in {a, b} /\ \A y \in {a, b} : Engines!Max({a, b}) >= y
  BY <1>2 DEF Engines!Max
<1> QED BY <1>3, <1>4

LEMMA SpawningIs ==
  ASSUME NEW p
  PROVE  Engines!Spawning(p) \in SUBSET Worker /\ IsFiniteSet(Engines!Spawning(p))
         /\ Cardinality(Engines!Spawning(p)) \in Nat
<1>1. Engines!Spawning(p) \in SUBSET Worker
  BY DEF Engines!Spawning
<1>2. IsFiniteSet(Engines!Spawning(p))
  BY <1>1, PoolConstants, FS_Subset
<1> QED BY <1>1, <1>2, FS_CardinalityType

LEMMA LoadIs ==
  ASSUME NEW p \in PoolState
  PROVE  Len(p.inst) \in Nat /\ Load(p) \in Nat
<1>1. Len(p.inst) \in Nat
  BY PoolFields
<1> QED BY <1>1, SpawningIs DEF Load

LEMMA KeepsItself == ASSUME NEW p \in PoolState PROVE Keeps(p, p)
BY LoadIs DEF Keeps

LEMMA KeepsOn ==
  ASSUME NEW p, NEW q, NEW r, Keeps(p, q), Keeps(q, r)
  PROVE  Keeps(p, r)
<1>1. Load(p) \in Int /\ Load(q) \in Int /\ Load(r) \in Int /\ MaxWorkers \in Int
  BY LoadIs, PoolConstants DEF Keeps
<1> QED BY <1>1 DEF Keeps

\* A step that starts nothing.
LEMMA Lighter ==
  ASSUME NEW p \in PoolState, NEW q \in PoolState,
         q.draining = p.draining, q.warm = p.warm, q.warmers \subseteq p.warmers,
         p.draining => q.tries = p.tries /\ q.queue = p.queue, Shut(p) => Shut(q),
         Engines!Spawning(q) \subseteq Engines!Spawning(p), Len(q.inst) <= Len(p.inst)
  PROVE  Keeps(p, q)
<1>1. Cardinality(Engines!Spawning(q)) <= Cardinality(Engines!Spawning(p))
  BY SpawningIs, FS_Subset
<1>2. Load(q) <= Load(p)
  <2>1. Len(q.inst) \in Nat /\ Len(p.inst) \in Nat
    BY LoadIs
  <2>2. Cardinality(Engines!Spawning(q)) \in Nat /\ Cardinality(Engines!Spawning(p)) \in Nat
    BY SpawningIs
  <2> QED BY <1>1, <2>1, <2>2 DEF Load
<1> QED BY <1>2 DEF Keeps

LEMMA BesideKeeps ==
  ASSUME NEW p \in PoolState, NEW q \in PoolState, Aside(p, q),
         p.draining => q.tries = p.tries /\ q.queue = p.queue, Shut(p) => Shut(q)
  PROVE  Keeps(p, q) /\ Engines!Spawning(q) = Engines!Spawning(p)
<1>1. Engines!Spawning(q) = Engines!Spawning(p)
  BY DEF Aside, Engines!Spawning
<1>2. Len(q.inst) <= Len(p.inst)
  BY LoadIs DEF Aside
<1> QED BY <1>1, <1>2, Lighter DEF Aside

LEMMA BreakerUpdated ==
  ASSUME NEW p \in PoolState, NEW q, q = Engines!UpdateBreaker(p)
  PROVE  Keeps(p, q) /\ (q.breaker # "open" => ~Shut(p)) /\ q.queue = p.queue /\ Aside(p, q)
<1>1. CASE p.breaker = "open" /\ p.cooled
  <2>1. q = [p EXCEPT !.breaker = "half-open"]
    BY <1>1 DEF Engines!UpdateBreaker
  <2>2. q \in PoolState /\ Aside(p, q) /\ q.queue = p.queue /\ q.tries = p.tries
    BY <2>1, SetBreaker
  <2> QED BY <1>1, <2>2, BesideKeeps DEF Shut
<1>2. CASE ~(p.breaker = "open" /\ p.cooled)
  <2>1. q = p
    BY <1>2 DEF Engines!UpdateBreaker
  <2> QED BY <2>1, KeepsItself DEF Aside, Shut
<1> QED BY <1>1, <1>2

LEMMA RecordKeeps ==
  ASSUME NEW p \in PoolState, NEW b \in BOOLEAN, NEW q, q = Engines!Record(p, b)
  PROVE  Keeps(p, q) /\ Engines!Spawning(q) = Engines!Spawning(p)
<1> DEFINE n == 1 + IF b THEN p.fails ELSE 0
           fails == Engines!Min({FailureThreshold, n})
<1>1. fails \in Nat
  <2>1. n \in Nat
    BY PoolFields
  <2> HIDE DEF n
  <2>2. FailureThreshold \in Int /\ n \in Int /\ FailureThreshold \in Nat
    BY <2>1, PoolConstants
  <2>3. fails \in {FailureThreshold, n}
    BY <2>2, LeastOfTwo
  <2> QED BY <2>1, <2>2, <2>3
<1> HIDE DEF fails
<1>2. CASE fails < FailureThreshold
  <2>1. q = [p EXCEPT !.fails = fails]
    BY <1>2 DEF Engines!Record, fails
  <2>2. q \in PoolState /\ Aside(p, q) /\ q.queue = p.queue /\ q.tries = p.tries
        /\ q.breaker = p.breaker /\ q.cooled = p.cooled
    BY <1>1, <2>1, SetFails
  <2> QED BY <2>2, BesideKeeps DEF Shut
<1>3. CASE ~(fails < FailureThreshold)
  <2>1. PICK q1 : q1 = [p EXCEPT !.fails = fails]
    OBVIOUS
  <2>2. PICK q2 : q2 = [q1 EXCEPT !.breaker = "open"]
    OBVIOUS
  <2>3. q = [q2 EXCEPT !.cooled = FALSE]
    BY <1>3, <2>1, <2>2 DEF Engines!Record, fails
  <2>4. q1 \in PoolState /\ Aside(p, q1) /\ q1.queue = p.queue /\ q1.tries = p.tries
    BY <1>1, <2>1, SetFails
  <2>5. q2 \in PoolState /\ Aside(q1, q2) /\ q2.queue = q1.queue /\ q2.tries = q1.tries /\ q2.breaker = "open"
    BY <2>2, <2>4, SetBreaker
  <2>6. q \in PoolState /\ Aside(q2, q) /\ q.queue = q2.queue /\ q.tries = q2.tries
        /\ q.breaker = q2.breaker /\ q.cooled = FALSE
    BY <2>3, <2>5 DEF PoolState, Aside
  <2>7. Aside(p, q) /\ q.queue = p.queue /\ q.tries = p.tries /\ Shut(q)
    BY <2>4, <2>5, <2>6 DEF Aside, Shut
  <2> QED BY <2>6, <2>7, BesideKeeps
<1> QED BY <1>2, <1>3

LEMMA Subsets ==
  ASSUME NEW S, IsFiniteSet(S), NEW n \in Nat
  PROVE  \E T \in SUBSET S : Cardinality(T) = Engines!Min({n, Cardinality(S)})
<1> DEFINE m == Cardinality(S)
           k == Engines!Min({n, m})
<1>1. m \in Nat /\ ExistsBijection(1..m, S)
  BY FS_CardinalityType
<1>2. PICK f \in Bijection(1..m, S) : TRUE
  BY <1>1 DEF ExistsBijection
<1>3. f \in [1..m -> S] /\ \A i, j \in 1..m : f[i] = f[j] => i = j
  BY <1>2 DEF Bijection, Injection, IsInjective
<1> HIDE DEF m
<1>4. k \in {n, m} /\ k <= m
  BY <1>1, LeastOfTwo
<1> HIDE DEF k
<1>5. k \in Nat
  BY <1>1, <1>4
<1> DEFINE T == {f[i] : i \in 1..k}
           g == [i \in 1..k |-> f[i]]
<1>6. T \in SUBSET S
  BY <1>1, <1>3, <1>4, <1>5
<1>7. g \in [1..k -> T] /\ (\A i, j \in 1..k : g[i] = g[j] => i = j) /\ \A t \in T : \E i \in 1..k : g[i] = t
  BY <1>1, <1>3, <1>4, <1>5
<1> HIDE DEF T, g
<1>8. g \in Bijection(1..k, T)
  BY <1>7 DEF Bijection, Injection, Surjection, IsInjective
<1>9. ExistsBijection(1..k, T)
  BY <1>8 DEF ExistsBijection
<1>10. IsFiniteSet(1..k) /\ Cardinality(1..k) = k
  BY <1>5, FS_Interval
<1>11. Cardinality(T) = k
  BY <1>9, <1>10, FS_Bijection
<1> QED BY <1>6, <1>11 DEF k, m

LEMMA ProcessIs ==
  /\ Engines!NoProcess \in Engines!ProcessRecord
  /\ \A x \in Engines!ProcessRecord :
       /\ x.st \in {"none", "init", "ready", "setup", "search", "orphan"} /\ x.job \in PoolJob
       /\ x.stop \in BOOLEAN /\ x.killed \in BOOLEAN /\ x.quit \in BOOLEAN
BY DEF Engines!NoProcess, Engines!ProcessRecord, Engines!Job, PoolJob

LEMMA Spawned ==
  ASSUME NEW p \in PoolState, NEW n \in Nat, NEW q, q = Engines!Spawn(p, n)
  PROVE  /\ q \in PoolState /\ q.inst = p.inst /\ q.draining = p.draining /\ q.warm = p.warm /\ q.warmers = p.warmers
         /\ q.queue = p.queue /\ q.tries = p.tries /\ q.breaker = p.breaker /\ q.cooled = p.cooled
         /\ Load(q) <= Load(p) + n
<1> DEFINE free == Engines!Free(p)
           room == Engines!Min({n, Cardinality(free)})
           fresh == CHOOSE S \in SUBSET free : Cardinality(S) = room
<1>1. free \in SUBSET Worker /\ IsFiniteSet(free)
  <2>1. free \in SUBSET Worker
    BY DEF Engines!Free
  <2> HIDE DEF free
  <2> QED BY <2>1, PoolConstants, FS_Subset
<1>2. Cardinality(free) \in Nat
  BY <1>1, FS_CardinalityType
<1>3. fresh \in SUBSET free /\ Cardinality(fresh) = room
  <2> HIDE DEF free
  <2>1. \E S \in SUBSET free : Cardinality(S) = room
    BY <1>1, Subsets
  <2> HIDE DEF room
  <2> QED BY <2>1
<1>4. fresh = CHOOSE S \in SUBSET free : Engines!Cardinality(S) = Engines!Min({n, Engines!Cardinality(free)})
  <2> HIDE DEF free
  <2> QED BY Counting
<1>5. room <= n
  <2> HIDE DEF free
  <2> QED BY <1>2, LeastOfTwo
<1> DEFINE x == [Engines!NoProcess EXCEPT !.st = "init"]
           v == [w \in Worker |-> IF w \in fresh THEN x ELSE p.worker[w]]
<1>6. x \in Engines!ProcessRecord /\ x.st = "init"
  BY DEF Engines!NoProcess, Engines!ProcessRecord
<1>7. q = [p EXCEPT !.worker = v]
  BY <1>4 DEF Engines!Spawn, free
<1> HIDE DEF free, room, fresh, x
<1>8. v \in [Worker -> Engines!ProcessRecord]
  BY <1>6, PoolFields
<1>9. \A w \in Worker : v[w].st = "init" <=> (w \in fresh \/ p.worker[w].st = "init")
  BY <1>6
<1> HIDE DEF v
<1>10. /\ q \in PoolState /\ q.worker = v
       /\ q.inst = p.inst /\ q.draining = p.draining /\ q.warm = p.warm /\ q.warmers = p.warmers
       /\ q.queue = p.queue /\ q.tries = p.tries /\ q.breaker = p.breaker /\ q.cooled = p.cooled
  BY <1>7, <1>8, SetWorker
<1>11. Engines!Spawning(q) = Engines!Spawning(p) \cup fresh
  BY <1>1, <1>3, <1>9, <1>10 DEF Engines!Spawning
<1>12. Load(q) <= Load(p) + n
  <2>1. IsFiniteSet(fresh) /\ Cardinality(fresh) \in Nat /\ Cardinality(fresh) <= n
    <3>1. IsFiniteSet(fresh)
      BY <1>1, <1>3, FS_Subset
    <3>2. Cardinality(fresh) \in Nat
      BY <3>1, FS_CardinalityType
    <3> QED BY <1>3, <1>5, <3>1, <3>2
  <2>2. Cardinality(Engines!Spawning(q)) <= Cardinality(Engines!Spawning(p)) + n
    <3> DEFINE s == Engines!Spawning(p)
    <3>1. IsFiniteSet(s) /\ Cardinality(s) \in Nat
      BY SpawningIs
    <3> HIDE DEF s
    <3>2. Cardinality(s \cup fresh) = Cardinality(s) + Cardinality(fresh) - Cardinality(s \cap fresh)
      BY <2>1, <3>1, FS_Union
    <3>3. Cardinality(s \cap fresh) \in Nat
      <4>1. IsFiniteSet(s \cap fresh)
        BY <3>1, FS_Intersection
      <4> QED BY <4>1, FS_CardinalityType
    <3>4. Cardinality(s \cup fresh) <= Cardinality(s) + n
      BY <2>1, <3>1, <3>2, <3>3
    <3> QED BY <1>11, <3>4 DEF s
  <2>3. Len(q.inst) = Len(p.inst) /\ Len(p.inst) \in Nat
    BY <1>10, LoadIs
  <2>4. Cardinality(Engines!Spawning(q)) \in Nat /\ Cardinality(Engines!Spawning(p)) \in Nat
    BY SpawningIs
  <2> QED BY <2>2, <2>3, <2>4 DEF Load
<1> QED BY <1>10, <1>12

\* A process that is started within the limits, while the breaker lets it.
LEMMA SpawnKeeps ==
  ASSUME NEW p, NEW p0, Keeps(p0, p), ~Shut(p), NEW n \in Nat, Load(p) + n <= MaxWorkers \/ n = 0,
         NEW q, q = Engines!Spawn(p, n)
  PROVE  Keeps(p0, q)
<1>1. p \in PoolState /\ ~Shut(p0)
  BY DEF Keeps
<1>2. /\ q \in PoolState /\ q.draining = p.draining /\ q.warm = p.warm /\ q.warmers = p.warmers
      /\ q.queue = p.queue /\ q.tries = p.tries /\ Load(q) <= Load(p) + n
  BY <1>1, Spawned
<1>3. Load(p) \in Nat /\ Load(q) \in Nat /\ Load(p0) \in Nat /\ MaxWorkers \in Nat
  BY <1>1, <1>2, LoadIs, PoolConstants DEF Keeps
<1>4. Load(q) <= Load(p0) \/ Load(q) <= MaxWorkers
  BY <1>2, <1>3 DEF Keeps
<1> QED BY <1>1, <1>2, <1>4 DEF Keeps

\* The workers that take a job leave no process starting, and the queue shrinks.
LEMMA Assigned ==
  ASSUME NEW p \in PoolState, NEW q, q = Engines!AssignIdle(p)
  PROVE  /\ q \in PoolState /\ q.inst = p.inst /\ q.draining = p.draining /\ q.warm = p.warm /\ q.warmers = p.warmers
         /\ q.breaker = p.breaker /\ q.cooled = p.cooled
         /\ Engines!Spawning(q) \subseteq Engines!Spawning(p)
<1> DEFINE idle == Engines!Idle(p)
           turn(i) == Engines!Cardinality({k \in idle : k <= i})
           takers == {i \in idle : turn(i) <= Len(p.queue)}
           n == Engines!Cardinality(takers)
           given(w) == p.queue[turn(CHOOSE i \in takers : p.inst[i] = w)]
           busy == {p.inst[i] : i \in takers}
<1>1. /\ p.queue \in Seq(PoolJob) /\ Len(p.queue) \in Nat /\ p.inst \in Seq(Worker) /\ Len(p.inst) \in Nat
      /\ p.worker \in [Worker -> Engines!ProcessRecord] /\ p.tries \in [Engines!Job -> Nat] /\ p.reap \in SUBSET Worker
  BY PoolFields
<1>2. idle \in SUBSET (1..Len(p.inst)) /\ IsFiniteSet(idle)
  <2>1. idle \in SUBSET (1..Len(p.inst))
    BY <1>1 DEF Engines!Idle
  <2> HIDE DEF idle
  <2>2. IsFiniteSet(1..Len(p.inst))
    BY <1>1, FS_Interval
  <2> QED BY <2>1, <2>2, FS_Subset
<1> HIDE DEF idle
<1>3. ASSUME NEW i \in idle
      PROVE  turn(i) \in Nat \ {0}
  <2> DEFINE upto == {k \in idle : k <= i}
  <2>1. upto \in SUBSET idle /\ i \in upto
    BY <1>2
  <2> HIDE DEF upto
  <2>2. IsFiniteSet(upto)
    BY <1>2, <2>1, FS_Subset
  <2>3. Cardinality(upto) \in Nat /\ Cardinality(upto) # 0
    BY <2>1, <2>2, FS_CardinalityType, FS_EmptySet
  <2> QED BY <2>3, Counting DEF upto
<1>4. n \in Nat
  <2>1. takers \in SUBSET idle
    OBVIOUS
  <2> HIDE DEF takers
  <2>2. IsFiniteSet(takers)
    BY <1>2, <2>1, FS_Subset
  <2> QED BY <2>2, FS_CardinalityType, Counting
<1>5. \A i \in takers : i \in idle /\ turn(i) \in 1..Len(p.queue) /\ p.inst[i] \in Worker
  BY <1>1, <1>2, <1>3
<1> HIDE DEF turn, n
<1>6. busy \in SUBSET Worker /\ \A w \in busy : \E i \in takers : p.inst[i] = w
  BY <1>5
<1> HIDE DEF takers
<1>7. \A w \in busy : given(w) \in PoolJob
  <2> SUFFICES ASSUME NEW w \in busy
               PROVE  given(w) \in PoolJob
    OBVIOUS
  <2> DEFINE i == CHOOSE i \in takers : p.inst[i] = w
  <2>1. i \in takers
    BY <1>6
  <2> HIDE DEF i
  <2>2. turn(i) \in 1..Len(p.queue)
    BY <1>5, <2>1
  <2>3. p.queue[turn(i)] \in PoolJob
    BY <1>1, <2>2
  <2> QED BY <2>3 DEF i
<1> HIDE DEF busy
<1>8. PICK q1 : q1 = [p EXCEPT !.queue = SubSeq(p.queue, n + 1, Len(p.queue))]
  OBVIOUS
<1> DEFINE taking(x, w) == [x EXCEPT !.st = "setup", !.job = given(w), !.stop = FALSE]
<1>9. PICK q2 : q2 = [q1 EXCEPT !.worker = [w \in Worker |-> IF w \notin busy THEN q1.worker[w]
                                                             ELSE taking(q1.worker[w], w)]]
  OBVIOUS
<1>10. PICK q3 : q3 = [q2 EXCEPT !.tries =
         [j \in Engines!Job |-> q2.tries[j] + Engines!Cardinality({i \in 1..n : p.queue[i] = j})]]
  OBVIOUS
<1>11. q = [q3 EXCEPT !.reap = q3.reap \ busy]
  BY <1>8, <1>9, <1>10 DEF Engines!AssignIdle, turn, takers, n, busy, idle
<1> HIDE DEF taking
<1>12. /\ q1 \in PoolState /\ Aside(p, q1) /\ q1.tries = p.tries /\ q1.breaker = p.breaker /\ q1.cooled = p.cooled
  <2> DEFINE rest == SubSeq(p.queue, n + 1, Len(p.queue))
  <2>1. rest \in Seq(PoolJob)
    BY <1>1, <1>4
  <2>2. q1 = [p EXCEPT !.queue = rest]
    BY <1>8
  <2> HIDE DEF rest
  <2> QED BY <2>1, <2>2, SetQueue
<1>13. \A x \in Engines!ProcessRecord : \A w \in busy :
         taking(x, w) \in Engines!ProcessRecord /\ taking(x, w).st = "setup"
  <2> SUFFICES ASSUME NEW x \in Engines!ProcessRecord, NEW w \in busy
               PROVE  taking(x, w) \in Engines!ProcessRecord /\ taking(x, w).st = "setup"
    OBVIOUS
  <2>1. PICK job \in PoolJob : job = given(w)
    BY <1>7
  <2> DEFINE x1 == [x EXCEPT !.st = "setup"]
             x2 == [x1 EXCEPT !.job = job]
  <2>2. x1 \in Engines!ProcessRecord /\ x1.st = "setup"
    BY DEF Engines!ProcessRecord
  <2> HIDE DEF x1
  <2>3. x2 \in Engines!ProcessRecord /\ x2.st = "setup"
    BY <2>2 DEF Engines!ProcessRecord, PoolJob, Engines!Job
  <2>4. taking(x, w) = [x2 EXCEPT !.stop = FALSE]
    BY <2>1 DEF taking, x1
  <2> HIDE DEF x2
  <2> QED BY <2>3, <2>4 DEF Engines!ProcessRecord
<1> DEFINE v == [w \in Worker |-> IF w \notin busy THEN q1.worker[w] ELSE taking(q1.worker[w], w)]
<1>14. q1.worker = p.worker
  BY <1>12 DEF Aside
<1>15. v \in [Worker -> Engines!ProcessRecord] /\ \A w \in Worker : v[w].st = "init" => p.worker[w].st = "init"
  BY <1>1, <1>13, <1>14
<1>16. q2 = [q1 EXCEPT !.worker = v]
  BY <1>9
<1> HIDE DEF v
<1>17. /\ q2 \in PoolState /\ q2.worker = v
       /\ q2.inst = q1.inst /\ q2.draining = q1.draining /\ q2.warm = q1.warm /\ q2.warmers = q1.warmers
       /\ q2.tries = q1.tries /\ q2.breaker = q1.breaker /\ q2.cooled = q1.cooled
  BY <1>12, <1>15, <1>16, SetWorker
<1> DEFINE tries == [j \in Engines!Job |-> q2.tries[j] + Engines!Cardinality({i \in 1..n : p.queue[i] = j})]
<1>18. tries \in [Engines!Job -> Nat]
  <2> SUFFICES ASSUME NEW j \in Engines!Job
               PROVE  q2.tries[j] + Engines!Cardinality({i \in 1..n : p.queue[i] = j}) \in Nat
    OBVIOUS
  <2> DEFINE given2 == {i \in 1..n : p.queue[i] = j}
  <2>1. given2 \in SUBSET (1..n) /\ IsFiniteSet(1..n)
    BY <1>4, FS_Interval
  <2> HIDE DEF given2
  <2>2. Cardinality(given2) \in Nat
    BY <2>1, FS_Subset, FS_CardinalityType
  <2>3. q2.tries[j] \in Nat
    BY <1>1, <1>12, <1>17
  <2>4. Engines!Cardinality(given2) \in Nat
    BY <2>2, Counting
  <2> QED BY <2>3, <2>4 DEF given2
<1>19. q3 = [q2 EXCEPT !.tries = tries]
  BY <1>10
<1> HIDE DEF tries
<1>20. q3 \in PoolState /\ Aside(q2, q3) /\ q3.breaker = q2.breaker /\ q3.cooled = q2.cooled
  BY <1>17, <1>18, <1>19, SetTries
<1>21. q3.reap \ busy \in SUBSET Worker
  BY <1>20, PoolFields
<1>22. q \in PoolState /\ Aside(q3, q) /\ q.breaker = q3.breaker /\ q.cooled = q3.cooled
  BY <1>11, <1>20, <1>21, SetReap
<1>23. /\ q.inst = p.inst /\ q.draining = p.draining /\ q.warm = p.warm /\ q.warmers = p.warmers
       /\ q.breaker = p.breaker /\ q.cooled = p.cooled /\ q.worker = v
  BY <1>12, <1>17, <1>20, <1>22 DEF Aside
<1>24. Engines!Spawning(q) \subseteq Engines!Spawning(p)
  BY <1>15, <1>23 DEF Engines!Spawning
<1> QED BY <1>22, <1>23, <1>24

LEMMA HeadroomIs ==
  ASSUME NEW p \in PoolState
  PROVE  Engines!Headroom(p) \in Nat /\ (Load(p) + Engines!Headroom(p) <= MaxWorkers \/ Engines!Headroom(p) = 0)
<1> DEFINE d == MaxWorkers - Load(p)
<1>1. Load(p) \in Nat /\ MaxWorkers \in Nat /\ d \in Int /\ 0 \in Int
  BY LoadIs, PoolConstants
<1>2. Engines!Headroom(p) = Engines!Max({0, d})
  BY Counting DEF Engines!Headroom, Load
<1> HIDE DEF d
<1>3. Engines!Max({0, d}) \in {0, d} /\ Engines!Max({0, d}) >= 0
  BY <1>1, LeastOfTwo
<1> QED BY <1>1, <1>2, <1>3 DEF d

LEMMA DispatchKeeps ==
  ASSUME NEW p \in PoolState, NEW q, q = Engines!Dispatch(p)
  PROVE  Keeps(p, q)
<1>1. CASE p.draining
  BY <1>1, KeepsItself DEF Engines!Dispatch
<1>2. CASE ~p.draining
  <2>1. PICK a : a = Engines!AssignIdle(p)
    OBVIOUS
  <2>2. /\ a \in PoolState /\ a.inst = p.inst /\ a.draining = p.draining /\ a.warm = p.warm /\ a.warmers = p.warmers
        /\ a.breaker = p.breaker /\ a.cooled = p.cooled /\ Engines!Spawning(a) \subseteq Engines!Spawning(p)
    BY <2>1, Assigned
  <2>3. Keeps(p, a)
    <3>1. Len(a.inst) <= Len(p.inst) /\ (Shut(p) => Shut(a))
      BY <2>2, LoadIs DEF Shut
    <3> QED BY <1>2, <2>2, <3>1, Lighter
  <2>4. PICK b : b = Engines!UpdateBreaker(a)
    OBVIOUS
  <2>5. Keeps(a, b) /\ (b.breaker # "open" => ~Shut(a)) /\ b.queue = a.queue /\ b \in PoolState
    BY <2>2, <2>4, BreakerUpdated DEF Keeps
  <2>6. Keeps(p, b)
    BY <2>3, <2>5, KeepsOn
  <2> DEFINE n == Engines!Min({Engines!Headroom(b), Len(b.queue)})
  <2>7. q = IF a.queue = <<>> THEN a ELSE IF b.breaker = "open" THEN b ELSE Engines!Spawn(b, n)
    BY <1>2, <2>1, <2>4 DEF Engines!Dispatch
  <2>8. n \in Nat /\ (Load(b) + n <= MaxWorkers \/ n = 0)
    <3> DEFINE h == Engines!Headroom(b)
               l == Len(b.queue)
    <3>1. h \in Nat /\ (Load(b) + h <= MaxWorkers \/ h = 0) /\ Load(b) \in Nat /\ MaxWorkers \in Nat
      BY <2>5, HeadroomIs, LoadIs, PoolConstants
    <3>2. l \in Nat
      BY <2>5, PoolFields
    <3> HIDE DEF h, l
    <3>3. h \in Int /\ l \in Int
      BY <3>1, <3>2
    <3>4. Engines!Min({h, l}) \in {h, l} /\ Engines!Min({h, l}) <= h
      BY <3>3, LeastOfTwo
    <3> QED BY <3>1, <3>2, <3>4 DEF h, l
  <2> HIDE DEF n
  <2>9. CASE b.breaker # "open"
    <3>1. ~Shut(b)
      BY <2>9 DEF Shut
    <3>2. Keeps(p, Engines!Spawn(b, n))
      BY <2>6, <2>8, <3>1, SpawnKeeps
    <3> QED BY <2>3, <2>7, <2>9, <3>2
  <2> QED BY <2>3, <2>6, <2>7, <2>9
<1> QED BY <1>1, <1>2

LEMMA ReplenishKeeps ==
  ASSUME NEW p \in PoolState, NEW q, q = Engines!Replenish(p)
  PROVE  Keeps(p, q)
<1>1. CASE p.draining
  BY <1>1, KeepsItself DEF Engines!Replenish
<1>2. CASE ~p.draining
  <2>1. PICK b : b = Engines!UpdateBreaker(p)
    OBVIOUS
  <2>2. Keeps(p, b) /\ b \in PoolState
    BY <2>1, BreakerUpdated DEF Keeps
  <2>3. q = IF b.breaker # "open" /\ Load(b) < MinWorkers THEN Engines!Spawn(b, 1) ELSE Engines!Dispatch(b)
    BY <1>2, <2>1, Counting DEF Engines!Replenish, Load
  <2>4. CASE b.breaker # "open" /\ Load(b) < MinWorkers
    <3>1. ~Shut(b) /\ Load(b) + 1 <= MaxWorkers
      BY <2>2, <2>4, LoadIs, PoolConstants DEF Shut
    <3> QED BY <2>2, <2>3, <2>4, <3>1, SpawnKeeps
  <2>5. CASE ~(b.breaker # "open" /\ Load(b) < MinWorkers)
    <3>1. Keeps(b, q)
      BY <2>2, <2>3, <2>5, DispatchKeeps
    <3> QED BY <2>2, <3>1, KeepsOn
  <2> QED BY <2>4, <2>5
<1> QED BY <1>1, <1>2

LEMMA WithoutIs ==
  ASSUME NEW S, NEW s \in Seq(S), NEW e, NEW r, r = Engines!Without(s, e)
  PROVE  r \in Seq(S) /\ Len(r) <= Len(s)
<1>1. CASE e \notin Engines!Range(s)
  BY <1>1 DEF Engines!Without
<1>2. CASE e \in Engines!Range(s)
  <2> DEFINE i == CHOOSE i \in DOMAIN s : s[i] = e
  <2>1. i \in DOMAIN s
    BY <1>2 DEF Engines!Range
  <2>2. r = SubSeq(s, 1, i - 1) \o SubSeq(s, i + 1, Len(s))
    BY <1>2 DEF Engines!Without, Engines!RemoveAt
  <2>3. i \in 1..Len(s) /\ Len(s) \in Nat
    BY <2>1
  <2> HIDE DEF i
  <2>4. PICK a : a = SubSeq(s, 1, i - 1)
    OBVIOUS
  <2>5. PICK b : b = SubSeq(s, i + 1, Len(s))
    OBVIOUS
  <2>6. a \in Seq(S) /\ Len(a) = i - 1
    BY <2>3, <2>4
  <2>7. b \in Seq(S) /\ Len(b) = Len(s) - i
    BY <2>3, <2>5
  <2>8. a \o b \in Seq(S) /\ Len(a \o b) = Len(a) + Len(b)
    BY <2>6, <2>7
  <2>9. r = a \o b
    BY <2>2, <2>4, <2>5
  <2>10. Len(a \o b) = Len(s) - 1
    BY <2>3, <2>6, <2>7, <2>8
  <2> QED BY <2>3, <2>8, <2>9, <2>10
<1> QED BY <1>1, <1>2

LEMMA WithoutNothing == \A e : Engines!Without(<<>>, e) = <<>>
BY DEF Engines!Without, Engines!Range

\* One worker changes, and is not starting unless it was.
LEMMA SetOne ==
  ASSUME NEW p \in PoolState, NEW w \in Worker, NEW x \in Engines!ProcessRecord,
         x.st = "init" => p.worker[w].st = "init",
         NEW q, q = [p EXCEPT !.worker[w] = x]
  PROVE  /\ Keeps(p, q) /\ q.worker[w] = x /\ q.inst = p.inst /\ q.warmers = p.warmers
         /\ q.queue = p.queue /\ q.breaker = p.breaker /\ q.cooled = p.cooled
         /\ Engines!Spawning(q) = IF x.st = "init" THEN Engines!Spawning(p) ELSE Engines!Spawning(p) \ {w}
<1>1. PICK v : v = [p.worker EXCEPT ![w] = x]
  OBVIOUS
<1>2. p.worker \in [Worker -> Engines!ProcessRecord]
  BY PoolFields
<1>3. /\ v \in [Worker -> Engines!ProcessRecord] /\ v[w] = x
      /\ \A u \in Worker : u # w => v[u] = p.worker[u]
  BY <1>1, <1>2
<1>4. PICK z : z = [p EXCEPT !.worker = v]
  OBVIOUS
<1>10. /\ z \in PoolState /\ z.worker = v
       /\ z.inst = p.inst /\ z.draining = p.draining /\ z.warm = p.warm /\ z.warmers = p.warmers
       /\ z.queue = p.queue /\ z.tries = p.tries /\ z.breaker = p.breaker /\ z.cooled = p.cooled
  BY <1>3, <1>4, SetWorker
<1>11. q = z
  BY <1>1, <1>4
<1>5. /\ q \in PoolState /\ q.worker = v
      /\ q.inst = p.inst /\ q.draining = p.draining /\ q.warm = p.warm /\ q.warmers = p.warmers
      /\ q.queue = p.queue /\ q.tries = p.tries /\ q.breaker = p.breaker /\ q.cooled = p.cooled
  BY <1>10, <1>11
<1>6. Engines!Spawning(q) = IF x.st = "init" THEN Engines!Spawning(p) ELSE Engines!Spawning(p) \ {w}
  BY <1>3, <1>5 DEF Engines!Spawning
<1>7. Engines!Spawning(q) \subseteq Engines!Spawning(p)
  BY <1>6
<1>8. Len(q.inst) <= Len(p.inst) /\ (Shut(p) => Shut(q))
  BY <1>5, LoadIs DEF Shut
<1>9. Keeps(p, q)
  BY <1>5, <1>7, <1>8, Lighter
<1> QED BY <1>3, <1>5, <1>6, <1>9

LEMMA DeadHandled ==
  ASSUME NEW p \in PoolState, NEW w, NEW expected, NEW b \in BOOLEAN,
         NEW q, q = Engines!HandleDead(p, w, expected, b)
  PROVE  Keeps(p, q)
<1> DEFINE inst == Engines!Without(p.inst, w)
<1>1. inst \in Seq(Worker) /\ Len(inst) <= Len(p.inst)
  BY PoolFields, WithoutIs
<1> HIDE DEF inst
<1>2. PICK p1 : p1 = [p EXCEPT !.inst = inst]
  OBVIOUS
<1>3. PICK p2 : p2 = [p1 EXCEPT !.reap = p1.reap \ {w}]
  OBVIOUS
<1>4. /\ p1 \in PoolState /\ p1.inst = inst
      /\ p1.worker = p.worker /\ p1.draining = p.draining /\ p1.warm = p.warm /\ p1.warmers = p.warmers
      /\ p1.queue = p.queue /\ p1.tries = p.tries /\ p1.breaker = p.breaker /\ p1.cooled = p.cooled
  BY <1>1, <1>2, SetInst
<1>5. Keeps(p, p1)
  <2>1. Engines!Spawning(p1) \subseteq Engines!Spawning(p)
    BY <1>4 DEF Engines!Spawning
  <2> QED BY <1>1, <1>4, <2>1, Lighter DEF Shut
<1>6. p1.reap \ {w} \in SUBSET Worker
  BY <1>4, PoolFields
<1>7. /\ p2 \in PoolState /\ Aside(p1, p2)
      /\ p2.queue = p1.queue /\ p2.tries = p1.tries /\ p2.breaker = p1.breaker /\ p2.cooled = p1.cooled
  BY <1>3, <1>4, <1>6, SetReap
<1>8. Keeps(p, p2)
  <2>1. Keeps(p1, p2)
    BY <1>4, <1>7, BesideKeeps DEF Shut
  <2> QED BY <1>5, <2>1, KeepsOn
<1>9. q = IF expected \/ p2.draining THEN p2 ELSE Engines!Replenish(Engines!Record(p2, b))
  BY <1>2, <1>3 DEF Engines!HandleDead, inst
<1>10. PICK p3 : p3 = Engines!Record(p2, b)
  OBVIOUS
<1>11. Keeps(p2, p3) /\ p3 \in PoolState
  BY <1>7, <1>10, RecordKeeps DEF Keeps
<1>12. PICK p4 : p4 = Engines!Replenish(p3)
  OBVIOUS
<1>13. Keeps(p3, p4)
  BY <1>11, <1>12, ReplenishKeeps
<1> QED BY <1>8, <1>9, <1>10, <1>11, <1>12, <1>13, KeepsOn

LEMMA JobEnqueued ==
  ASSUME NEW p \in PoolState, ~p.draining, NEW j \in PoolJob, NEW q, q = Engines!EnqueueJob(p, j)
  PROVE  Keeps(p, q)
<1>1. PICK v : v = Append(p.queue, j)
  OBVIOUS
<1>2. v \in Seq(PoolJob)
  BY <1>1, PoolFields
<1>3. PICK a : a = [p EXCEPT !.queue = v]
  OBVIOUS
<1>4. a \in PoolState /\ Aside(p, a) /\ a.breaker = p.breaker /\ a.cooled = p.cooled
  BY <1>2, <1>3, SetQueue
<1>5. Keeps(p, a)
  BY <1>4, BesideKeeps DEF Shut
<1>6. q = Engines!Dispatch(a)
  BY <1>1, <1>3 DEF Engines!EnqueueJob
<1>7. Keeps(a, q)
  BY <1>4, <1>6, DispatchKeeps
<1> QED BY <1>5, <1>7, KeepsOn

LEMMA WorkerFreed ==
  ASSUME NEW p \in PoolState, NEW w \in Worker, NEW q, q = Engines!WorkerFree(p, w)
  PROVE  Keeps(p, q)
<1>1. PICK a : a = [p EXCEPT !.reap = p.reap \cup {w}]
  OBVIOUS
<1>2. p.reap \cup {w} \in SUBSET Worker
  BY PoolFields
<1>3. a \in PoolState /\ Aside(p, a) /\ a.queue = p.queue /\ a.tries = p.tries
      /\ a.breaker = p.breaker /\ a.cooled = p.cooled
  BY <1>1, <1>2, SetReap
<1>4. Keeps(p, a)
  BY <1>3, BesideKeeps DEF Shut
<1>5. q = p \/ q = Engines!Dispatch(a) \/ q = Engines!Dispatch(p)
  BY <1>1 DEF Engines!WorkerFree
<1>6. CASE q = Engines!Dispatch(a)
  <2>1. Keeps(a, q)
    BY <1>3, <1>6, DispatchKeeps
  <2> QED BY <1>4, <2>1, KeepsOn
<1> QED BY <1>5, <1>6, KeepsItself, DispatchKeeps

LEMMA SearchEnded ==
  ASSUME NEW p \in PoolState, NEW w \in Worker, NEW alive \in BOOLEAN, NEW q, q = Engines!EndSearch(p, w, alive)
  PROVE  Keeps(p, q)
<1>1. p.worker[w] \in Engines!ProcessRecord
  BY PoolFields
<1> DEFINE rest == IF w \in Engines!Range(p.inst) THEN "ready" ELSE "orphan"
           y == p.worker[w]
           y1 == [y EXCEPT !.job = NoJob]
           y2 == [y1 EXCEPT !.stop = FALSE]
           y3 == [y2 EXCEPT !.st = rest]
           x == IF ~alive THEN Engines!NoProcess ELSE y3
<1>2. q = [p EXCEPT !.worker[w] = x]
  BY DEF Engines!EndSearch
<1>3. x \in Engines!ProcessRecord /\ x.st # "init"
  <2>1. rest \in {"ready", "orphan"}
    OBVIOUS
  <2> HIDE DEF rest
  <2>2. y1 \in Engines!ProcessRecord
    <3> HIDE DEF y
    <3>1. y \in Engines!ProcessRecord
      BY <1>1 DEF y
    <3> QED BY <3>1 DEF Engines!ProcessRecord
  <2> HIDE DEF y1
  <2>3. y2 \in Engines!ProcessRecord
    BY <2>2 DEF Engines!ProcessRecord
  <2> HIDE DEF y2
  <2>4. y3 \in Engines!ProcessRecord /\ y3.st = rest
    BY <2>1, <2>3 DEF Engines!ProcessRecord
  <2> HIDE DEF y3
  <2>5. Engines!NoProcess.st = "none"
    BY DEF Engines!NoProcess
  <2> QED BY <2>1, <2>4, <2>5, ProcessIs
<1> HIDE DEF x
<1> QED BY <1>2, <1>3, SetOne

\* The reactions to a search that failed.
LEMMA FailureHandled ==
  ASSUME NEW p \in PoolState, NEW w \in Worker, NEW j \in PoolJob, NEW alive \in BOOLEAN,
         Engines!JobFails(p, w, j, alive)
  PROVE  Keeps(p, pool')
<1>1. PICK q : q = Engines!EndSearch(p, w, alive)
  OBVIOUS
<1>2. Keeps(p, q) /\ q \in PoolState
  BY <1>1, SearchEnded DEF Keeps
<1>3. PICK e : e = Engines!EnqueueJob(q, j)
  OBVIOUS
<1>4. \E r \in {q, e} : pool' = Engines!WorkerFree(r, w) /\ (r # q => ~q.draining)
  BY <1>1, <1>3 DEF Engines!JobFails
<1>5. PICK r \in {q, e} : pool' = Engines!WorkerFree(r, w) /\ (r # q => ~q.draining)
  BY <1>4
<1>6. Keeps(q, r) /\ r \in PoolState
  <2>1. CASE r = q
    BY <1>2, <2>1, KeepsItself
  <2>2. CASE r # q
    <3>1. Keeps(q, e)
      BY <1>2, <1>3, <1>5, <2>2, JobEnqueued
    <3> QED BY <1>5, <2>2, <3>1 DEF Keeps
  <2> QED BY <2>1, <2>2
<1>7. PICK z : z = Engines!WorkerFree(r, w)
  OBVIOUS
<1>8. Keeps(r, z)
  BY <1>6, <1>7, WorkerFreed
<1> QED BY <1>2, <1>5, <1>6, <1>7, <1>8, KeepsOn

\* A spawn is over.
LEMMA SpawnEnded ==
  ASSUME NEW p \in PoolState, NEW w \in Worker, NEW left \in Engines!ProcessRecord, left.st # "init",
         NEW q, q = Engines!EndSpawn(p, w, left)
  PROVE  /\ Keeps(p, q) /\ q.inst = p.inst /\ q.breaker = p.breaker /\ q.cooled = p.cooled
         /\ Engines!Spawning(q) = Engines!Spawning(p) \ {w}
<1>1. PICK a : a = [p EXCEPT !.worker[w] = left]
  OBVIOUS
<1>2. /\ Keeps(p, a) /\ a.inst = p.inst /\ a.breaker = p.breaker /\ a.cooled = p.cooled
      /\ Engines!Spawning(a) = Engines!Spawning(p) \ {w} /\ a \in PoolState
  BY <1>1, SetOne DEF Keeps
<1>3. q = [a EXCEPT !.warmers = a.warmers \ {w}]
  BY <1>1 DEF Engines!EndSpawn
<1>4. /\ q \in PoolState /\ q.warmers = a.warmers \ {w}
      /\ q.inst = a.inst /\ q.worker = a.worker /\ q.draining = a.draining /\ q.warm = a.warm
      /\ q.queue = a.queue /\ q.tries = a.tries /\ q.breaker = a.breaker /\ q.cooled = a.cooled
  BY <1>2, <1>3 DEF PoolState
<1>5. Engines!Spawning(q) = Engines!Spawning(a)
  BY <1>4 DEF Engines!Spawning
<1>6. Len(q.inst) <= Len(a.inst) /\ q.warmers \subseteq a.warmers /\ Engines!Spawning(q) \subseteq Engines!Spawning(a)
      /\ (Shut(a) => Shut(q))
  BY <1>2, <1>4, <1>5, LoadIs DEF Shut
<1>7. Keeps(a, q)
  BY <1>2, <1>4, <1>6, Lighter
<1> QED BY <1>2, <1>4, <1>5, <1>7, KeepsOn

LEMMA SpawnAnswered ==
  ASSUME NEW p \in PoolState, NEW w \in Worker, NEW q, q = Engines!AfterSpawn(p, w)
  PROVE  Keeps(p, q)
BY KeepsItself, DispatchKeeps DEF Engines!AfterSpawn

\* The inductive invariant: what drains has no queue, and what loads the pool beyond
\* its maximum is the one warm-up.
WarmUp == Engines!Max({1, MinWorkers})

PoolOK(p) ==
  /\ p \in PoolState
  /\ p.draining => p.queue = <<>>
  /\ p.warm = "none" => p.warmers = {}
  /\ Load(p) <= MaxWorkers + IF p.warm = "none" THEN 0 ELSE WarmUp

\* What every step does with the pool.
Goes(p, q) ==
  /\ PoolOK(q)
  /\ /\ p.breaker = "open" /\ ~p.cooled
     /\ q.breaker # "closed" /\ q.warmers \subseteq p.warmers
     => Engines!Spawning(q) \subseteq Engines!Spawning(p)
  /\ p.draining => q.tries = p.tries /\ q.queue = <<>>

LEMMA WarmUpIs == WarmUp \in Nat
<1>1. MinWorkers \in Int /\ MinWorkers \in Nat /\ 1 \in Int
  BY PoolConstants
<1>2. \A a, b \in Int : Engines!Max({a, b}) \in {a, b}
  BY LeastOfTwo
<1>3. Engines!Max({1, MinWorkers}) \in {1, MinWorkers}
  BY <1>1, <1>2
<1> QED BY <1>1, <1>3 DEF WarmUp

LEMMA KeptGoes ==
  ASSUME NEW p, NEW q, PoolOK(p), Keeps(p, q)
  PROVE  Goes(p, q)
<1>1. Load(p) \in Nat /\ Load(q) \in Nat /\ MaxWorkers \in Nat /\ WarmUp \in Nat
  BY LoadIs, WarmUpIs, PoolConstants DEF Keeps
<1>2. Load(q) <= MaxWorkers + IF q.warm = "none" THEN 0 ELSE WarmUp
  BY <1>1 DEF PoolOK, Keeps
<1> QED BY <1>2 DEF PoolOK, Keeps, Goes, Shut

\* A step that starts nothing, whatever it does to the breaker, the warm-up or the drain.
LEMMA RestingGoes ==
  ASSUME NEW p, NEW q \in PoolState, PoolOK(p),
         Len(q.inst) <= Len(p.inst), Engines!Spawning(q) \subseteq Engines!Spawning(p),
         q.warm = "none" <=> p.warm = "none", q.warmers \subseteq p.warmers,
         q.draining => q.queue = <<>>, p.draining => q.draining /\ q.tries = p.tries
  PROVE  Goes(p, q)
<1>1. p \in PoolState
  BY DEF PoolOK
<1>2. Cardinality(Engines!Spawning(q)) <= Cardinality(Engines!Spawning(p))
  BY SpawningIs, FS_Subset
<1>3. Load(q) <= Load(p)
  <2>1. Len(q.inst) \in Nat /\ Len(p.inst) \in Nat
    BY <1>1, LoadIs
  <2>2. Cardinality(Engines!Spawning(q)) \in Nat /\ Cardinality(Engines!Spawning(p)) \in Nat
    BY SpawningIs
  <2> QED BY <1>2, <2>1, <2>2 DEF Load
<1>4. Load(p) \in Nat /\ Load(q) \in Nat /\ MaxWorkers \in Nat /\ WarmUp \in Nat
  BY <1>1, LoadIs, WarmUpIs, PoolConstants
<1>5. Load(q) <= MaxWorkers + IF q.warm = "none" THEN 0 ELSE WarmUp
  BY <1>3, <1>4 DEF PoolOK
<1> QED BY <1>5 DEF PoolOK, Goes

LEMMA SubmitGoes ==
  ASSUME PoolOK(pool), NEW j \in Engines!Job, Engines!Submit(j)
  PROVE  Goes(pool, pool')
<1>1. pool \in PoolState /\ j \in PoolJob
  BY DEF PoolOK, Engines!Job, PoolJob
<1>2. PICK p : p = Engines!UpdateBreaker(pool)
  OBVIOUS
<1>3. Keeps(pool, p) /\ p \in PoolState /\ p.draining = pool.draining
  BY <1>1, <1>2, BreakerUpdated DEF Keeps
<1>4. CASE pool' = pool
  BY <1>1, <1>4, KeepsItself, KeptGoes
<1>5. CASE pool' = p
  BY <1>3, <1>5, KeptGoes
<1>6. CASE ~pool.draining /\ pool' = Engines!EnqueueJob(p, j)
  <2>1. PICK e : e = Engines!EnqueueJob(p, j)
    OBVIOUS
  <2>2. Keeps(p, e)
    BY <1>1, <1>3, <1>6, <2>1, JobEnqueued
  <2>3. Keeps(pool, e)
    BY <1>3, <2>2, KeepsOn
  <2> QED BY <1>6, <2>1, <2>3, KeptGoes
<1> QED BY <1>2, <1>4, <1>5, <1>6 DEF Engines!Submit

LEMMA AnalyzeGoes ==
  ASSUME PoolOK(pool), NEW j \in Engines!Job, Engines!AnalyzeCall(j)
  PROVE  Goes(pool, pool')
<1>1. pool \in PoolState
  BY DEF PoolOK
<1>2. CASE pool' = pool
  BY <1>1, <1>2, KeepsItself, KeptGoes
<1>3. CASE Engines!Submit(j)
  BY <1>3, SubmitGoes
<1> DEFINE n == Engines!Max({1, MinWorkers})
<1>4. CASE /\ pool.warm = "none"
           /\ pool' = [Engines!Spawn(pool, n) EXCEPT !.warm = "pending",
                         !.warmers = Engines!Spawning(Engines!Spawn(pool, n)) \ Engines!Spawning(pool)]
  <2>1. n = WarmUp /\ n \in Nat
    BY WarmUpIs DEF WarmUp
  <2>2. PICK p : p = Engines!Spawn(pool, n)
    OBVIOUS
  <2> HIDE DEF n
  <2>3. PICK x : x = Engines!Spawning(p) \ Engines!Spawning(pool)
    OBVIOUS
  <2>4. /\ p \in PoolState /\ p.inst = pool.inst /\ p.draining = pool.draining
        /\ p.queue = pool.queue /\ p.tries = pool.tries
        /\ Load(p) <= Load(pool) + n
    BY <1>1, <2>1, <2>2, Spawned
  <2>18. PICK v \in {"none", "pending", "done", "failed"} : v = "pending"
    OBVIOUS
  <2>5. PICK q : q = [p EXCEPT !.warm = v, !.warmers = x]
    OBVIOUS
  <2>6. x \in SUBSET Worker
    BY <2>3, SpawningIs
  <2>7. /\ q \in PoolState /\ q.warm = "pending" /\ q.warmers = x
        /\ q.inst = p.inst /\ q.worker = p.worker /\ q.draining = p.draining
        /\ q.queue = p.queue /\ q.tries = p.tries
    BY <2>4, <2>5, <2>6, <2>18 DEF PoolState
  <2>8. Engines!Spawning(q) = Engines!Spawning(p)
    BY <2>7 DEF Engines!Spawning
  <2>9. Load(q) = Load(p)
    BY <2>7, <2>8 DEF Load
  <2>10. Load(pool) \in Nat /\ Load(p) \in Nat /\ MaxWorkers \in Nat
    BY <1>1, <2>4, LoadIs, PoolConstants
  <2>11. Load(pool) <= MaxWorkers + 0 /\ pool.warmers = {}
    BY <1>4 DEF PoolOK
  <2>12. Load(q) <= MaxWorkers + IF q.warm = "none" THEN 0 ELSE WarmUp
    BY <2>1, <2>4, <2>7, <2>9, <2>10, <2>11
  <2>13. PoolOK(q)
    BY <2>4, <2>7, <2>12 DEF PoolOK
  <2>14. q.warmers \subseteq pool.warmers => Engines!Spawning(q) \subseteq Engines!Spawning(pool)
    BY <2>3, <2>7, <2>8, <2>11
  <2>15. pool.draining => q.tries = pool.tries /\ q.queue = <<>>
    BY <2>4, <2>7 DEF PoolOK
  <2>16. Goes(pool, q)
    BY <2>13, <2>14, <2>15 DEF Goes
  <2>17. pool' = q
    BY <1>4, <2>2, <2>3, <2>5, <2>18
  <2> QED BY <2>16, <2>17
<1> QED BY <1>2, <1>3, <1>4 DEF Engines!AnalyzeCall

LEMMA WarmupGoes == PoolOK(pool) /\ Engines!WarmupEnds => Goes(pool, pool')
<1> SUFFICES ASSUME PoolOK(pool), Engines!WarmupEnds
             PROVE  Goes(pool, pool')
  OBVIOUS
<1>1. pool \in PoolState /\ pool.warm = "pending"
  BY DEF PoolOK, Engines!WarmupEnds
<1>2. PICK v \in {"done", "failed"} : pool' = [pool EXCEPT !.warm = v]
  BY DEF Engines!WarmupEnds
<1>3. /\ pool' \in PoolState /\ pool'.warm = v
      /\ pool'.inst = pool.inst /\ pool'.worker = pool.worker /\ pool'.draining = pool.draining
      /\ pool'.queue = pool.queue /\ pool'.tries = pool.tries /\ pool'.warmers = pool.warmers
  BY <1>1, <1>2 DEF PoolState
<1>4. Engines!Spawning(pool') = Engines!Spawning(pool)
  BY <1>3 DEF Engines!Spawning
<1>5. Len(pool'.inst) <= Len(pool.inst)
  BY <1>1, <1>3, LoadIs
<1> QED BY <1>1, <1>3, <1>4, <1>5, RestingGoes DEF PoolOK

LEMMA AbortGoes ==
  ASSUME PoolOK(pool), NEW j \in Engines!Job, Engines!Abort(j)
  PROVE  Goes(pool, pool')
<1>1. pool \in PoolState /\ pool.worker \in [Worker -> Engines!ProcessRecord] /\ pool.queue \in Seq(PoolJob)
  BY PoolFields DEF PoolOK
<1>2. CASE pool' = [pool EXCEPT !.queue = Engines!Without(pool.queue, j)]
  <2>1. PICK v : v = Engines!Without(pool.queue, j)
    OBVIOUS
  <2>2. v \in Seq(PoolJob)
    BY <1>1, <2>1, WithoutIs
  <2>3. pool.draining => v = pool.queue
    BY <2>1, WithoutNothing DEF PoolOK
  <2>4. PICK q : q = [pool EXCEPT !.queue = v]
    OBVIOUS
  <2>5. q \in PoolState /\ q.queue = v /\ Aside(pool, q) /\ q.tries = pool.tries
        /\ q.breaker = pool.breaker /\ q.cooled = pool.cooled
    BY <1>1, <2>2, <2>4, SetQueue
  <2>6. Keeps(pool, q)
    BY <1>1, <2>3, <2>5, BesideKeeps DEF Shut
  <2>7. pool' = q
    BY <1>2, <2>1, <2>4
  <2> QED BY <2>6, <2>7, KeptGoes
<1> DEFINE stopped(x) == IF x.job = j /\ x.st = "search" THEN [x EXCEPT !.stop = TRUE] ELSE x
           v == [w \in Worker |-> stopped(pool.worker[w])]
<1>3. CASE pool' = [pool EXCEPT !.worker = v]
  <2>1. \A x \in Engines!ProcessRecord : stopped(x) \in Engines!ProcessRecord /\ stopped(x).st = x.st
    BY DEF Engines!ProcessRecord
  <2> HIDE DEF stopped
  <2>2. v \in [Worker -> Engines!ProcessRecord] /\ \A w \in Worker : v[w].st = pool.worker[w].st
    BY <1>1, <2>1
  <2> HIDE DEF v
  <2>3. PICK q : q = [pool EXCEPT !.worker = v]
    OBVIOUS
  <2>4. /\ q \in PoolState /\ q.worker = v
        /\ q.inst = pool.inst /\ q.draining = pool.draining /\ q.warm = pool.warm /\ q.warmers = pool.warmers
        /\ q.queue = pool.queue /\ q.tries = pool.tries /\ q.breaker = pool.breaker /\ q.cooled = pool.cooled
    BY <1>1, <2>2, <2>3, SetWorker
  <2>5. Engines!Spawning(q) \subseteq Engines!Spawning(pool)
    BY <2>2, <2>4 DEF Engines!Spawning
  <2>6. Keeps(pool, q)
    <3>1. Len(q.inst) <= Len(pool.inst) /\ (Shut(pool) => Shut(q))
      BY <1>1, <2>4, LoadIs DEF Shut
    <3> QED BY <1>1, <2>4, <2>5, <3>1, Lighter
  <2>7. pool' = q
    BY <1>3, <2>3
  <2> QED BY <2>6, <2>7, KeptGoes
<1> QED BY <1>2, <1>3 DEF Engines!Abort

\* A closed breaker stays closed while jobs are handed out.
LEMMA ClosedStays ==
  ASSUME NEW p \in PoolState, p.breaker = "closed", NEW q, q = Engines!Dispatch(p)
  PROVE  q.breaker = "closed"
<1>1. CASE p.draining
  BY <1>1 DEF Engines!Dispatch
<1>2. CASE ~p.draining
  <2>1. PICK a : a = Engines!AssignIdle(p)
    OBVIOUS
  <2>2. a \in PoolState /\ a.breaker = "closed"
    BY <2>1, Assigned
  <2>3. Engines!UpdateBreaker(a) = a
    BY <2>2 DEF Engines!UpdateBreaker
  <2> DEFINE n == Engines!Min({Engines!Headroom(a), Len(a.queue)})
  <2>4. q = a \/ q = Engines!Spawn(a, n)
    BY <1>2, <2>1, <2>3 DEF Engines!Dispatch
  <2>5. n \in Nat
    <3>1. Engines!Headroom(a) \in Nat /\ Len(a.queue) \in Nat
      BY <2>2, HeadroomIs, PoolFields
    <3>2. \A x, y \in Int : Engines!Min({x, y}) \in {x, y}
      BY LeastOfTwo
    <3>3. Engines!Headroom(a) \in Int /\ Len(a.queue) \in Int
      BY <3>1
    <3> QED BY <3>1, <3>2, <3>3
  <2> HIDE DEF n
  <2>6. CASE q = Engines!Spawn(a, n)
    BY <2>2, <2>5, <2>6, Spawned
  <2> QED BY <2>2, <2>4, <2>6
<1> QED BY <1>1, <1>2

\* The spawn that succeeds joins the pool, and closes the breaker.
LEMMA InitDoneGoes ==
  ASSUME PoolOK(pool), NEW w \in Worker, Engines!InitDone(w)
  PROVE  Goes(pool, pool')
<1>1. pool \in PoolState /\ pool.worker[w].st = "init"
  BY DEF PoolOK, Engines!InitDone
<1>2. PICK gone : gone = [Engines!NoProcess EXCEPT !.st = "orphan", !.quit = TRUE]
  OBVIOUS
<1>3. PICK up : up = [Engines!NoProcess EXCEPT !.st = "ready"]
  OBVIOUS
<1>4. /\ gone \in Engines!ProcessRecord /\ gone.st # "init"
      /\ up \in Engines!ProcessRecord /\ up.st # "init"
  BY <1>2, <1>3 DEF Engines!NoProcess, Engines!ProcessRecord
<1>5. CASE pool.draining
  <2>1. PICK q : q = Engines!EndSpawn(pool, w, gone)
    OBVIOUS
  <2>2. Keeps(pool, q)
    BY <1>1, <1>4, <2>1, SpawnEnded
  <2>3. pool' = q
    BY <1>2, <1>5, <2>1 DEF Engines!InitDone
  <2> QED BY <2>2, <2>3, KeptGoes
<1>6. CASE ~pool.draining
  <2>1. PICK p : p = Engines!EndSpawn(pool, w, up)
    OBVIOUS
  <2>2. /\ Keeps(pool, p) /\ p \in PoolState /\ p.inst = pool.inst
        /\ Engines!Spawning(p) = Engines!Spawning(pool) \ {w}
    BY <1>1, <1>4, <2>1, SpawnEnded DEF Keeps
  <2>3. PICK v : v = Append(p.inst, w)
    OBVIOUS
  <2>4. p.inst \in Seq(Worker)
    BY <2>2, PoolFields
  <2>5. v \in Seq(Worker) /\ Len(v) = Len(p.inst) + 1
    BY <2>3, <2>4
  <2>6. PICK p1 : p1 = [p EXCEPT !.inst = v]
    OBVIOUS
  <2>7. p1 \in PoolState /\ p1.inst = v
        /\ p1.worker = p.worker /\ p1.draining = p.draining /\ p1.warm = p.warm /\ p1.warmers = p.warmers
    BY <2>2, <2>5, <2>6, SetInst
  <2>8. PICK p2 : p2 = [p1 EXCEPT !.caps = TRUE]
    OBVIOUS
  <2>9. p2 \in PoolState /\ Aside(p1, p2)
    BY <2>7, <2>8 DEF PoolState, Aside
  <2>10. PICK p3 : p3 = Engines!SpawnSucceeded(p2)
    OBVIOUS
  <2>11. p3 \in PoolState /\ Aside(p2, p3) /\ p3.breaker = "closed"
    <3>1. CASE p2.breaker = "closed"
      BY <2>9, <2>10, <3>1 DEF Engines!SpawnSucceeded, Aside
    <3>2. CASE p2.breaker # "closed"
      <4>1. p3 = [p2 EXCEPT !.breaker = "closed", !.fails = 0, !.cooled = FALSE]
        BY <2>10, <3>2 DEF Engines!SpawnSucceeded
      <4> QED BY <2>9, <4>1 DEF PoolState, Aside
    <3> QED BY <3>1, <3>2
  <2>12. /\ p3.inst = v /\ p3.worker = p.worker /\ p3.draining = p.draining
         /\ p3.warm = p.warm /\ p3.warmers = p.warmers
    BY <2>7, <2>9, <2>11 DEF Aside
  <2>13. Load(p3) = Load(pool)
    <3> DEFINE s == Engines!Spawning(pool)
    <3>1. Engines!Spawning(p3) = s \ {w} /\ w \in s
      BY <1>1, <2>2, <2>12 DEF Engines!Spawning
    <3>2. IsFiniteSet(s) /\ Cardinality(s) \in Nat
      BY SpawningIs
    <3> HIDE DEF s
    <3>3. Cardinality(s \ {w}) = Cardinality(s) - 1
      BY <3>1, <3>2, FS_RemoveElement
    <3>4. Len(p3.inst) = Len(pool.inst) + 1 /\ Len(pool.inst) \in Nat
      BY <1>1, <2>2, <2>5, <2>12, LoadIs
    <3>5. Load(p3) = (Len(pool.inst) + 1) + (Cardinality(s) - 1)
      BY <3>1, <3>3, <3>4 DEF Load
    <3>6. Load(pool) = Len(pool.inst) + Cardinality(s)
      BY DEF Load, s
    <3> QED BY <3>2, <3>4, <3>5, <3>6
  <2>14. PICK q : q = Engines!AfterSpawn(p3, w)
    OBVIOUS
  <2>15. Keeps(p3, q) /\ q.breaker = "closed"
    <3>1. Keeps(p3, q)
      BY <2>11, <2>14, SpawnAnswered
    <3>2. q = p3 \/ q = Engines!Dispatch(p3)
      BY <2>14 DEF Engines!AfterSpawn
    <3> QED BY <2>11, <3>1, <3>2, ClosedStays
  <2>16. /\ q \in PoolState /\ ~q.draining /\ q.warm = pool.warm /\ q.warmers \subseteq pool.warmers
         /\ Load(q) <= Load(pool) \/ Load(q) <= MaxWorkers
    BY <1>6, <2>2, <2>12, <2>13, <2>15 DEF Keeps
  <2>17. Load(pool) \in Nat /\ Load(q) \in Nat /\ MaxWorkers \in Nat /\ WarmUp \in Nat
    BY <1>1, <2>16, LoadIs, WarmUpIs, PoolConstants
  <2>18. Load(q) <= MaxWorkers + IF q.warm = "none" THEN 0 ELSE WarmUp
    BY <2>16, <2>17 DEF PoolOK
  <2>19. PoolOK(q)
    BY <2>16, <2>18 DEF PoolOK
  <2>20. Goes(pool, q)
    BY <1>6, <2>15, <2>19 DEF Goes
  <2>21. pool' = q
    <3>1. p3 = Engines!SpawnSucceeded([p EXCEPT !.inst = Append(@, w), !.caps = TRUE])
      BY <2>3, <2>6, <2>8, <2>10
    <3> QED BY <1>3, <1>6, <2>1, <2>14, <3>1 DEF Engines!InitDone
  <2> QED BY <2>20, <2>21
<1> QED BY <1>5, <1>6

LEMMA InitCrashesGoes ==
  ASSUME PoolOK(pool), NEW w \in Worker, NEW b \in BOOLEAN, Engines!InitCrashes(w, b)
  PROVE  Goes(pool, pool')
<1>1. pool \in PoolState
  BY DEF PoolOK
<1>14. PICK f : f = FALSE
  OBVIOUS
<1>2. PICK dead : dead = Engines!HandleDead(pool, w, f, b)
  OBVIOUS
<1>3. Keeps(pool, dead) /\ dead \in PoolState
  BY <1>1, <1>2, DeadHandled DEF Keeps
<1>4. PICK r : r = Engines!Record(dead, TRUE)
  OBVIOUS
<1>5. PICK t \in BOOLEAN : t = TRUE
  OBVIOUS
<1>6. Keeps(dead, r) /\ r \in PoolState
  BY <1>3, <1>4, <1>5, RecordKeeps DEF Keeps
<1>7. PICK e : e = Engines!EndSpawn(r, w, Engines!NoProcess)
  OBVIOUS
<1>8. Engines!NoProcess \in Engines!ProcessRecord /\ Engines!NoProcess.st # "init"
  BY ProcessIs DEF Engines!NoProcess
<1>9. Keeps(r, e) /\ e \in PoolState
  BY <1>6, <1>7, <1>8, SpawnEnded DEF Keeps
<1>10. PICK q : q = Engines!AfterSpawn(e, w)
  OBVIOUS
<1>11. Keeps(e, q)
  BY <1>9, <1>10, SpawnAnswered
<1>12. Keeps(pool, q)
  BY <1>3, <1>6, <1>9, <1>11, KeepsOn
<1>13. pool' = q
  BY <1>2, <1>4, <1>5, <1>7, <1>10, <1>14 DEF Engines!InitCrashes
<1> QED BY <1>12, <1>13, KeptGoes

LEMMA InitRejectsGoes ==
  ASSUME PoolOK(pool), NEW w \in Worker, NEW b \in BOOLEAN, NEW k \in BOOLEAN, Engines!InitRejects(w, b, k)
  PROVE  Goes(pool, pool')
<1>1. pool \in PoolState
  BY DEF PoolOK
<1>2. PICK left : left = [Engines!NoProcess EXCEPT !.st = "orphan", !.killed = k]
  OBVIOUS
<1>3. left \in Engines!ProcessRecord /\ left.st # "init"
  BY <1>2 DEF Engines!NoProcess, Engines!ProcessRecord
<1>4. PICK r : r = Engines!Record(pool, b)
  OBVIOUS
<1>5. Keeps(pool, r) /\ r \in PoolState
  BY <1>1, <1>4, RecordKeeps DEF Keeps
<1>6. PICK e : e = Engines!EndSpawn(r, w, left)
  OBVIOUS
<1>7. Keeps(r, e) /\ e \in PoolState
  BY <1>3, <1>5, <1>6, SpawnEnded DEF Keeps
<1>8. PICK q : q = Engines!AfterSpawn(e, w)
  OBVIOUS
<1>9. Keeps(e, q)
  BY <1>7, <1>8, SpawnAnswered
<1>10. Keeps(pool, q)
  BY <1>5, <1>7, <1>9, KeepsOn
<1>11. pool' = q
  BY <1>2, <1>4, <1>6, <1>8 DEF Engines!InitRejects
<1> QED BY <1>10, <1>11, KeptGoes

LEMMA SetupDoneGoes ==
  ASSUME PoolOK(pool), NEW w \in Worker, Engines!SetupDone(w)
  PROVE  Goes(pool, pool')
<1>1. pool \in PoolState /\ pool.worker[w] \in Engines!ProcessRecord
  BY PoolFields DEF PoolOK
<1>2. PICK x : x = [pool.worker[w] EXCEPT !.st = "search"]
  OBVIOUS
<1>3. x \in Engines!ProcessRecord /\ x.st # "init"
  BY <1>1, <1>2 DEF Engines!ProcessRecord
<1>4. PICK q : q = [pool EXCEPT !.worker[w] = x]
  OBVIOUS
<1>5. Keeps(pool, q)
  BY <1>1, <1>3, <1>4, SetOne
<1>6. pool' = q
  BY <1>2, <1>4 DEF Engines!SetupDone
<1> QED BY <1>5, <1>6, KeptGoes

\* A search that ends by itself: bestmove, or a request that is refused.
LEMMA SearchOverGoes ==
  ASSUME PoolOK(pool), NEW w \in Worker, pool' = Engines!WorkerFree(Engines!EndSearch(pool, w, TRUE), w)
  PROVE  Goes(pool, pool')
<1>1. pool \in PoolState
  BY DEF PoolOK
<1>2. PICK t \in BOOLEAN : t = TRUE
  OBVIOUS
<1>3. PICK e : e = Engines!EndSearch(pool, w, t)
  OBVIOUS
<1>4. Keeps(pool, e) /\ e \in PoolState
  BY <1>1, <1>3, SearchEnded DEF Keeps
<1>5. PICK q : q = Engines!WorkerFree(e, w)
  OBVIOUS
<1>6. Keeps(e, q)
  BY <1>4, <1>5, WorkerFreed
<1>7. Keeps(pool, q)
  BY <1>4, <1>6, KeepsOn
<1>8. pool' = q
  BY <1>2, <1>3, <1>5
<1> QED BY <1>7, <1>8, KeptGoes

LEMMA WatchdogGoes ==
  ASSUME PoolOK(pool), NEW w \in Worker, Engines!Watchdog(w)
  PROVE  Goes(pool, pool')
<1>1. pool \in PoolState /\ pool.worker[w] \in Engines!ProcessRecord /\ pool.worker[w].job \in PoolJob
  BY PoolFields, ProcessIs DEF PoolOK
<1>2. PICK x : x = [pool.worker[w] EXCEPT !.killed = TRUE]
  OBVIOUS
<1>3. x \in Engines!ProcessRecord /\ x.st = pool.worker[w].st
  BY <1>1, <1>2 DEF Engines!ProcessRecord
<1>4. PICK a : a = [pool EXCEPT !.worker[w] = x]
  OBVIOUS
<1>5. Keeps(pool, a) /\ a \in PoolState
  BY <1>1, <1>3, <1>4, SetOne DEF Keeps
<1>6. PICK j \in PoolJob : j = pool.worker[w].job
  BY <1>1
<1>7. PICK t \in BOOLEAN : t = TRUE
  OBVIOUS
<1>8. Engines!JobFails(a, w, j, t)
  <2>1. a = [pool EXCEPT !.worker[w].killed = TRUE]
    BY <1>2, <1>4
  <2> QED BY <1>6, <1>7, <2>1 DEF Engines!Watchdog
<1>9. Keeps(a, pool')
  BY <1>5, <1>8, FailureHandled
<1> QED BY <1>5, <1>9, KeepsOn, KeptGoes

LEMMA ExitGoes ==
  ASSUME PoolOK(pool), NEW w \in Worker, NEW b \in BOOLEAN, Engines!Exit(w, b)
  PROVE  Goes(pool, pool')
<1>1. pool \in PoolState /\ pool.worker[w] \in Engines!ProcessRecord /\ pool.worker[w].job \in PoolJob
  BY PoolFields, ProcessIs DEF PoolOK
<1>2. PICK x : x = [pool.worker[w] EXCEPT !.st = "none"]
  OBVIOUS
<1>3. x \in Engines!ProcessRecord /\ x.st # "init"
  BY <1>1, <1>2 DEF Engines!ProcessRecord
<1>4. PICK a : a = [pool EXCEPT !.worker[w] = x]
  OBVIOUS
<1>5. Keeps(pool, a) /\ a \in PoolState
  BY <1>1, <1>3, <1>4, SetOne DEF Keeps
<1>6. PICK dead : dead = Engines!HandleDead(a, w, pool.worker[w].quit, b)
  OBVIOUS
<1>7. Keeps(a, dead) /\ dead \in PoolState
  BY <1>5, <1>6, DeadHandled DEF Keeps
<1>8. Keeps(pool, dead)
  BY <1>5, <1>7, KeepsOn
<1>9. PICK j \in PoolJob : j = pool.worker[w].job
  BY <1>1
<1>10. PICK f \in BOOLEAN : f = FALSE
  OBVIOUS
<1>11. PICK y : y = [Engines!NoProcess EXCEPT !.job = j]
  OBVIOUS
<1>12. Engines!JobFails(dead, w, j, f) \/ pool' = [dead EXCEPT !.worker[w] = y]
  <2>1. dead = Engines!HandleDead([pool EXCEPT !.worker[w].st = "none"], w, pool.worker[w].quit, b)
    BY <1>2, <1>4, <1>6
  <2> QED BY <1>9, <1>10, <1>11, <2>1 DEF Engines!Exit
<1>13. CASE Engines!JobFails(dead, w, j, f)
  <2>1. Keeps(dead, pool')
    BY <1>7, <1>13, FailureHandled
  <2> QED BY <1>8, <2>1, KeepsOn, KeptGoes
<1>14. CASE pool' = [dead EXCEPT !.worker[w] = y]
  <2>1. y \in Engines!ProcessRecord /\ y.st # "init"
    BY <1>11 DEF Engines!NoProcess, Engines!ProcessRecord, PoolJob, Engines!Job
  <2>2. PICK q : q = [dead EXCEPT !.worker[w] = y]
    OBVIOUS
  <2>3. Keeps(dead, q)
    BY <1>7, <2>1, <2>2, SetOne
  <2> QED BY <1>8, <1>14, <2>2, <2>3, KeepsOn, KeptGoes
<1> QED BY <1>12, <1>13, <1>14

LEMMA OrphanedWatchdogGoes ==
  ASSUME PoolOK(pool), NEW w \in Worker, Engines!OrphanedWatchdog(w)
  PROVE  Goes(pool, pool')
<1>1. pool \in PoolState /\ pool.worker[w].job \in PoolJob
  BY PoolFields, ProcessIs DEF PoolOK
<1>2. PICK j \in PoolJob : j = pool.worker[w].job
  BY <1>1
<1>3. PICK f \in BOOLEAN : f = FALSE
  OBVIOUS
<1>4. Engines!JobFails(pool, w, j, f)
  BY <1>2, <1>3 DEF Engines!OrphanedWatchdog
<1>5. Keeps(pool, pool')
  BY <1>1, <1>4, FailureHandled
<1> QED BY <1>5, KeptGoes

LEMMA ReapGoes ==
  ASSUME PoolOK(pool), NEW w \in Worker, Engines!Reap(w)
  PROVE  Goes(pool, pool')
<1>1. pool \in PoolState /\ pool.worker[w] \in Engines!ProcessRecord /\ pool.reap \in SUBSET Worker
  BY PoolFields DEF PoolOK
<1>2. PICK a : a = [pool EXCEPT !.reap = pool.reap \ {w}]
  OBVIOUS
<1>3. pool.reap \ {w} \in SUBSET Worker
  BY <1>1
<1>4. a \in PoolState /\ Aside(pool, a) /\ a.queue = pool.queue /\ a.tries = pool.tries
      /\ a.breaker = pool.breaker /\ a.cooled = pool.cooled
  BY <1>1, <1>2, <1>3, SetReap
<1>5. Keeps(pool, a)
  BY <1>1, <1>4, BesideKeeps DEF Shut
<1>6. CASE pool' = a
  BY <1>5, <1>6, KeptGoes
<1> DEFINE inst == Engines!Without(a.inst, w)
           x == [a.worker[w] EXCEPT !.st = "orphan"]
           y == [x EXCEPT !.quit = TRUE]
<1>7. CASE pool' = [a EXCEPT !.inst = inst, !.worker[w].st = "orphan", !.worker[w].quit = TRUE]
  <2>1. a.inst \in Seq(Worker) /\ a.worker[w] \in Engines!ProcessRecord
    BY <1>4, PoolFields
  <2>2. inst \in Seq(Worker) /\ Len(inst) <= Len(a.inst)
    BY <2>1, WithoutIs
  <2>3. x \in Engines!ProcessRecord /\ x.st = "orphan"
    <3>1. PICK c \in Engines!ProcessRecord : c = a.worker[w]
      BY <2>1
    <3> QED BY <3>1 DEF Engines!ProcessRecord
  <2>4. y \in Engines!ProcessRecord /\ y.st # "init"
    <3> HIDE DEF x
    <3> QED BY <2>3 DEF Engines!ProcessRecord
  <2>5. PICK a1 : a1 = [a EXCEPT !.inst = inst]
    OBVIOUS
  <2>6. PICK q : q = [a1 EXCEPT !.worker[w] = y]
    OBVIOUS
  <2>7. pool' = q
    <3>1. a1 \in PoolState /\ a1.worker = a.worker /\ a1.worker \in [Worker -> Engines!ProcessRecord]
      BY <1>4, <2>2, <2>5, SetInst, PoolFields
    <3>2. pool' = [[a1 EXCEPT !.worker[w].st = "orphan"] EXCEPT !.worker[w].quit = TRUE]
      BY <1>7, <2>5
    <3>3. PICK a2 : a2 = [a1 EXCEPT !.worker[w].st = "orphan"]
      OBVIOUS
    <3>4. a2 = [a1 EXCEPT !.worker[w] = x]
      BY <3>1, <3>3
    <3>5. a2.worker[w] = x /\ pool' = [a2 EXCEPT !.worker[w] = [a2.worker[w] EXCEPT !.quit = TRUE]]
      BY <3>1, <3>2, <3>3, <3>4 DEF PoolState
    <3>6. pool' = [a2 EXCEPT !.worker[w] = y]
      BY <3>5
    <3> HIDE DEF x, y
    <3> QED BY <2>6, <3>1, <3>4, <3>6 DEF PoolState
  <2> HIDE DEF inst, x, y
  <2>8. /\ a1 \in PoolState /\ a1.inst = inst
        /\ a1.worker = a.worker /\ a1.draining = a.draining /\ a1.warm = a.warm /\ a1.warmers = a.warmers
        /\ a1.queue = a.queue /\ a1.tries = a.tries /\ a1.breaker = a.breaker /\ a1.cooled = a.cooled
    BY <1>4, <2>2, <2>5, SetInst
  <2>9. Keeps(a, a1)
    <3>1. Engines!Spawning(a1) \subseteq Engines!Spawning(a)
      BY <2>8 DEF Engines!Spawning
    <3> QED BY <1>4, <2>2, <2>8, <3>1, Lighter DEF Shut
  <2>10. Keeps(a1, q)
    BY <2>4, <2>6, <2>8, SetOne
  <2> QED BY <1>5, <2>7, <2>9, <2>10, KeepsOn, KeptGoes
<1>8. a.inst = pool.inst
  BY <1>4 DEF Aside
<1>9. pool' = a \/ pool' = [a EXCEPT !.inst = inst, !.worker[w].st = "orphan", !.worker[w].quit = TRUE]
  BY <1>2, <1>8 DEF Engines!Reap
<1> QED BY <1>6, <1>7, <1>9

LEMMA CooldownGoes == PoolOK(pool) /\ Engines!CooldownElapses => Goes(pool, pool')
<1> SUFFICES ASSUME PoolOK(pool), Engines!CooldownElapses
             PROVE  Goes(pool, pool')
  OBVIOUS
<1>1. pool \in PoolState
  BY DEF PoolOK
<1>2. PICK t \in BOOLEAN : t = TRUE
  OBVIOUS
<1>3. PICK q : q = [pool EXCEPT !.cooled = t]
  OBVIOUS
<1>4. q \in PoolState /\ Aside(pool, q) /\ q.queue = pool.queue /\ q.tries = pool.tries
  BY <1>1, <1>3, SetCooled
<1>5. Engines!Spawning(q) = Engines!Spawning(pool) /\ Len(q.inst) <= Len(pool.inst)
  BY <1>1, <1>4, LoadIs DEF Aside, Engines!Spawning
<1>6. Goes(pool, q)
  BY <1>4, <1>5, RestingGoes DEF PoolOK, Aside
<1>7. pool' = q
  BY <1>2, <1>3 DEF Engines!CooldownElapses
<1> QED BY <1>6, <1>7

LEMMA DrainGoes == PoolOK(pool) /\ Engines!Drain => Goes(pool, pool')
<1> SUFFICES ASSUME PoolOK(pool), Engines!Drain
             PROVE  Goes(pool, pool')
  OBVIOUS
<1>1. pool \in PoolState
  BY DEF PoolOK
<1>2. PICK a : a = [pool EXCEPT !.draining = TRUE]
  OBVIOUS
<1>3. PICK q : q = [a EXCEPT !.queue = <<>>]
  OBVIOUS
<1>4. /\ a \in PoolState /\ a.draining
      /\ a.inst = pool.inst /\ a.worker = pool.worker /\ a.warm = pool.warm /\ a.warmers = pool.warmers
      /\ a.tries = pool.tries
  BY <1>1, <1>2 DEF PoolState
<1>5. PICK v \in Seq(PoolJob) : v = <<>>
  <2>1. <<>> \in Seq(PoolJob)
    OBVIOUS
  <2> QED BY <2>1
<1>6. q \in PoolState /\ Aside(a, q) /\ q.queue = <<>> /\ q.tries = a.tries
  BY <1>3, <1>4, <1>5, SetQueue
<1>7. Engines!Spawning(q) = Engines!Spawning(pool) /\ Len(q.inst) <= Len(pool.inst)
  BY <1>1, <1>4, <1>6, LoadIs DEF Aside, Engines!Spawning
<1>8. Goes(pool, q)
  BY <1>4, <1>6, <1>7, RestingGoes DEF PoolOK, Aside
<1>9. pool' = q
  BY <1>2, <1>3 DEF Engines!Drain
<1> QED BY <1>8, <1>9

LEMMA DrainEndsGoes ==
  ASSUME PoolOK(pool), NEW d, Engines!DrainEnds(d)
  PROVE  Goes(pool, pool')
<1>1. pool \in PoolState /\ pool.worker \in [Worker -> Engines!ProcessRecord]
  BY PoolFields DEF PoolOK
<1> DEFINE told(x) == [x EXCEPT !.quit = TRUE]
           v == [w \in Worker |-> IF w \in Engines!Range(pool.inst) THEN told(pool.worker[w]) ELSE pool.worker[w]]
<1>2. PICK a : a = [pool EXCEPT !.inst = <<>>]
  OBVIOUS
<1>3. PICK e \in Seq(Worker) : e = <<>>
  <2>1. <<>> \in Seq(Worker)
    OBVIOUS
  <2> QED BY <2>1
<1>4. /\ a \in PoolState /\ a.inst = <<>>
      /\ a.worker = pool.worker /\ a.draining = pool.draining /\ a.warm = pool.warm /\ a.warmers = pool.warmers
      /\ a.queue = pool.queue /\ a.tries = pool.tries /\ a.breaker = pool.breaker /\ a.cooled = pool.cooled
  BY <1>1, <1>2, <1>3 DEF PoolState
<1>5. \A x \in Engines!ProcessRecord : told(x) \in Engines!ProcessRecord /\ told(x).st = x.st
  BY DEF Engines!ProcessRecord
<1>6. PICK q : q = [a EXCEPT !.worker = v]
  OBVIOUS
<1>7. pool' = q
  BY <1>2, <1>4, <1>6 DEF Engines!DrainEnds
<1> HIDE DEF told
<1>8. v \in [Worker -> Engines!ProcessRecord] /\ \A w \in Worker : v[w].st = pool.worker[w].st
  BY <1>1, <1>5
<1> HIDE DEF v
<1>9. /\ q \in PoolState /\ q.worker = v
      /\ q.inst = a.inst /\ q.draining = a.draining /\ q.warm = a.warm /\ q.warmers = a.warmers
      /\ q.queue = a.queue /\ q.tries = a.tries /\ q.breaker = a.breaker /\ q.cooled = a.cooled
  BY <1>4, <1>6, <1>8, SetWorker
<1>10. Engines!Spawning(q) \subseteq Engines!Spawning(pool)
  BY <1>8, <1>9 DEF Engines!Spawning
<1>11. Len(q.inst) <= Len(pool.inst)
  <2>1. Len(pool.inst) \in Nat /\ q.inst = <<>>
    BY <1>1, <1>4, <1>9, LoadIs
  <2> QED BY <2>1
<1>12. Keeps(pool, q)
  BY <1>1, <1>4, <1>9, <1>10, <1>11, Lighter DEF Shut
<1> QED BY <1>7, <1>12, KeptGoes

PoolInv == PoolOK(pool)

LEMMA PoolInit == Engines!Init => PoolInv
<1> SUFFICES ASSUME Engines!Init
             PROVE  PoolOK(pool)
  BY DEF PoolInv
<1>1. pool \in PoolState
  <2>1. <<>> \in Seq(PoolJob) /\ <<>> \in Seq(Worker)
    OBVIOUS
  <2>2. [w \in Worker |-> Engines!NoProcess] \in [Worker -> Engines!ProcessRecord]
    BY ProcessIs
  <2> QED BY <2>1, <2>2 DEF Engines!Init, PoolState
<1>2. Engines!Spawning(pool) = {}
  BY DEF Engines!Init, Engines!Spawning, Engines!NoProcess
<1>3. Len(pool.inst) = 0
  BY DEF Engines!Init
<1>4. Load(pool) = 0
  BY <1>2, <1>3, FS_EmptySet DEF Load
<1>5. MaxWorkers \in Nat
  BY PoolConstants
<1>6. pool.queue = <<>> /\ pool.warm = "none" /\ pool.warmers = {}
  BY DEF Engines!Init
<1>7. Load(pool) <= MaxWorkers + 0
  BY <1>4, <1>5
<1> QED BY <1>1, <1>6, <1>7 DEF PoolOK

PoolGoes == Goes(pool, pool')

LEMMA PoolStep == PoolInv /\ [Engines!Next]_(Engines!vars) => PoolInv' /\ [PoolGoes]_(Engines!vars)
<1> SUFFICES ASSUME PoolOK(pool), [Engines!Next]_(Engines!vars)
             PROVE  Goes(pool, pool') \/ UNCHANGED Engines!vars
  BY DEF PoolInv, PoolGoes, Goes, Engines!vars
<1>1. ASSUME NEW j \in Engines!Job, Engines!CallerStep(j)
      PROVE  Goes(pool, pool')
  <2>1. CASE Engines!PlayCall(j)
    BY <2>1, SubmitGoes DEF Engines!PlayCall
  <2>2. CASE Engines!AnalyzeCall(j)
    BY <2>2, AnalyzeGoes
  <2>3. CASE Engines!AnalyzeResumes(j)
    <3>1. Engines!Submit(j) \/ pool' = pool
      BY <2>3 DEF Engines!AnalyzeResumes
    <3>2. pool \in PoolState
      BY DEF PoolOK
    <3> QED BY <3>1, <3>2, SubmitGoes, KeepsItself, KeptGoes
  <2>4. CASE Engines!Abort(j)
    BY <2>4, AbortGoes
  <2> QED BY <1>1, <2>1, <2>2, <2>3, <2>4 DEF Engines!CallerStep
<1>2. ASSUME NEW w \in Worker, Engines!EngineStep(w)
      PROVE  Goes(pool, pool')
  <2>1. CASE Engines!InitDone(w)
    BY <2>1, InitDoneGoes
  <2>2. CASE Engines!SetupDone(w)
    BY <2>2, SetupDoneGoes
  <2>3. CASE Engines!Finish(w)
    BY <2>3, SearchOverGoes DEF Engines!Finish
  <2>4. CASE Engines!Refuse(w)
    BY <2>4, SearchOverGoes DEF Engines!Refuse
  <2>5. CASE Engines!Watchdog(w)
    BY <2>5, WatchdogGoes
  <2>6. CASE Engines!OrphanedWatchdog(w)
    BY <2>6, OrphanedWatchdogGoes
  <2>7. CASE Engines!Reap(w)
    BY <2>7, ReapGoes
  <2>8. ASSUME NEW b \in BOOLEAN, Engines!InitCrashes(w, b)
        PROVE  Goes(pool, pool')
    BY <2>8, InitCrashesGoes
  <2>9. ASSUME NEW b \in BOOLEAN, Engines!Exit(w, b)
        PROVE  Goes(pool, pool')
    BY <2>9, ExitGoes
  <2>10. ASSUME NEW b \in BOOLEAN, NEW k \in BOOLEAN, Engines!InitRejects(w, b, k)
         PROVE  Goes(pool, pool')
    BY <2>10, InitRejectsGoes
  <2> QED BY <1>2, <2>1, <2>2, <2>3, <2>4, <2>5, <2>6, <2>7, <2>8, <2>9, <2>10 DEF Engines!EngineStep
<1>3. ASSUME NEW d \in BOOLEAN, Engines!DrainEnds(d)
      PROVE  Goes(pool, pool')
  BY <1>3, DrainEndsGoes
<1> QED BY <1>1, <1>2, <1>3, WarmupGoes, CooldownGoes, DrainGoes DEF Engines!Next

\* For every number of workers and jobs, any limits and any faults: never more processes
\* than the maximum and one warm-up, none started behind an open breaker, and no job once
\* the pool drains (dispatch, replenish, warmup, updateBreaker, drain).
THEOREM LimitedPool == Engines!Spec => PoolKeepsItsLimits
<1>1. Engines!Spec => []PoolInv /\ [][PoolGoes]_(Engines!vars)
  BY PoolInit, PoolStep, PTL DEF Engines!Spec
<1>2. PoolInv => Engines!WorkersBounded
  <2> SUFFICES ASSUME PoolOK(pool)
               PROVE  Engines!WorkersBounded
    BY DEF PoolInv
  <2>1. pool \in PoolState
    BY DEF PoolOK
  <2>2. Load(pool) \in Nat /\ MaxWorkers \in Nat /\ WarmUp \in Nat
    BY <2>1, LoadIs, WarmUpIs, PoolConstants
  <2>3. Load(pool) <= MaxWorkers + WarmUp
    BY <2>2 DEF PoolOK
  <2> QED BY <2>3, Counting DEF Engines!WorkersBounded, Load, WarmUp
<1>3. [PoolGoes]_(Engines!vars) =>
        [/\ pool.breaker = "open" /\ ~pool.cooled
         /\ pool'.breaker # "closed" /\ pool'.warmers \subseteq pool.warmers
         => Engines!Spawning(pool') \subseteq Engines!Spawning(pool)]_(Engines!vars)
  BY DEF PoolGoes, Goes
<1>4. [PoolGoes]_(Engines!vars) =>
        [pool.draining => pool'.tries = pool.tries /\ pool'.queue = <<>>]_(Engines!vars)
  BY DEF PoolGoes, Goes
<1> QED BY <1>1, <1>2, <1>3, <1>4, PTL
        DEF PoolKeepsItsLimits, Engines!PoolKeepsItsLimits, Engines!BreakerStopsSpawns, Engines!DrainStartsNothing

=============================================================================

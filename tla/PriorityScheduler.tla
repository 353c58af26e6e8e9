-------------------------- MODULE PriorityScheduler --------------------------
(***************************************************************************)
(* The queue of an engine pool (queue.ts): priority classes with bounded   *)
(* capacity, served by effective priority, which improves with waiting.    *)
(***************************************************************************)
EXTENDS Integers, Sequences, FiniteSets

CONSTANTS Entry,            \* what is queued: the jobs
          Priority,         \* Priority[e]: the class of e, 0 being served first
          CapacityPerClass, AgingMs,
          MaxNow            \* bound: time

Assumptions ==
  /\ Priority \in [Entry -> Nat]
  /\ CapacityPerClass \in Nat \ {0} /\ AgingMs \in Nat \ {0} /\ MaxNow \in Nat

VARIABLES items,      \* the queued entries, in the order they were pushed
          enqueuedAt, \* enqueuedAt[e]: when e was pushed last
          fate,       \* fate[e]: what has become of e
          now

vars == <<items, enqueuedAt, fate, now>>

Queued == {items[i] : i \in DOMAIN items}

TypeOK ==
  /\ items \in Seq(Entry)
  /\ enqueuedAt \in [Entry -> Nat]
  /\ fate \in [Entry -> {"new", "queued", "refused", "cancelled", "served"}]
  /\ now \in Nat

Init ==
  /\ items = <<>>
  /\ enqueuedAt = [e \in Entry |-> 0]
  /\ fate = [e \in Entry |-> "new"]
  /\ now = 0

\* Mutant: no aging.
Effective_Unaged(e, t) == Priority[e]

\* effectivePriority: one class better for every AgingMs of waiting.
Effective(e, t) ==
  LET boost == (t - enqueuedAt[e]) \div AgingMs
  IN IF boost >= Priority[e] THEN 0 ELSE Priority[e] - boost

CountByClass(p) == Cardinality({i \in DOMAIN items : Priority[items[i]] = p})

\* Mutant: among equals the last one in is served first.
Before_LastIn(i, k) ==
  LET ei == Effective(items[i], now)  ek == Effective(items[k], now)
  IN ei < ek \/ (ei = ek /\ i >= k)

\* The selection loop of dequeue: i is served before k.
Before(i, k) ==
  LET ei == Effective(items[i], now)  ek == Effective(items[k], now)
      ti == enqueuedAt[items[i]]      tk == enqueuedAt[items[k]]
  IN ei < ek \/ (ei = ek /\ (ti < tk \/ (ti = tk /\ i <= k)))

Best(i) == i \in DOMAIN items /\ \A k \in DOMAIN items : Before(i, k)

RemoveIndex(s, i) == [k \in 1..(Len(s) - 1) |-> IF k < i THEN s[k] ELSE s[k + 1]]

\* enqueue: refused when the class is full.  A job may be queued again after it
\* was served (a retry) or refused.
Enqueue(e) ==
  /\ fate[e] \in {"new", "served", "refused"}
  /\ IF CountByClass(Priority[e]) >= CapacityPerClass
     THEN fate' = [fate EXCEPT ![e] = "refused"] /\ UNCHANGED <<items, enqueuedAt>>
     ELSE /\ items' = Append(items, e)
          /\ enqueuedAt' = [enqueuedAt EXCEPT ![e] = now]
          /\ fate' = [fate EXCEPT ![e] = "queued"]
  /\ UNCHANGED now

\* dequeue.  Nothing that was aborted is in the queue: see Cancel.
Dequeue ==
  \E i \in DOMAIN items :
    /\ Best(i)
    /\ items' = RemoveIndex(items, i)
    /\ fate' = [fate EXCEPT ![items[i]] = "served"]
    /\ UNCHANGED <<enqueuedAt, now>>

\* Mutant: the entry is left for the next dequeue to skip.
Cancel_Lazy(e) ==
  /\ e \in Queued
  /\ fate' = [fate EXCEPT ![e] = "cancelled"]
  /\ UNCHANGED <<items, enqueuedAt, now>>

\* cancel: the abort listener removes the entry at once.
Cancel(e) ==
  \E i \in DOMAIN items :
    /\ items[i] = e
    /\ items' = RemoveIndex(items, i)
    /\ fate' = [fate EXCEPT ![e] = "cancelled"]
    /\ UNCHANGED <<enqueuedAt, now>>

Tick == now < MaxNow /\ now' = now + 1 /\ UNCHANGED <<items, enqueuedAt, fate>>

Next == Dequeue \/ Tick \/ \E e \in Entry : Enqueue(e) \/ Cancel(e)

Spec == Init /\ [][Next]_vars

-------------------------------------------------------------------------------
Serves(e) == fate[e] = "queued" /\ fate'[e] = "served"
Stays(f) == fate[f] = "queued" /\ fate'[f] = "queued"
Waited(e) == now - enqueuedAt[e]

\* The queue holds each waiting entry once and nothing else, in the order of
\* pushing: a cancelled or served entry leaves nothing behind (cancel, dequeue).
QueueIsWaiting ==
  /\ \A e \in Entry : fate[e] = "queued" <=> e \in Queued
  /\ \A i, k \in DOMAIN items : i < k =>
       items[i] # items[k] /\ enqueuedAt[items[i]] <= enqueuedAt[items[k]]
  /\ \A i \in DOMAIN items : enqueuedAt[items[i]] <= now

\* Aging prevents starvation: once an entry has waited its class out, nothing
\* that was pushed later is served before it (effectivePriority, dequeue).
AgedIsNext ==
  [][\A e \in Entry : Serves(e) =>
       \A f \in Entry : Stays(f) /\ Waited(f) >= Priority[f] * AgingMs => enqueuedAt[e] <= enqueuedAt[f]]_vars

\* Waiting is the only way past a better class: an entry served before one of a
\* better or the same class was pushed no later (dequeue).
NoInversion ==
  [][\A e \in Entry : Serves(e) =>
       \A f \in Entry : Stays(f) /\ Priority[f] <= Priority[e] => enqueuedAt[e] <= enqueuedAt[f]]_vars

\* Who is served next depends on class and waiting alone (dequeue).
ServiceIsFair == AgedIsNext /\ NoInversion

=============================================================================

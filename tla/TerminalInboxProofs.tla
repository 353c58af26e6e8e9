-------------------------- MODULE TerminalInboxProofs --------------------------
(***************************************************************************)
(* What TerminalInbox promises, for any number of endings, reconcilers and *)
(* faults, leases of any length and renewals as late as they like; and     *)
(* what the launch of a pairing's game promises (Pairings), for any number *)
(* of replicas, attempts and failures and whatever was launched before.    *)
(***************************************************************************)
EXTENDS TerminalInbox, Pairings, FiniteSetTheorems, WellFoundedInduction, TLAPS

-----------------------------------------------------------------------------
(* The inductive invariant. *)

Table      == [failures : 0..MaxFailures, due : 0..RetryCap, token : Worker \cup {None}, left : 0..Lease]
Reconciler == [phase : Phases, pass : {"forward", "older"}, cursor : 0..LastId, reverse : 0..LastId,
               page : 0..OlderPage + ForwardPage, item : 0..LastId, aborted : BOOLEAN]

\* A reconciler has an item while it works on one, and claims only with room left in its page.
Stands(r) == /\ r.phase \in {"idle", "claim"} <=> r.item = 0
             /\ r.phase = "claim" => r.page > 0

Writes(w) == worker[w].phase \in {"write", "commit"}

\* The row of an event is locked by the reconciler that writes its report, and no other.
LocksAreWriters ==
  /\ \A e \in Event : lock[e] # None => Writes(lock[e]) /\ Item(lock[e]) = e
  /\ \A w \in Worker : Writes(w) => lock[Item(w)] = w

\* From its first look at the lease to the commit, nobody takes it from a writer.
WritersAreCurrent ==
  \A w \in Worker : Writes(w) => retry[Item(w)].token = w /\ Item(w) \in ended \ receipt

\* Only endings are leased.
LeasesAreOfEndings == \A e \in Event : retry[e].token # None => e \in ended

\* A consumer that returned has stored its report.
SettlesAreStored == \A w \in Worker : At(w, "settle") => Item(w) \in report \cup Void

IInv == /\ TypeOK /\ \A w \in Worker : Stands(worker[w])
        /\ LocksAreWriters /\ WritersAreCurrent /\ LeasesAreOfEndings /\ SettlesAreStored
        /\ ReceiptHasReport /\ ReceiptIsFinal

\* A live lease is moved by the one who holds it, in a step of its own.
OnesOwn == \A e \in Event, w \in Worker :
             Owns(w, e) /\ retry'[e].token # w => Item(w) = e /\ worker'[w] # worker[w]

-----------------------------------------------------------------------------
(* Lemmas about numbers, pages and tables. *)

\* Every set of naturals that is not empty has a least element.
LEMMA LeastNatural ==
  ASSUME NEW T \in SUBSET Nat, T # {}
  PROVE  \E m \in T : \A n \in T : m <= n
<1> DEFINE R == OpToRel(<, Nat)
<1>1. IsWellFoundedOn(R, Nat)
  BY NatLessThanWellFounded, Zenon
<1>2. \A x, y \in Nat : x < y => <<x, y>> \in R
  BY Zenon DEF OpToRel
<1> HIDE DEF R
<1>3. PICK m \in T : \A n \in T : ~ (<<n, m>> \in R)
  BY <1>1, WFMin, Zenon
<1>4. \A n \in T : ~ (n < m)
  BY <1>2, <1>3
<1> QED
  BY <1>4

\* The ends of a set of endings are among them.
LEMMA EndsAreMembers ==
  ASSUME Assumptions, NEW T \in SUBSET Event, T # {}
  PROVE  Min(T) \in T /\ Max(T) \in T
<1>1. LastId \in Nat /\ T \subseteq Nat /\ \A e \in T : e <= LastId
  BY DEF Assumptions, Event
<1>2. \E m \in T : \A n \in T : m <= n
  BY <1>1, LeastNatural
<1>3. \E m \in T : \A n \in T : m >= n
  <2> DEFINE U == {LastId - e : e \in T}
  <2>1. U \in SUBSET Nat /\ U # {}
    <3>1. \A e \in T : LastId - e \in Nat
      BY <1>1
    <3>2. U \subseteq Nat
      BY <3>1
    <3>3. PICK e \in T : TRUE
      OBVIOUS
    <3>4. LastId - e \in U
      OBVIOUS
    <3> QED
      BY <3>2, <3>4
  <2>2. PICK u \in U : \A v \in U : u <= v
    BY <2>1, LeastNatural, Zenon
  <2>3. PICK m \in T : u = LastId - m
    BY <2>2
  <2>4. \A n \in T : LastId - m <= LastId - n
    BY <2>2, <2>3
  <2> QED
    BY <1>1, <2>4
<1> QED
  BY <1>2, <1>3 DEF Min, Max

LEMMA LesserOfTwo ==
  ASSUME NEW a \in Int, NEW b \in Int
  PROVE  /\ Min({a, b}) \in {a, b}
         /\ Min({a, b}) <= a /\ Min({a, b}) <= b
<1>1. \E x \in {a, b} : \A y \in {a, b} : x <= y
  OBVIOUS
<1>2. Min({a, b}) \in {a, b} /\ \A y \in {a, b} : Min({a, b}) <= y
  BY <1>1 DEF Min
<1> QED
  BY <1>2

\* A delay is never beyond its cap, however often the item has failed.
LEMMA DelayIsCapped ==
  ASSUME Assumptions, NEW n \in Nat, n > 0
  PROVE  RetryDelay(n) \in 0..RetryCap
<1> DEFINE k == Min({n - 1, 8})
<1>1. k \in 0..8
  <2>1. n - 1 \in Int /\ 8 \in Int
    OBVIOUS
  <2>2. k \in {n - 1, 8} /\ k <= 8
    BY <2>1, LesserOfTwo
  <2> QED
    BY <2>2
<1> HIDE DEF k
<1>2. 2 ^ k \in Nat
  <2>1. k = 0 \/ k = 1 \/ k = 2 \/ k = 3 \/ k = 4 \/ k = 5 \/ k = 6 \/ k = 7 \/ k = 8
    BY <1>1
  <2>2. 2 ^ 0 \in Nat /\ 2 ^ 1 \in Nat /\ 2 ^ 2 \in Nat
    BY SMT
  <2>3. 2 ^ 3 \in Nat /\ 2 ^ 4 \in Nat /\ 2 ^ 5 \in Nat
    BY SMT
  <2>4. 2 ^ 6 \in Nat /\ 2 ^ 7 \in Nat /\ 2 ^ 8 \in Nat
    BY SMT
  <2> QED
    BY <2>1, <2>2, <2>3, <2>4, Zenon
<1> DEFINE p == 2 ^ k
           d == RetryBase * p
<1>3. p \in Nat
  BY <1>2
<1> HIDE DEF p
<1>4. RetryCap \in Nat /\ RetryBase \in Nat
  BY DEF Assumptions
<1>5. d \in Nat
  BY <1>3, <1>4
<1> HIDE DEF d
<1>6. Min({RetryCap, d}) \in {RetryCap, d} /\ Min({RetryCap, d}) <= RetryCap
  BY <1>4, <1>5, LesserOfTwo
<1>7. RetryDelay(n) = Min({RetryCap, d})
  BY DEF RetryDelay, d, p, k
<1> QED
  BY <1>4, <1>5, <1>6, <1>7

\* A reconciler stays one, whichever of its fields is set.
LEMMA FieldSet ==
  ASSUME NEW r \in Reconciler
  PROVE  /\ \A p \in Phases : LET q == [r EXCEPT !.phase = p]
                              IN q \in Reconciler /\ q.phase = p /\ q.item = r.item /\ q.page = r.page
         /\ \A p \in {"forward", "older"} : LET q == [r EXCEPT !.pass = p]
              IN q \in Reconciler /\ q.phase = r.phase /\ q.item = r.item /\ q.page = r.page
         /\ \A n \in 0..LastId : LET q == [r EXCEPT !.reverse = n]
              IN q \in Reconciler /\ q.phase = r.phase /\ q.item = r.item /\ q.page = r.page
         /\ \A n \in 0..OlderPage + ForwardPage : LET q == [r EXCEPT !.page = n]
              IN q \in Reconciler /\ q.phase = r.phase /\ q.item = r.item /\ q.page = n
         /\ \A n \in 0..LastId : LET q == [r EXCEPT !.item = n]
              IN q \in Reconciler /\ q.phase = r.phase /\ q.item = n /\ q.page = r.page
         /\ LET q == [r EXCEPT !.aborted = FALSE]
            IN q \in Reconciler /\ q.phase = r.phase /\ q.item = r.item /\ q.page = r.page
BY DEF Reconciler

\* It goes on without an item.
LEMMA LetGo ==
  ASSUME Assumptions, NEW r \in Reconciler, NEW p \in Phases
  PROVE  LET q == [r EXCEPT !.phase = p, !.item = 0, !.aborted = FALSE]
         IN q \in Reconciler /\ q.phase = p /\ q.item = 0 /\ q.page = r.page
<1> DEFINE a == [r EXCEPT !.phase = p]
           b == [a EXCEPT !.item = 0]
           c == [b EXCEPT !.aborted = FALSE]
<1>1. 0 \in 0..LastId
  BY DEF Assumptions
<1>2. a \in Reconciler /\ a.phase = p /\ a.page = r.page
  BY FieldSet
<1>3. c = [r EXCEPT !.phase = p, !.item = 0, !.aborted = FALSE]
  OBVIOUS
<1> HIDE DEF a
<1>4. b \in Reconciler /\ b.phase = p /\ b.item = 0 /\ b.page = r.page
  BY <1>1, <1>2, FieldSet
<1> HIDE DEF b
<1>5. c \in Reconciler /\ c.phase = p /\ c.item = 0 /\ c.page = r.page
  BY <1>4, FieldSet
<1> HIDE DEF c
<1> QED
  BY <1>3, <1>5

LEMMA ForwardStands ==
  ASSUME Assumptions, NEW r \in Reconciler
  PROVE  Forward(r) \in Reconciler /\ Stands(Forward(r)) /\ Forward(r).phase = "claim"
<1> DEFINE a == [r EXCEPT !.phase = "claim"]
           b == [a EXCEPT !.pass = "forward"]
           c == [b EXCEPT !.page = ForwardPage]
           d == [c EXCEPT !.item = 0]
           e == [d EXCEPT !.aborted = FALSE]
<1>1. ForwardPage \in 0..OlderPage + ForwardPage /\ ForwardPage > 0 /\ 0 \in 0..LastId /\ "claim" \in Phases
  BY DEF Assumptions, Phases
<1>2. Forward(r) = e
  BY DEF Forward
<1>3. a \in Reconciler /\ a.phase = "claim"
  BY <1>1, FieldSet
<1> HIDE DEF a
<1>4. b \in Reconciler /\ b.phase = "claim"
  BY <1>3, FieldSet
<1> HIDE DEF b
<1>5. c \in Reconciler /\ c.phase = "claim" /\ c.page = ForwardPage
  BY <1>1, <1>4, FieldSet
<1> HIDE DEF c
<1>6. d \in Reconciler /\ d.phase = "claim" /\ d.page = ForwardPage /\ d.item = 0
  BY <1>1, <1>5, FieldSet
<1> HIDE DEF d
<1>7. e \in Reconciler /\ e.phase = "claim" /\ e.page = ForwardPage /\ e.item = 0
  BY <1>6, FieldSet
<1> HIDE DEF e
<1> QED
  BY <1>1, <1>2, <1>7 DEF Stands

\* The item is over: the reconciler goes on without one.
LEMMA ReleasedStands ==
  ASSUME Assumptions, NEW r \in Reconciler
  PROVE  /\ Released(r) \in Reconciler /\ Stands(Released(r))
         /\ Released(r).phase \in {"claim", "idle"}
<1>1. "claim" \in Phases /\ "idle" \in Phases
  BY DEF Phases
<1>2. CASE r.page > 0
  <2> DEFINE q == [r EXCEPT !.phase = "claim", !.item = 0, !.aborted = FALSE]
  <2>1. Released(r) = q
    BY <1>2 DEF Released
  <2>2. q \in Reconciler /\ q.phase = "claim" /\ q.item = 0 /\ q.page = r.page
    BY <1>1, LetGo
  <2> HIDE DEF q
  <2> QED
    BY <1>2, <2>1, <2>2 DEF Stands
<1>3. CASE ~(r.page > 0) /\ r.pass = "older"
  BY <1>3, ForwardStands DEF Released
<1>4. CASE ~(r.page > 0) /\ r.pass # "older"
  <2> DEFINE q == [r EXCEPT !.phase = "idle", !.item = 0, !.aborted = FALSE]
  <2>1. Released(r) = q
    BY <1>4 DEF Released
  <2>2. q \in Reconciler /\ q.phase = "idle" /\ q.item = 0
    BY <1>1, LetGo
  <2> HIDE DEF q
  <2> QED
    BY <2>1, <2>2 DEF Stands
<1> QED
  BY <1>2, <1>3, <1>4

LEMMA RaisedStands ==
  ASSUME Assumptions, NEW r \in Reconciler, r.item # 0
  PROVE  /\ Raised(r) \in Reconciler /\ Stands(Raised(r))
         /\ Raised(r).phase \in {"claim", "idle", "fail"}
<1>1. CASE r.aborted
  BY <1>1, ReleasedStands DEF Raised
<1>2. CASE ~r.aborted
  <2>1. "fail" \in Phases
    BY DEF Phases
  <2> QED
    BY <1>2, <2>1 DEF Raised, Reconciler, Stands
<1> QED
  BY <1>1, <1>2

LEMMA ReturnedStands ==
  ASSUME Assumptions, NEW r \in Reconciler, r.item # 0
  PROVE  /\ Returned(r) \in Reconciler /\ Stands(Returned(r))
         /\ Returned(r).phase \in {"claim", "idle", "settle"}
         /\ Returned(r).phase = "settle" => Returned(r).item = r.item
<1>1. CASE r.aborted
  BY <1>1, ReleasedStands DEF Returned
<1>2. CASE ~r.aborted
  <2>1. "settle" \in Phases
    BY DEF Phases
  <2> QED
    BY <1>2, <2>1 DEF Returned, Reconciler, Stands
<1> QED
  BY <1>1, <1>2

-----------------------------------------------------------------------------
(* The ways a step can touch the tables. *)

\* Reconciler w stands where r says, and the others where they stood.
MovesTo(w, r) ==
  /\ worker' \in [Worker -> Reconciler] /\ worker'[w] = r
  /\ \A v \in Worker : v # w => worker'[v] = worker[v]

\* The row of e becomes row, and the others are left alone.
RowIs(e, entry) ==
  /\ retry' \in [Event -> Table] /\ retry'[e] = entry
  /\ \A d \in Event : d # e => retry'[d] = retry[d]

LEMMA Types ==
  ASSUME Assumptions, IInv
  PROVE  /\ worker \in [Worker -> Reconciler] /\ retry \in [Event -> Table]
         /\ lock \in [Event -> Worker \cup {None}] /\ None \notin Worker
         /\ ended \subseteq Event /\ receipt \subseteq ended /\ report \subseteq ended
         /\ faults \in 0..MaxFaults /\ MaxFaults \in Nat /\ LastId \in Nat /\ Event = 1..LastId
BY DEF Assumptions, IInv, TypeOK, Table, Reconciler, Event

LEMMA ItemIsEvent ==
  ASSUME Assumptions, IInv, NEW w \in Worker
  PROVE  /\ worker[w] \in Reconciler /\ Item(w) \in 0..LastId
         /\ Item(w) # 0 => Item(w) \in Event /\ retry[Item(w)] \in Table
         /\ worker[w].phase \notin {"idle", "claim"} => Item(w) # 0
<1>1. worker[w] \in Reconciler /\ Stands(worker[w])
  BY Types DEF IInv
<1>2. Item(w) \in 0..LastId
  BY <1>1 DEF Reconciler, Item
<1>3. Item(w) # 0 => Item(w) \in Event
  BY <1>2, Types
<1>4. Item(w) # 0 => retry[Item(w)] \in Table
  BY <1>3, Types
<1> QED
  BY <1>1, <1>2, <1>3, <1>4 DEF Stands, Item

LEMMA Moves ==
  ASSUME Assumptions, IInv, NEW w \in Worker, NEW r \in Reconciler, Goto(w, r)
  PROVE  MovesTo(w, r)
BY Types DEF Goto, MovesTo

LEMMA RowSet ==
  ASSUME Assumptions, IInv, NEW e \in Event, NEW entry \in Table, retry' = [retry EXCEPT ![e] = entry]
  PROVE  RowIs(e, entry)
BY Types DEF RowIs

LEMMA LeaseSet ==
  ASSUME Assumptions, IInv, NEW w \in Worker, NEW e \in Event, retry' = Leased(w, e)
  PROVE  /\ RowIs(e, [retry[e] EXCEPT !.token = w, !.left = Lease])
         /\ retry'[e].token = w
<1> DEFINE entry == [retry[e] EXCEPT !.token = w, !.left = Lease]
<1>1. retry[e] \in Table
  BY Types
<1>2. Lease \in 0..Lease
  BY DEF Assumptions
<1>3. entry \in Table /\ entry.token = w
  BY <1>1, <1>2 DEF Table
<1>4. retry' = [retry EXCEPT ![e] = entry]
  BY DEF Leased
<1> HIDE DEF entry
<1>5. RowIs(e, entry)
  BY <1>3, <1>4, RowSet
<1> QED
  BY <1>3, <1>5 DEF RowIs, entry

\* What the invariant says of the types, as sets.
LEMMA TypesAgain ==
  ASSUME worker' \in [Worker -> Reconciler], retry' \in [Event -> Table],
         lock' \in [Event -> Worker \cup {None}], ended' \subseteq Event,
         receipt' \subseteq ended', report' \subseteq ended', faults' \in 0..MaxFaults,
         \A v \in Worker : Stands(worker'[v])
  PROVE  TypeOK' /\ (\A v \in Worker : Stands(worker[v])')
BY DEF TypeOK, Table, Reconciler, Stands

\* The reconciler stops writing, if it did, and its transaction lets go of its locks.
LEMMA LeaveStep ==
  ASSUME Assumptions, IInv, NEW w \in Worker, NEW r \in Reconciler, Stands(r), MovesTo(w, r),
         r.phase \notin {"write", "commit"}, r.phase = "settle" => r.item \in report' \cup Void,
         UNCHANGED <<ended, retry, receipt>>,
         lock' = Unlocked(w) \/ (lock' = lock /\ ~Writes(w)),
         report \subseteq report', report' \subseteq report \cup {Item(w)}, report' = report \/ Writes(w),
         faults' \in 0..MaxFaults
  PROVE  IInv' /\ OnesOwn
<1>1. lock' \in [Event -> Worker \cup {None}]
  BY Types DEF Unlocked
<1>2. \A e \in Event : lock'[e] = IF lock[e] = w THEN None ELSE lock[e]
  <2>1. \A e \in Event : lock[e] = w => Writes(w)
    BY Types DEF IInv, LocksAreWriters
  <2> QED
    BY <2>1 DEF Unlocked
<1>3. \A v \in Worker : v # w => (Writes(v)' <=> Writes(v)) /\ Item(v)' = Item(v)
  BY DEF MovesTo, Writes, Item
<1>4. ~Writes(w)'
  BY DEF MovesTo, Writes
<1>5. report' \subseteq ended'
  <2>1. Writes(w) => Item(w) \in ended
    BY DEF IInv, WritersAreCurrent
  <2> QED
    BY <2>1, Types
<1>6. \A v \in Worker : Stands(worker'[v])
  BY DEF MovesTo, IInv
<1>7. TypeOK' /\ (\A v \in Worker : Stands(worker[v])')
  BY <1>1, <1>5, <1>6, Types, TypesAgain DEF MovesTo
<1>8. LocksAreWriters'
  <2>1. \A e \in Event : lock'[e] # None => lock'[e] = lock[e] /\ lock[e] \in Worker /\ lock[e] # w
    BY <1>2, Types
  <2>2. \A e \in Event : lock'[e] # None => Writes(lock[e])' /\ Item(lock[e])' = e
    BY <1>3, <2>1 DEF IInv, LocksAreWriters
  <2>3. \A v \in Worker : Writes(v)' => v # w /\ lock[Item(v)] = v /\ Item(v)' = Item(v) /\ Item(v) \in Event
    <3> TAKE v \in Worker
    <3> HAVE Writes(v)'
    <3>1. v # w /\ Writes(v) /\ Item(v)' = Item(v)
      BY <1>3, <1>4
    <3>2. Item(v) \in Event
      BY <3>1, ItemIsEvent DEF Writes
    <3> QED
      BY <3>1, <3>2 DEF IInv, LocksAreWriters
  <2>4. \A v \in Worker : Writes(v)' => lock'[Item(v)'] = v
    BY <1>2, <2>3
  <2>5. \A e \in Event : lock'[e] # None =>
          worker'[lock'[e]].phase \in {"write", "commit"} /\ worker'[lock'[e]].item = e
    BY <2>1, <2>2 DEF Writes, Item
  <2> QED
    BY <2>4, <2>5 DEF LocksAreWriters, Writes, Item
<1>9. WritersAreCurrent'
  BY <1>3, <1>4 DEF IInv, WritersAreCurrent, Writes, Item
<1>10. LeasesAreOfEndings'
  BY DEF IInv, LeasesAreOfEndings
<1>11. SettlesAreStored'
  BY DEF MovesTo, IInv, SettlesAreStored, At, Item
<1>12. ReceiptHasReport' /\ ReceiptIsFinal'
  <2>1. ReceiptHasReport'
    BY DEF IInv, ReceiptHasReport
  <2>2. \A e \in receipt' : retry'[e] = NoRow /\ lock'[e] = None
    BY <1>2, Types DEF IInv, ReceiptIsFinal
  <2> QED
    BY <2>1, <2>2 DEF ReceiptIsFinal, NoRow
<1>13. OnesOwn
  BY DEF OnesOwn, Owns
<1> QED
  BY <1>7, <1>8, <1>9, <1>10, <1>11, <1>12, <1>13 DEF IInv

\* The reconcilers stand where they stood, and only the faults or an aborted flag move.
LEMMA FlagStep ==
  ASSUME Assumptions, IInv, worker' \in [Worker -> Reconciler],
         \A v \in Worker : worker'[v].phase = worker[v].phase /\ worker'[v].item = worker[v].item
                           /\ worker'[v].page = worker[v].page,
         UNCHANGED <<ended, retry, receipt, report, lock>>, faults' \in 0..MaxFaults
  PROVE  IInv' /\ OnesOwn
<1>1. \A v \in Worker : Stands(worker'[v])
  BY DEF IInv, Stands
<1>2. TypeOK' /\ (\A v \in Worker : Stands(worker[v])')
  BY <1>1, Types, TypesAgain
<1>3. \A v \in Worker : (Writes(v)' <=> Writes(v)) /\ Item(v)' = Item(v)
  BY DEF Writes, Item
<1>4. LocksAreWriters'
  <2>1. \A e \in Event : lock[e] # None => lock[e] \in Worker
    BY Types
  <2> QED
    BY <1>3, <2>1 DEF IInv, LocksAreWriters, Writes, Item
<1>5. WritersAreCurrent' /\ SettlesAreStored'
  BY <1>3 DEF IInv, WritersAreCurrent, SettlesAreStored, At, Writes, Item
<1>6. LeasesAreOfEndings' /\ ReceiptHasReport' /\ ReceiptIsFinal'
  BY DEF IInv, LeasesAreOfEndings, ReceiptHasReport, ReceiptIsFinal
<1>7. OnesOwn
  BY DEF OnesOwn, Owns
<1> QED
  BY <1>2, <1>4, <1>5, <1>6, <1>7 DEF IInv

\* A free ending is leased, by a claim whose caller may not hear of it.
LEMMA TakeStep ==
  ASSUME Assumptions, IInv, NEW w \in Worker, NEW e \in Event, Free(e), retry' = Leased(w, e),
         NEW r \in Reconciler, Stands(r), MovesTo(w, r), r.phase \in {"consume", "idle"}, ~Writes(w),
         UNCHANGED <<ended, receipt, report, lock>>, faults' \in 0..MaxFaults
  PROVE  IInv' /\ OnesOwn
<1>1. e \in ended \ receipt /\ retry[e].left = 0 /\ lock[e] = None
  BY DEF Free
<1>2. /\ retry' \in [Event -> Table] /\ retry'[e].token = w
      /\ \A d \in Event : d # e => retry'[d] = retry[d]
  BY LeaseSet DEF RowIs
<1>3. \A v \in Worker : Stands(worker'[v])
  BY DEF MovesTo, IInv
<1>4. TypeOK' /\ (\A v \in Worker : Stands(worker[v])')
  BY <1>2, <1>3, Types, TypesAgain DEF MovesTo
<1>5. \A v \in Worker : Writes(v)' => v # w /\ Writes(v) /\ Item(v)' = Item(v)
  BY DEF MovesTo, Writes, Item
<1>6. \A v \in Worker : Writes(v) => v # w /\ Writes(v)' /\ Item(v)' = Item(v)
  BY DEF MovesTo, Writes, Item
<1>7. LocksAreWriters'
  <2>1. \A d \in Event : lock[d] # None => lock[d] \in Worker
    BY Types
  <2> QED
    BY <1>5, <1>6, <2>1 DEF IInv, LocksAreWriters, Writes, Item
<1>8. WritersAreCurrent'
  <2>1. \A v \in Worker : Writes(v) => Item(v) # e /\ Item(v) \in Event
    <3> TAKE v \in Worker
    <3> HAVE Writes(v)
    <3>1. Item(v) \in Event
      BY ItemIsEvent DEF Writes
    <3>2. lock[Item(v)] = v
      BY DEF IInv, LocksAreWriters
    <3> QED
      BY <1>1, <3>1, <3>2, Types
  <2> QED
    BY <1>2, <1>5, <2>1 DEF IInv, WritersAreCurrent, Writes, Item
<1>9. LeasesAreOfEndings'
  BY <1>1, <1>2 DEF IInv, LeasesAreOfEndings
<1>10. SettlesAreStored'
  BY DEF MovesTo, IInv, SettlesAreStored, At, Item
<1>11. ReceiptHasReport' /\ ReceiptIsFinal'
  BY <1>1, <1>2, Types DEF IInv, ReceiptHasReport, ReceiptIsFinal, NoRow
<1>12. OnesOwn
  BY <1>1, <1>2 DEF OnesOwn, Owns
<1> QED
  BY <1>4, <1>7, <1>8, <1>9, <1>10, <1>11, <1>12 DEF IInv

\* The holder of a lease renews it.
LEMMA RenewedStep ==
  ASSUME Assumptions, IInv, NEW w \in Worker, Item(w) # 0, Owns(w, Item(w)),
         retry' = Leased(w, Item(w)), UNCHANGED <<ended, receipt, report, lock, worker, faults>>
  PROVE  IInv' /\ OnesOwn
<1> DEFINE e == Item(w)
<1>1. e \in Event /\ retry[e].token = w
  BY ItemIsEvent DEF Owns
<1>2. /\ retry' \in [Event -> Table] /\ retry'[e].token = w
      /\ \A d \in Event : d # e => retry'[d] = retry[d]
  BY <1>1, LeaseSet DEF RowIs
<1> HIDE DEF e
<1>3. \A d \in Event : retry'[d].token = retry[d].token
  BY <1>1, <1>2
<1>4. TypeOK' /\ (\A v \in Worker : Stands(worker[v])')
  BY <1>2, Types, TypesAgain DEF IInv
<1>5. LocksAreWriters' /\ SettlesAreStored' /\ ReceiptHasReport'
  BY DEF IInv, LocksAreWriters, SettlesAreStored, ReceiptHasReport, Writes, Item, At
<1>6. WritersAreCurrent'
  <2>1. \A v \in Worker : Writes(v) => Item(v) \in Event
    BY ItemIsEvent DEF Writes
  <2> QED
    BY <1>3, <2>1 DEF IInv, WritersAreCurrent, Writes, Item
<1>7. LeasesAreOfEndings'
  BY <1>3 DEF IInv, LeasesAreOfEndings
<1>8. ReceiptIsFinal'
  BY <1>1, <1>2, Types DEF IInv, ReceiptIsFinal, NoRow
<1>9. OnesOwn
  BY <1>3 DEF OnesOwn, Owns
<1> QED
  BY <1>4, <1>5, <1>6, <1>7, <1>8, <1>9 DEF IInv

\* The holder of a lease gives it up, for a receipt or for a later retry.
LEMMA GiveUpStep ==
  ASSUME Assumptions, IInv, NEW w \in Worker, worker[w].phase \in {"settle", "fail"}, Owns(w, Item(w)),
         NEW entry \in Table, entry.token = None, retry' = [retry EXCEPT ![Item(w)] = entry],
         \/ receipt' = receipt
         \/ /\ receipt' = receipt \cup {Item(w)} /\ entry = NoRow
            /\ lock[Item(w)] = None /\ worker[w].phase = "settle",
         NEW r \in Reconciler, Stands(r), MovesTo(w, r), r.phase \in {"claim", "idle", "fail"},
         r.phase # worker[w].phase,
         UNCHANGED <<ended, report, lock>>, faults' \in 0..MaxFaults
  PROVE  IInv' /\ OnesOwn
<1>1. Item(w) \in Event /\ Item(w) # 0
  BY ItemIsEvent
<1>2. PICK e \in Event : e = Item(w)
  BY <1>1
<1>3. retry[e].token = w /\ w # None
  BY <1>2, Types DEF Owns
<1>4. retry' \in [Event -> Table] /\ retry'[e] = entry /\ \A d \in Event : d # e => retry'[d] = retry[d]
  BY <1>2, RowSet DEF RowIs
<1>5. e \in ended \ receipt
  BY <1>3 DEF IInv, LeasesAreOfEndings, ReceiptIsFinal, NoRow
<1>6. receipt \subseteq receipt' /\ receipt' \subseteq receipt \cup {e} /\ receipt' \subseteq ended'
  BY <1>2, <1>5, Types
<1>7. \A v \in Worker : Stands(worker'[v])
  BY DEF MovesTo, IInv
<1>8. TypeOK' /\ (\A v \in Worker : Stands(worker[v])')
  BY <1>4, <1>6, <1>7, Types, TypesAgain DEF MovesTo
<1>9. \A v \in Worker : Writes(v)' => v # w /\ Writes(v) /\ Item(v)' = Item(v)
  BY DEF MovesTo, Writes, Item
<1>10. \A v \in Worker : Writes(v) => v # w /\ Writes(v)' /\ Item(v)' = Item(v)
  BY DEF MovesTo, Writes, Item
<1>11. LocksAreWriters'
  <2>1. \A d \in Event : lock[d] # None => lock[d] \in Worker
    BY Types
  <2> QED
    BY <1>9, <1>10, <2>1 DEF IInv, LocksAreWriters, Writes, Item
<1>12. WritersAreCurrent'
  <2>1. \A v \in Worker : Writes(v) => Item(v) # e /\ Item(v) \in Event
    <3> TAKE v \in Worker
    <3> HAVE Writes(v)
    <3>1. Item(v) \in Event
      BY ItemIsEvent DEF Writes
    <3>2. retry[Item(v)].token = v /\ v # w
      BY <1>10 DEF IInv, WritersAreCurrent
    <3> QED
      BY <1>3, <3>1, <3>2
  <2> QED
    BY <1>4, <1>6, <1>9, <2>1 DEF IInv, WritersAreCurrent, Writes, Item
<1>13. LeasesAreOfEndings'
  BY <1>4 DEF IInv, LeasesAreOfEndings
<1>14. SettlesAreStored'
  BY DEF MovesTo, IInv, SettlesAreStored, At, Item
<1>15. ReceiptHasReport'
  BY DEF IInv, SettlesAreStored, ReceiptHasReport, At
<1>16. ReceiptIsFinal'
  <2>1. \A d \in receipt : d # e /\ d \in Event /\ retry[d] = NoRow /\ lock[d] = None
    BY <1>5, Types DEF IInv, ReceiptIsFinal
  <2> QED
    BY <1>2, <1>4, <2>1 DEF ReceiptIsFinal, NoRow
<1>17. OnesOwn
  <2>1. worker'[w] # worker[w]
    BY DEF MovesTo
  <2> QED
    BY <1>2, <1>3, <1>4, <2>1 DEF OnesOwn, Owns
<1> QED
  BY <1>8, <1>11, <1>12, <1>13, <1>14, <1>15, <1>16, <1>17 DEF IInv

\* A transaction takes the row lock of an event whose lease it has seen, or
\* goes on under the lock it has.
LEMMA WriteStep ==
  ASSUME Assumptions, IInv, NEW w \in Worker, NEW e \in Event, e = Item(w),
         NEW r \in Reconciler, MovesTo(w, r), r.phase \in {"write", "commit"}, r.item = e,
         Owns(w, e), lock' = [lock EXCEPT ![e] = w],
         Writes(w) \/ lock[e] = None,
         UNCHANGED <<ended, retry, receipt, report, faults>>
  PROVE  IInv' /\ OnesOwn
<1>1. retry[e].token = w /\ w # None
  BY Types DEF Owns
<1>2. e \in ended \ receipt
  BY <1>1 DEF IInv, LeasesAreOfEndings, ReceiptIsFinal, NoRow
<1>3. lock' \in [Event -> Worker \cup {None}] /\ lock'[e] = w /\ \A d \in Event : d # e => lock'[d] = lock[d]
  BY Types
<1>4. Stands(r)
  BY Types DEF Stands
<1>5. \A v \in Worker : Stands(worker'[v])
  BY <1>4 DEF MovesTo, IInv
<1>6. TypeOK' /\ (\A v \in Worker : Stands(worker[v])')
  BY <1>3, <1>5, Types, TypesAgain DEF MovesTo
<1>7. \A v \in Worker : v # w => (Writes(v)' <=> Writes(v)) /\ Item(v)' = Item(v)
  BY DEF MovesTo, Writes, Item
<1>8. Writes(w)' /\ Item(w)' = e
  BY DEF MovesTo, Writes, Item
<1>9. \A v \in Worker : v # w /\ Writes(v) => Item(v) # e /\ Item(v) \in Event /\ lock[Item(v)] = v
  <2> TAKE v \in Worker
  <2> HAVE v # w /\ Writes(v)
  <2>1. Item(v) \in Event
    BY ItemIsEvent DEF Writes
  <2>2. retry[Item(v)].token = v /\ lock[Item(v)] = v
    BY DEF IInv, WritersAreCurrent, LocksAreWriters
  <2> QED
    BY <1>1, <2>1, <2>2
<1>10. LocksAreWriters'
  <2>1. \A v \in Worker : Writes(v)' => lock'[worker'[v].item] = v
    BY <1>3, <1>7, <1>8, <1>9 DEF Writes, Item
  <2>2. \A d \in Event : d # e /\ lock[d] # None => lock[d] \in Worker /\ lock[d] # w
    BY Types DEF IInv, LocksAreWriters
  <2>3. \A d \in Event : lock'[d] # None =>
          worker'[lock'[d]].phase \in {"write", "commit"} /\ worker'[lock'[d]].item = d
    <3> TAKE d \in Event
    <3> HAVE lock'[d] # None
    <3>1. CASE d = e
      BY <1>3, <1>8, <3>1 DEF Writes, Item
    <3>2. CASE d # e
      <4>1. lock'[d] = lock[d] /\ lock[d] \in Worker /\ lock[d] # w
        BY <1>3, <2>2, <3>2
      <4>2. Writes(lock[d]) /\ Item(lock[d]) = d
        BY <4>1, Types DEF IInv, LocksAreWriters
      <4> QED
        BY <1>7, <4>1, <4>2 DEF MovesTo, Writes, Item
    <3> QED
      BY <3>1, <3>2
  <2> QED
    BY <2>1, <2>3 DEF LocksAreWriters, Writes, Item
<1>11. WritersAreCurrent'
  <2>1. \A v \in Worker : Writes(v)' =>
          retry[worker'[v].item].token = v /\ worker'[v].item \in ended \ receipt
    <3> TAKE v \in Worker
    <3> HAVE Writes(v)'
    <3>1. CASE v = w
      BY <1>1, <1>2, <1>8, <3>1 DEF Item
    <3>2. CASE v # w
      BY <1>7, <3>2 DEF IInv, WritersAreCurrent, Item
    <3> QED
      BY <3>1, <3>2
  <2> QED
    BY <2>1 DEF WritersAreCurrent, Writes, Item
<1>12. LeasesAreOfEndings' /\ ReceiptHasReport'
  BY DEF IInv, LeasesAreOfEndings, ReceiptHasReport
<1>13. SettlesAreStored'
  BY DEF MovesTo, IInv, SettlesAreStored, At, Item
<1>14. ReceiptIsFinal'
  BY <1>2, <1>3, Types DEF IInv, ReceiptIsFinal, NoRow
<1>15. OnesOwn
  BY DEF OnesOwn, Owns
<1> QED
  BY <1>6, <1>10, <1>11, <1>12, <1>13, <1>14, <1>15 DEF IInv

-----------------------------------------------------------------------------
(* The actions. *)

LEMMA Faults ==
  ASSUME Assumptions, IInv
  PROVE  faults \in 0..MaxFaults /\ (Faulty => faults' \in 0..MaxFaults)
BY Types DEF Faulty

LEMMA StartScanKeeps ==
  ASSUME Assumptions, IInv, NEW w \in Worker, StartScan(w)
  PROVE  IInv' /\ OnesOwn
<1>1. /\ worker[w] \in Reconciler /\ ~Writes(w) /\ worker[w].item = 0
      /\ UNCHANGED <<ended, retry, receipt, report, lock, faults>>
  BY ItemIsEvent DEF StartScan, At, Writes, Stands, IInv
<1>2. PICK r \in Reconciler : Stands(r) /\ Goto(w, r) /\ r.phase = "claim"
  <2>1. CASE worker[w].cursor = 0
    <3>1. Goto(w, Forward(worker[w]))
      BY <2>1 DEF StartScan
    <3> QED
      BY <1>1, <3>1, ForwardStands
  <2>2. CASE worker[w].cursor # 0
    <3> DEFINE v == IF worker[w].reverse = 0 THEN worker[w].cursor ELSE worker[w].reverse
               a == [worker[w] EXCEPT !.phase = "claim"]
               b == [a EXCEPT !.pass = "older"]
               c == [b EXCEPT !.page = OlderPage]
               r == [c EXCEPT !.reverse = v]
    <3>1. Goto(w, r)
      BY <2>2 DEF StartScan
    <3>2. v \in 0..LastId /\ OlderPage \in 0..OlderPage + ForwardPage /\ "claim" \in Phases
      BY <1>1 DEF Reconciler, Assumptions, Phases
    <3> HIDE DEF v
    <3>3. a \in Reconciler /\ a.phase = "claim" /\ a.item = 0
      BY <1>1, <3>2, FieldSet
    <3> HIDE DEF a
    <3>4. b \in Reconciler /\ b.phase = "claim" /\ b.item = 0
      BY <3>3, FieldSet
    <3> HIDE DEF b
    <3>5. c \in Reconciler /\ c.phase = "claim" /\ c.item = 0 /\ c.page = OlderPage
      BY <3>2, <3>4, FieldSet
    <3> HIDE DEF c
    <3>6. r \in Reconciler /\ r.phase = "claim" /\ r.item = 0 /\ r.page = OlderPage
      BY <3>2, <3>5, FieldSet
    <3> HIDE DEF r
    <3>7. Stands(r)
      BY <3>6 DEF Stands, Assumptions
    <3> QED
      BY <3>1, <3>6, <3>7
  <2> QED
    BY <2>1, <2>2
<1>3. MovesTo(w, r)
  BY <1>2, Moves
<1> QED
  BY <1>1, <1>2, <1>3, Faults, LeaveStep

\* The first free ending of the pass is one, if there is any.
LEMMA FirstFreeIsFree ==
  ASSUME Assumptions, IInv, NEW r \in Reconciler, NEW d \in Beyond(r), Free(d)
  PROVE  FirstFree(r) \in Event /\ Free(FirstFree(r))
<1> DEFINE free == {e \in Beyond(r) : Free(e)}
<1>1. free \in SUBSET Event /\ free # {}
  BY DEF Beyond
<1>2. Min(free) \in free /\ Max(free) \in free
  BY <1>1, EndsAreMembers
<1>3. FirstFree(r) \in free
  BY <1>2 DEF FirstFree
<1> QED
  BY <1>1, <1>3

LEMMA ClaimKeeps ==
  ASSUME Assumptions, IInv, NEW w \in Worker, Claim(w)
  PROVE  IInv' /\ OnesOwn
<1>1. /\ worker[w] \in Reconciler /\ ~Writes(w) /\ worker[w].page > 0
      /\ UNCHANGED <<ended, receipt, report, lock, faults>>
  BY ItemIsEvent DEF Claim, At, Writes, Stands, IInv
<1>2. PICK e \in Event : e = FirstFree(worker[w]) /\ Free(e)
  BY <1>1, FirstFreeIsFree DEF Claim
<1> DEFINE taken == [worker[w] EXCEPT !.phase = "consume", !.item = e, !.page = @ - 1]
<1>3. /\ retry' = Leased(w, e)
      /\ Goto(w, IF worker[w].pass = "older" THEN [taken EXCEPT !.reverse = e]
                 ELSE [taken EXCEPT !.cursor = e])
  BY <1>2 DEF Claim
<1>4. e \in 0..LastId /\ e # 0
  BY Types
<1>5. taken \in Reconciler /\ taken.phase = "consume" /\ taken.item = e
  <2>1. worker[w].page - 1 \in 0..OlderPage + ForwardPage
    BY <1>1 DEF Reconciler, Assumptions
  <2> QED
    BY <1>1, <1>4, <2>1 DEF Reconciler, Phases
<1> HIDE DEF taken
<1>6. PICK r \in Reconciler : Goto(w, r) /\ r.phase = "consume" /\ r.item = e
  BY <1>3, <1>4, <1>5 DEF Reconciler
<1>7. Stands(r) /\ MovesTo(w, r)
  BY <1>4, <1>6, Moves DEF Stands
<1> QED
  BY <1>1, <1>2, <1>3, <1>6, <1>7, Faults, TakeStep

LEMMA ExhaustedKeeps ==
  ASSUME Assumptions, IInv, NEW w \in Worker, Exhausted(w)
  PROVE  IInv' /\ OnesOwn
<1>1. /\ worker[w] \in Reconciler /\ ~Writes(w) /\ worker[w].item = 0
      /\ UNCHANGED <<ended, retry, receipt, report, lock, faults>>
  BY ItemIsEvent DEF Exhausted, At, Writes, Stands, IInv
<1>2. PICK r \in Reconciler : Stands(r) /\ Goto(w, r) /\ r.phase \in {"claim", "idle"}
  <2> DEFINE u == [worker[w] EXCEPT !.reverse = 0]
             v == [worker[w] EXCEPT !.phase = "idle", !.cursor = 0, !.reverse = 0]
  <2>1. Goto(w, IF worker[w].pass = "older" THEN Forward(u) ELSE v)
    BY DEF Exhausted
  <2>2. 0 \in 0..LastId
    BY Types
  <2>3. u \in Reconciler /\ v \in Reconciler /\ v.phase = "idle" /\ v.item = 0
    BY <1>1, <2>2 DEF Reconciler, Phases
  <2> HIDE DEF u, v
  <2>4. Stands(v) /\ Forward(u) \in Reconciler /\ Stands(Forward(u)) /\ Forward(u).phase = "claim"
    BY <2>3, ForwardStands DEF Stands
  <2> QED
    BY <2>1, <2>3, <2>4
<1>3. MovesTo(w, r)
  BY <1>2, Moves
<1> QED
  BY <1>1, <1>2, <1>3, Faults, LeaveStep

LEMMA ClaimFailsKeeps ==
  ASSUME Assumptions, IInv, NEW w \in Worker, ClaimFails(w)
  PROVE  IInv' /\ OnesOwn
<1>1. /\ worker[w] \in Reconciler /\ ~Writes(w) /\ worker[w].item = 0
      /\ UNCHANGED <<ended, receipt, report, lock>> /\ faults' \in 0..MaxFaults
  BY ItemIsEvent, Faults DEF ClaimFails, At, Writes, Stands, IInv
<1>2. PICK r \in Reconciler : Stands(r) /\ Goto(w, r) /\ r.phase = "idle"
  <2> DEFINE v == [worker[w] EXCEPT !.phase = "idle"]
  <2>1. Goto(w, v) /\ v \in Reconciler /\ v.phase = "idle" /\ v.item = 0
    BY <1>1 DEF ClaimFails, Reconciler, Phases
  <2> QED
    BY <2>1 DEF Stands
<1>3. MovesTo(w, r)
  BY <1>2, Moves
<1>4. CASE retry' = retry
  BY <1>1, <1>2, <1>3, <1>4, LeaveStep
<1>5. CASE retry' # retry
  <2>1. PICK e \in Beyond(worker[w]) : Free(e) /\ retry' = Leased(w, e)
    BY <1>5 DEF ClaimFails
  <2>2. e \in Event
    BY DEF Beyond
  <2> QED
    BY <1>1, <1>2, <1>3, <2>1, <2>2, TakeStep
<1> QED
  BY <1>4, <1>5

LEMMA ConsumeFailsKeeps ==
  ASSUME Assumptions, IInv, NEW w \in Worker, ConsumeFails(w)
  PROVE  IInv' /\ OnesOwn
<1>1. /\ worker[w] \in Reconciler /\ ~Writes(w) /\ worker[w].item # 0
      /\ UNCHANGED <<ended, retry, receipt, report, lock>> /\ Goto(w, Raised(worker[w]))
  BY ItemIsEvent DEF ConsumeFails, At, Writes, Item
<1>2. faults' \in 0..MaxFaults
  BY Faults DEF ConsumeFails
<1>3. PICK r \in Reconciler : Stands(r) /\ Goto(w, r) /\ r.phase \in {"claim", "idle", "fail"}
  BY <1>1, RaisedStands
<1>4. MovesTo(w, r)
  BY <1>3, Moves
<1> QED
  BY <1>1, <1>2, <1>3, <1>4, LeaveStep

LEMMA ConsumeVoidKeeps ==
  ASSUME Assumptions, IInv, NEW w \in Worker, ConsumeVoid(w)
  PROVE  IInv' /\ OnesOwn
<1>1. /\ worker[w] \in Reconciler /\ ~Writes(w) /\ worker[w].item # 0 /\ worker[w].item \in Void
      /\ UNCHANGED <<ended, retry, receipt, report, lock, faults>> /\ Goto(w, Returned(worker[w]))
  BY ItemIsEvent DEF ConsumeVoid, At, Writes, Item
<1>2. PICK r \in Reconciler : /\ Stands(r) /\ Goto(w, r) /\ r.phase \in {"claim", "idle", "settle"}
                              /\ r.phase = "settle" => r.item = worker[w].item
  BY <1>1, ReturnedStands
<1>3. MovesTo(w, r)
  BY <1>2, Moves
<1> QED
  BY <1>1, <1>2, <1>3, Faults, LeaveStep

LEMMA BeginReportKeeps ==
  ASSUME Assumptions, IInv, NEW w \in Worker, BeginReport(w)
  PROVE  IInv' /\ OnesOwn
<1>1. /\ worker[w] \in Reconciler /\ ~Writes(w) /\ Item(w) # 0 /\ Item(w) \in Event
      /\ Item(w) = worker[w].item
      /\ UNCHANGED <<ended, retry, receipt, report, faults>>
  BY ItemIsEvent DEF BeginReport, At, Writes, Item
<1>2. CASE /\ lock[Item(w)] = None /\ Owns(w, Item(w))
           /\ lock' = [lock EXCEPT ![Item(w)] = w]
           /\ Goto(w, [worker[w] EXCEPT !.phase = "write"])
  <2>1. PICK r \in Reconciler : Goto(w, r) /\ r.phase = "write" /\ r.item = Item(w)
    BY <1>1, <1>2 DEF Reconciler, Phases
  <2>2. MovesTo(w, r)
    BY <2>1, Moves
  <2> QED
    BY <1>1, <1>2, <2>1, <2>2, WriteStep
<1>3. CASE Goto(w, Raised(worker[w])) /\ lock' = lock
  <2>1. PICK r \in Reconciler : Stands(r) /\ Goto(w, r) /\ r.phase \in {"claim", "idle", "fail"}
    BY <1>1, <1>3, RaisedStands
  <2>2. MovesTo(w, r)
    BY <2>1, Moves
  <2> QED
    BY <1>1, <1>3, <2>1, <2>2, Faults, LeaveStep
<1> QED
  BY <1>2, <1>3 DEF BeginReport

LEMMA AssertFenceKeeps ==
  ASSUME Assumptions, IInv, NEW w \in Worker, AssertFence(w)
  PROVE  IInv' /\ OnesOwn
<1>1. /\ worker[w] \in Reconciler /\ Writes(w) /\ Item(w) # 0 /\ Item(w) \in Event
      /\ Item(w) = worker[w].item
      /\ UNCHANGED <<ended, retry, receipt, report, faults>>
  BY ItemIsEvent DEF AssertFence, At, Writes, Item
<1>2. CASE Owns(w, Item(w)) /\ Goto(w, [worker[w] EXCEPT !.phase = "commit"]) /\ lock' = lock
  <2>1. PICK r \in Reconciler : Goto(w, r) /\ r.phase = "commit" /\ r.item = Item(w)
    BY <1>1, <1>2 DEF Reconciler, Phases
  <2>2. MovesTo(w, r)
    BY <2>1, Moves
  <2>3. lock[Item(w)] = w
    BY <1>1 DEF IInv, LocksAreWriters
  <2>4. lock' = [lock EXCEPT ![Item(w)] = w]
    BY <1>1, <1>2, <2>3, Types
  <2> QED
    BY <1>1, <1>2, <2>1, <2>2, <2>4, WriteStep
<1>3. CASE Goto(w, Raised(worker[w])) /\ lock' = Unlocked(w)
  <2>1. PICK r \in Reconciler : Stands(r) /\ Goto(w, r) /\ r.phase \in {"claim", "idle", "fail"}
    BY <1>1, <1>3, RaisedStands
  <2>2. MovesTo(w, r)
    BY <2>1, Moves
  <2> QED
    BY <1>1, <1>3, <2>1, <2>2, Faults, LeaveStep
<1> QED
  BY <1>2, <1>3 DEF AssertFence

LEMMA CommitReportKeeps ==
  ASSUME Assumptions, IInv, NEW w \in Worker, CommitReport(w)
  PROVE  IInv' /\ OnesOwn
<1>1. /\ worker[w] \in Reconciler /\ Writes(w) /\ worker[w].item # 0 /\ Item(w) = worker[w].item
      /\ UNCHANGED <<ended, retry, receipt, faults>> /\ Goto(w, Returned(worker[w]))
      /\ report' = report \cup {Item(w)} /\ lock' = Unlocked(w)
  BY ItemIsEvent DEF CommitReport, At, Writes, Item
<1>2. PICK r \in Reconciler : /\ Stands(r) /\ Goto(w, r) /\ r.phase \in {"claim", "idle", "settle"}
                              /\ r.phase = "settle" => r.item = worker[w].item
  BY <1>1, ReturnedStands
<1>3. MovesTo(w, r)
  BY <1>2, Moves
<1>4. r.phase = "settle" => r.item \in report'
  BY <1>1, <1>2
<1> QED
  BY <1>1, <1>2, <1>3, <1>4, Faults, LeaveStep

LEMMA ReportFailsKeeps ==
  ASSUME Assumptions, IInv, NEW w \in Worker, ReportFails(w)
  PROVE  IInv' /\ OnesOwn
<1>1. /\ worker[w] \in Reconciler /\ Writes(w) /\ worker[w].item # 0
      /\ UNCHANGED <<ended, retry, receipt>> /\ Goto(w, Raised(worker[w])) /\ lock' = Unlocked(w)
  BY ItemIsEvent DEF ReportFails, At, Writes, Item
<1>2. report \subseteq report' /\ report' \subseteq report \cup {Item(w)}
  BY DEF ReportFails
<1>3. faults' \in 0..MaxFaults
  BY Faults DEF ReportFails
<1>4. PICK r \in Reconciler : Stands(r) /\ Goto(w, r) /\ r.phase \in {"claim", "idle", "fail"}
  BY <1>1, RaisedStands
<1>5. MovesTo(w, r)
  BY <1>4, Moves
<1> QED
  BY <1>1, <1>2, <1>3, <1>4, <1>5, LeaveStep

LEMMA NoRowIsTyped ==
  ASSUME Assumptions
  PROVE  NoRow \in Table /\ NoRow.token = None
BY DEF Assumptions, Table, NoRow

LEMMA AcknowledgeKeeps ==
  ASSUME Assumptions, IInv, NEW w \in Worker, Acknowledge(w)
  PROVE  IInv' /\ OnesOwn
<1>1. /\ worker[w] \in Reconciler /\ ~Writes(w) /\ worker[w].item # 0 /\ worker[w].phase = "settle"
      /\ UNCHANGED <<ended, report, lock, faults>>
  BY ItemIsEvent DEF Acknowledge, At, Writes, Item
<1>2. CASE /\ lock[Item(w)] = None /\ Owns(w, Item(w))
           /\ receipt' = receipt \cup {Item(w)} /\ retry' = [retry EXCEPT ![Item(w)] = NoRow]
           /\ Goto(w, Released(worker[w]))
  <2>1. PICK r \in Reconciler : Stands(r) /\ Goto(w, r) /\ r.phase \in {"claim", "idle"}
    BY <1>1, <1>2, ReleasedStands
  <2>2. MovesTo(w, r)
    BY <2>1, Moves
  <2> QED
    BY <1>1, <1>2, <2>1, <2>2, Faults, NoRowIsTyped, GiveUpStep
<1>3. CASE Goto(w, Raised(worker[w])) /\ UNCHANGED <<receipt, retry>>
  <2>1. PICK r \in Reconciler : Stands(r) /\ Goto(w, r) /\ r.phase \in {"claim", "idle", "fail"}
    BY <1>1, <1>3, RaisedStands
  <2>2. MovesTo(w, r)
    BY <2>1, Moves
  <2> QED
    BY <1>1, <1>3, <2>1, <2>2, Faults, LeaveStep
<1> QED
  BY <1>2, <1>3 DEF Acknowledge

LEMMA AcknowledgeFailsKeeps ==
  ASSUME Assumptions, IInv, NEW w \in Worker, AcknowledgeFails(w)
  PROVE  IInv' /\ OnesOwn
<1>1. /\ worker[w] \in Reconciler /\ ~Writes(w) /\ worker[w].item # 0 /\ worker[w].phase = "settle"
      /\ UNCHANGED <<ended, report, lock>> /\ Goto(w, Raised(worker[w]))
  BY ItemIsEvent DEF AcknowledgeFails, At, Writes, Item
<1>2. faults' \in 0..MaxFaults
  BY Faults DEF AcknowledgeFails
<1>3. PICK r \in Reconciler : Stands(r) /\ Goto(w, r) /\ r.phase \in {"claim", "idle", "fail"}
  BY <1>1, RaisedStands
<1>4. MovesTo(w, r)
  BY <1>3, Moves
<1>5. CASE UNCHANGED <<receipt, retry>>
  BY <1>1, <1>2, <1>3, <1>4, <1>5, LeaveStep
<1>6. CASE /\ lock[Item(w)] = None /\ Owns(w, Item(w))
           /\ receipt' = receipt \cup {Item(w)} /\ retry' = [retry EXCEPT ![Item(w)] = NoRow]
  BY <1>1, <1>2, <1>3, <1>4, <1>6, NoRowIsTyped, GiveUpStep
<1> QED
  BY <1>5, <1>6 DEF AcknowledgeFails

\* A failure is counted up to its bound.
LEMMA ScheduledRow ==
  ASSUME Assumptions, IInv, NEW e \in Event
  PROVE  \E entry \in Table : entry.token = None /\ Scheduled(e) = [retry EXCEPT ![e] = entry]
<1> DEFINE more == retry[e].failures + 1
           failures == Min({more, MaxFailures})
<1>1. retry[e] \in Table /\ MaxFailures \in Nat /\ MaxFailures > 0 /\ Lease \in Nat
  BY Types DEF Assumptions
<1>2. more \in Nat /\ more > 0
  BY <1>1 DEF Table
<1> HIDE DEF more
<1>3. failures \in 1..MaxFailures
  <2>1. failures \in {more, MaxFailures} /\ failures <= MaxFailures
    BY <1>1, <1>2, LesserOfTwo
  <2> QED
    BY <1>1, <1>2, <2>1
<1> DEFINE entry == [NoRow EXCEPT !.failures = failures, !.due = RetryDelay(failures)]
<1>4. Scheduled(e) = [retry EXCEPT ![e] = entry]
  BY DEF Scheduled, more
<1> HIDE DEF failures
<1>5. RetryDelay(failures) \in 0..RetryCap
  BY <1>1, <1>3, DelayIsCapped
<1>6. entry \in Table /\ entry.token = None
  <2> DEFINE a == [NoRow EXCEPT !.failures = failures]
             b == [a EXCEPT !.due = RetryDelay(failures)]
  <2>1. a \in Table /\ a.token = None
    BY <1>1, <1>3, NoRowIsTyped DEF Table
  <2>2. entry = b
    OBVIOUS
  <2> HIDE DEF a
  <2>3. b \in Table /\ b.token = None
    BY <1>5, <2>1 DEF Table
  <2> HIDE DEF b
  <2> QED
    BY <2>2, <2>3
<1> HIDE DEF entry
<1> QED
  BY <1>4, <1>6

LEMMA FailKeeps ==
  ASSUME Assumptions, IInv, NEW w \in Worker, Fail(w)
  PROVE  IInv' /\ OnesOwn
<1>1. /\ worker[w] \in Reconciler /\ ~Writes(w) /\ Item(w) \in Event /\ worker[w].phase = "fail"
      /\ UNCHANGED <<ended, receipt, report, lock, faults>> /\ Goto(w, Released(worker[w]))
  BY ItemIsEvent DEF Fail, At, Writes, Item
<1>2. PICK r \in Reconciler : Stands(r) /\ Goto(w, r) /\ r.phase \in {"claim", "idle"}
  BY <1>1, ReleasedStands
<1>3. MovesTo(w, r)
  BY <1>2, Moves
<1>4. CASE Owns(w, Item(w))
  <2>1. PICK entry \in Table : entry.token = None /\ Scheduled(Item(w)) = [retry EXCEPT ![Item(w)] = entry]
    BY <1>1, ScheduledRow
  <2>2. retry' = [retry EXCEPT ![Item(w)] = entry]
    BY <1>4, <2>1 DEF Fail
  <2> QED
    BY <1>1, <1>2, <1>3, <1>4, <2>1, <2>2, Faults, GiveUpStep
<1>5. CASE ~Owns(w, Item(w))
  <2>1. retry' = retry
    BY <1>5 DEF Fail
  <2> QED
    BY <1>1, <1>2, <1>3, <2>1, Faults, LeaveStep
<1> QED
  BY <1>4, <1>5

LEMMA FailFailsKeeps ==
  ASSUME Assumptions, IInv, NEW w \in Worker, FailFails(w)
  PROVE  IInv' /\ OnesOwn
<1>1. /\ worker[w] \in Reconciler /\ ~Writes(w)
      /\ UNCHANGED <<ended, retry, receipt, report, lock>> /\ Goto(w, Released(worker[w]))
  BY ItemIsEvent DEF FailFails, At, Writes, Item
<1>2. faults' \in 0..MaxFaults
  BY Faults DEF FailFails
<1>3. PICK r \in Reconciler : Stands(r) /\ Goto(w, r) /\ r.phase \in {"claim", "idle"}
  BY <1>1, ReleasedStands
<1>4. MovesTo(w, r)
  BY <1>3, Moves
<1> QED
  BY <1>1, <1>2, <1>3, <1>4, LeaveStep

\* A reconciler takes its lease for lost.
LEMMA AbortStep ==
  ASSUME Assumptions, IInv, NEW w \in Worker, Goto(w, [worker[w] EXCEPT !.aborted = TRUE]),
         UNCHANGED <<ended, retry, receipt, report, lock>>, faults' \in 0..MaxFaults
  PROVE  IInv' /\ OnesOwn
<1> DEFINE r == [worker[w] EXCEPT !.aborted = TRUE]
<1>1. worker[w] \in Reconciler
  BY ItemIsEvent
<1>2. r \in Reconciler /\ r.phase = worker[w].phase /\ r.item = worker[w].item /\ r.page = worker[w].page
  BY <1>1 DEF Reconciler
<1>3. Goto(w, r)
  OBVIOUS
<1> HIDE DEF r
<1>4. MovesTo(w, r)
  BY <1>2, <1>3, Moves
<1>5. /\ worker' \in [Worker -> Reconciler]
      /\ \A v \in Worker : worker'[v].phase = worker[v].phase /\ worker'[v].item = worker[v].item
                           /\ worker'[v].page = worker[v].page
  BY <1>2, <1>4 DEF MovesTo
<1> QED
  BY <1>5, FlagStep

LEMMA RenewKeeps ==
  ASSUME Assumptions, IInv, NEW w \in Worker, Renew(w)
  PROVE  IInv' /\ OnesOwn
<1>1. Item(w) # 0 /\ UNCHANGED <<ended, receipt, report, lock, faults>>
  BY DEF Renew
<1>2. CASE Owns(w, Item(w))
  <2>1. retry' = Leased(w, Item(w)) /\ UNCHANGED worker
    BY <1>2 DEF Renew
  <2> QED
    BY <1>1, <1>2, <2>1, RenewedStep
<1>3. CASE ~Owns(w, Item(w))
  <2>1. Goto(w, [worker[w] EXCEPT !.aborted = TRUE]) /\ UNCHANGED retry
    BY <1>3 DEF Renew
  <2> QED
    BY <1>1, <2>1, Faults, AbortStep
<1> QED
  BY <1>2, <1>3

LEMMA RenewFailsKeeps ==
  ASSUME Assumptions, IInv, NEW w \in Worker, RenewFails(w)
  PROVE  IInv' /\ OnesOwn
BY Faults, AbortStep DEF RenewFails

LEMMA CrashKeeps ==
  ASSUME Assumptions, IInv, NEW w \in Worker, Crash(w)
  PROVE  IInv' /\ OnesOwn
<1>1. /\ UNCHANGED <<ended, retry, receipt>> /\ Goto(w, Fresh) /\ lock' = Unlocked(w)
      /\ report \subseteq report' /\ report' \subseteq report \cup {Item(w)}
  BY DEF Crash
<1>2. report' = report \/ Writes(w)
  BY DEF Crash, Writes
<1>3. faults' \in 0..MaxFaults
  BY Faults DEF Crash
<1>4. Fresh \in Reconciler /\ Stands(Fresh) /\ Fresh.phase = "idle"
  BY Types DEF Fresh, Reconciler, Phases, Stands, Assumptions
<1>5. MovesTo(w, Fresh)
  BY <1>1, <1>4, Moves
<1> QED
  BY <1>1, <1>2, <1>3, <1>4, <1>5, LeaveStep

LEMMA EndKeeps ==
  ASSUME Assumptions, IInv, NEW e \in Event, End(e)
  PROVE  IInv' /\ OnesOwn
<1>1. ended' = ended \cup {e} /\ UNCHANGED <<retry, receipt, report, lock, worker, faults>>
  BY DEF End
<1>2. ended' \subseteq Event /\ receipt' \subseteq ended' /\ report' \subseteq ended' /\ ended \subseteq ended'
  BY <1>1, Types
<1>3. TypeOK' /\ (\A v \in Worker : Stands(worker[v])')
  BY <1>1, <1>2, Types, TypesAgain DEF IInv
<1>4. LocksAreWriters' /\ SettlesAreStored' /\ ReceiptHasReport' /\ ReceiptIsFinal'
  BY <1>1 DEF IInv, LocksAreWriters, SettlesAreStored, ReceiptHasReport, ReceiptIsFinal, Writes, Item, At
<1>5. WritersAreCurrent' /\ LeasesAreOfEndings'
  BY <1>1, <1>2 DEF IInv, WritersAreCurrent, LeasesAreOfEndings, Writes, Item
<1>6. OnesOwn
  BY <1>1 DEF OnesOwn, Owns
<1> QED
  BY <1>3, <1>4, <1>5, <1>6 DEF IInv

LEMMA TickKeeps ==
  ASSUME Assumptions, IInv, Tick
  PROVE  IInv' /\ OnesOwn
<1>1. /\ retry' = [e \in Event |-> [retry[e] EXCEPT !.due = Less(@), !.left = Less(@)]]
      /\ UNCHANGED <<ended, receipt, report, lock, worker, faults>>
  BY DEF Tick
<1>2. \A e \in Event : LET entry == [retry[e] EXCEPT !.due = Less(@), !.left = Less(@)]
                       IN /\ entry \in Table /\ entry.token = retry[e].token
                          /\ retry[e] = NoRow => entry = NoRow
  <2> TAKE e \in Event
  <2>1. retry[e] \in Table
    BY Types
  <2>2. retry[e].due \in 0..RetryCap /\ retry[e].left \in 0..Lease /\ RetryCap \in Nat /\ Lease \in Nat
    BY <2>1 DEF Table, Assumptions
  <2> DEFINE due == Less(retry[e].due)
             left == Less(retry[e].left)
             a == [retry[e] EXCEPT !.due = due]
             b == [a EXCEPT !.left = left]
  <2>3. due \in 0..RetryCap /\ left \in 0..Lease /\ (retry[e].due = 0 => due = 0) /\ (retry[e].left = 0 => left = 0)
    BY <2>2 DEF Less
  <2>4. b = [retry[e] EXCEPT !.due = Less(@), !.left = Less(@)]
    OBVIOUS
  <2> HIDE DEF due, left
  <2>5. a \in Table /\ a.token = retry[e].token /\ a.left = retry[e].left /\ (retry[e] = NoRow => a = NoRow)
    BY <2>1, <2>3 DEF Table, NoRow
  <2> HIDE DEF a
  <2>6. b \in Table /\ b.token = retry[e].token /\ (retry[e] = NoRow => b = NoRow)
    BY <2>3, <2>5 DEF Table, NoRow
  <2> HIDE DEF b
  <2> QED
    BY <2>4, <2>6
<1>3. /\ retry' \in [Event -> Table]
      /\ \A e \in Event : retry'[e].token = retry[e].token /\ (retry[e] = NoRow => retry'[e] = NoRow)
  BY <1>1, <1>2
<1>4. TypeOK' /\ (\A v \in Worker : Stands(worker[v])')
  BY <1>1, <1>3, Types, TypesAgain DEF IInv
<1>5. LocksAreWriters' /\ SettlesAreStored' /\ ReceiptHasReport'
  BY <1>1 DEF IInv, LocksAreWriters, SettlesAreStored, ReceiptHasReport, Writes, Item, At
<1>6. WritersAreCurrent' /\ LeasesAreOfEndings'
  <2>1. \A v \in Worker : Writes(v) => Item(v) \in Event
    BY ItemIsEvent DEF Writes
  <2> QED
    BY <1>1, <1>3, <2>1 DEF IInv, WritersAreCurrent, LeasesAreOfEndings, Writes, Item
<1>7. ReceiptIsFinal'
  BY <1>1, <1>3, Types DEF IInv, ReceiptIsFinal, NoRow
<1>8. OnesOwn
  BY <1>3 DEF OnesOwn, Owns
<1> QED
  BY <1>4, <1>5, <1>6, <1>7, <1>8 DEF IInv

LEMMA QuietKeeps ==
  ASSUME Assumptions, IInv, UNCHANGED vars
  PROVE  IInv' /\ OnesOwn
<1>1. UNCHANGED <<ended, retry, receipt, report, lock, worker, faults>>
  BY DEF vars
<1> QED
  BY <1>1, Types, FlagStep

-----------------------------------------------------------------------------
(* The theorems. *)

LEMMA StartsWell ==
  ASSUME Assumptions, Init
  PROVE  IInv
<1>1. Fresh \in Reconciler /\ Stands(Fresh) /\ NoRow \in Table /\ Fresh.phase = "idle" /\ NoRow.token = None
  BY NoRowIsTyped DEF Fresh, Reconciler, Phases, Stands, Assumptions, Event
<1>2. /\ worker \in [Worker -> Reconciler] /\ retry \in [Event -> Table]
      /\ lock \in [Event -> Worker \cup {None}] /\ faults \in 0..MaxFaults
      /\ \A w \in Worker : worker[w] = Fresh
  BY <1>1 DEF Init, Assumptions
<1>3. TypeOK /\ \A w \in Worker : Stands(worker[w])
  BY <1>1, <1>2 DEF Init, TypeOK, Table, Reconciler, Stands
<1> QED
  BY <1>1, <1>2, <1>3 DEF IInv, Init, LocksAreWriters, WritersAreCurrent, LeasesAreOfEndings, SettlesAreStored,
                          ReceiptHasReport, ReceiptIsFinal, Writes, At

LEMMA NextKeeps ==
  ASSUME Assumptions, IInv, Next
  PROVE  IInv' /\ OnesOwn
<1>1. ASSUME NEW w \in Worker, Works(w)
      PROVE  IInv' /\ OnesOwn
  BY <1>1, ClaimKeeps, ExhaustedKeeps, ConsumeVoidKeeps, BeginReportKeeps, AssertFenceKeeps,
     CommitReportKeeps, AcknowledgeKeeps, FailKeeps, ConsumeFailsKeeps DEF Works
<1>2. ASSUME NEW w \in Worker, Fails(w)
      PROVE  IInv' /\ OnesOwn
  BY <1>2, ClaimFailsKeeps, ConsumeFailsKeeps, ReportFailsKeeps, AcknowledgeFailsKeeps, FailFailsKeeps,
     RenewFailsKeeps, CrashKeeps DEF Fails
<1> QED
  BY <1>1, <1>2, StartScanKeeps, RenewKeeps, EndKeeps, TickKeeps DEF Next

\* The inductive invariant holds of every reachable state of the inbox.
THEOREM Invariance ==
  ASSUME Assumptions
  PROVE  Spec => []IInv
<1>1. Init => IInv
  BY StartsWell
<1>2. IInv /\ [Next]_vars => IInv'
  BY NextKeeps, QuietKeeps
<1> QED
  BY <1>1, <1>2, PTL DEF Spec

\* The tables, the locks and the reconcilers are well typed.
THEOREM TypeCorrect ==
  ASSUME Assumptions
  PROVE  Spec => []TypeOK
<1>1. IInv => TypeOK
  BY DEF IInv
<1> QED
  BY <1>1, Invariance, PTL

\* A report is committed under the newest lease and before any receipt, a receipt
\* has its report and is final, and a live lease is moved by its holder alone
\* (claim, assertTerminalReportFence, acknowledge, fail), although leases lapse in
\* the middle of a report and replies are lost.
THEOREM InboxSafety ==
  ASSUME Assumptions
  PROVE  Spec => InboxIsFenced
<1>1. IInv => NoStaleReport /\ ReceiptHasReport /\ ReceiptIsFinal
  BY DEF IInv, NoStaleReport, WritersAreCurrent, Writes, At
<1>2. IInv /\ [Next]_vars =>
        [\A e \in Event, w \in Worker :
           Owns(w, e) /\ retry'[e].token # w => Item(w) = e /\ worker'[w] # worker[w]]_vars
  BY NextKeeps DEF OnesOwn
<1>3. Spec => [](NoStaleReport /\ ReceiptHasReport /\ ReceiptIsFinal)
  BY <1>1, Invariance, PTL
<1>4. Spec => LeasesAreOnesOwn
  BY <1>2, Invariance, PTL DEF Spec, LeasesAreOnesOwn
<1> QED
  BY <1>3, <1>4, PTL DEF InboxIsFenced

-----------------------------------------------------------------------------
(* The game of a pairing (Pairings, TournamentLaunch).  What holds of the  *)
(* row r, the games gm, the slots th of others and the games ab that were  *)
(* abandoned.                                                              *)

Operation == {"none", "scan", "withdraw", "manual", "outcome"}
Games == [Launch!Slot -> Launch!Ended \cup {"none", "live", "played"}]

ProcRecord ==
  [pc : Launch!Steps, op : Operation, arg : Launch!Ended \cup {NoGame},
   game : Launch!Slot \cup {NoGame}, tries : Nat, draft : Launch!Rows, fresh : BOOLEAN,
   probe : Nat, ambiguous : BOOLEAN]

\* Games of this pairing under the older identity.
Earlier(gm, th) == {g \in Launch!Slot : g.space = "legacy" /\ gm[g] # "none" /\ g \notin th}
NoneLeft(n, gm, th) == \A h \in Earlier(gm, th) : h.n < n

\* The games of the older launches fill slots in turn; the one in play is the last.
Slots(r, gm, th) ==
  /\ \A g \in th : g.space = "legacy" /\ gm[g] # "none"
  /\ \A g, h \in Launch!Slot :
       g.space = "legacy" /\ h.space = "legacy" /\ h.n < g.n /\ gm[g] # "none" => gm[h] # "none"
  /\ \A g, h \in Earlier(gm, th) : gm[g] \notin Launch!Ended => h.n <= g.n /\ r.attempt <= g.n

\* A slot is filled only when nothing older is left from there on, and attempts only
\* pass a slot whose game has ended.
Attempts(r, gm, th) ==
  /\ \A g \in Launch!Slot : g.space = "committed" /\ gm[g] # "none" =>
       g.n <= r.attempt /\ gm[g] # "played" /\ NoneLeft(g.n, gm, th)
  /\ \A n \in 0..MaxSlot : n < r.attempt =>
       gm[Launch!At("committed", n)] \in Launch!Ended \/ \E h \in Earlier(gm, th) : n <= h.n

Abandonment(r, gm, ab) ==
  /\ \A g \in ab : gm[g] = "aborted" /\ (g.space = "committed" => g.n < r.attempt)
  /\ r.attempt = 0 => ab = {}

\* What can be saved: marks that do not contradict the result, which is the game's
\* unless it is marked.
RowGood(d, gm) ==
  /\ d.forfeit # NoGame => d.forfeit \in d.withdrawn /\ d.result = Launch!Other(d.forfeit)
  /\ d.unconfirmed => d.link # NoGame /\ d.result # NoGame /\ d.forfeit = NoGame
  /\ d.result # NoGame /\ d.link # NoGame /\ d.forfeit = NoGame /\ ~d.unconfirmed => gm[d.link] = d.result

Linkage(r, gm, th) == r.link # NoGame => r.link \notin th /\ gm[r.link] # "none" /\ r.attempt = r.link.n

World(r, gm, th, ab) ==
  /\ Slots(r, gm, th) /\ Attempts(r, gm, th) /\ Abandonment(r, gm, ab)
  /\ RowGood(r, gm) /\ Linkage(r, gm, th)

\* A draft that leaves the link, or abandons a game that was aborted.
Decided(d, r, gm) ==
  /\ RowGood(d, gm)
  /\ \/ d.link = r.link /\ d.attempt = r.attempt
     \/ r.link # NoGame /\ gm[r.link] = "aborted" /\ d.link = NoGame /\ d.attempt = r.link.n + 1

\* A draft that links a game.
Linking(d, r, gm, th, ab) ==
  /\ r.link = NoGame /\ d.link # NoGame /\ d.link \notin th \cup ab
  /\ RowGood(d, gm) /\ gm[d.link] # "none" /\ d.attempt = d.link.n
  /\ d.link.space = "committed" => d.link.n = r.attempt
  /\ r.attempt <= d.link.n

\* What a reporter has seen of a game stays; what a launch has not found stays unfound.
ProcOK(s, r, gm, th, ab) ==
  /\ s.pc \in {"read", "save"} =>
       /\ s.op \in {"withdraw", "manual", "outcome"}
       /\ s.op \in {"withdraw", "manual"} => s.arg \in Launch!Side
       /\ s.op = "outcome" => s.game \in Launch!Slot /\ s.arg = gm[s.game] /\ gm[s.game] \in Launch!Ended
  /\ s.pc = "look" => s.game \in Launch!Slot
  /\ s.pc = "save" /\ s.fresh => Decided(s.draft, r, gm)
  /\ s.pc \in {"committed", "legacy", "create"} =>
       /\ s.draft.attempt <= r.attempt
       /\ s.fresh => s.draft = r /\ r.link = NoGame /\ r.result = NoGame
  /\ s.pc = "committed" => s.probe = s.draft.attempt
  /\ s.pc \in {"legacy", "create"} => s.draft.attempt <= MaxSlot
  /\ s.pc = "legacy" =>
       /\ s.draft.attempt <= s.probe
       /\ \A h \in Earlier(gm, th) : s.draft.attempt <= h.n /\ h.n < s.probe => s.ambiguous
  /\ s.pc = "create" => NoneLeft(s.draft.attempt, gm, th)
  /\ s.pc = "link" /\ s.fresh => Linking(s.draft, r, gm, th, ab)

LaunchTypes ==
  /\ row \in Launch!Rows /\ theirs \subseteq Launch!Slot /\ abandoned \subseteq Launch!Slot
  /\ game \in Games /\ proc \in [Process -> ProcRecord]

LaunchInv ==
  /\ LaunchTypes /\ World(row, game, theirs, abandoned)
  /\ \A p \in Process : ProcOK(proc[p], row, game, theirs, abandoned)

LEMMA LaunchConstants ==
  /\ NoGame \notin Launch!Slot /\ NoGame \notin Launch!Ended /\ NoGame \notin Launch!Side
  /\ MaxSlot \in Nat
BY PairingsAssumptions DEF Launch!Assumptions, Launch!Ended, Launch!Result

LEMMA SlotIs ==
  /\ \A n \in 0..MaxSlot : \A sp \in {"committed", "legacy"} :
       /\ Launch!At(sp, n) \in Launch!Slot /\ Launch!At(sp, n).space = sp /\ Launch!At(sp, n).n = n
  /\ \A g \in Launch!Slot : /\ g.space \in {"committed", "legacy"} /\ g.n \in 0..MaxSlot
                            /\ g = Launch!At(g.space, g.n)
BY DEF Launch!At, Launch!Slot

\* What the log does: games that are played end, and an empty slot is filled.
GoesOn(gm, gm2, r, th) ==
  \A g \in Launch!Slot :
    \/ gm2[g] = gm[g]
    \/ /\ gm[g] \in {"live", "played"}
       /\ gm2[g] \in Launch!Ended \/ (gm2[g] = "played" /\ g.space = "legacy")
    \/ /\ gm[g] = "none" /\ gm2[g] = "live" /\ g.space = "committed"
       /\ g.n <= r.attempt /\ NoneLeft(g.n, gm, th)

LEMMA WhatGoesOn ==
  ASSUME NEW gm \in Games, NEW gm2 \in Games, NEW r, NEW th, GoesOn(gm, gm2, r, th)
  PROVE  /\ \A g \in Launch!Slot : gm[g] # "none" => gm2[g] # "none"
         /\ \A g \in Launch!Slot : gm[g] \in Launch!Ended => gm2[g] = gm[g]
         /\ Earlier(gm2, th) = Earlier(gm, th)
         /\ \A n : NoneLeft(n, gm2, th) <=> NoneLeft(n, gm, th)
<1>1. \A g \in Launch!Slot : gm[g] # "none" => gm2[g] # "none"
  BY DEF GoesOn, Launch!Ended, Launch!Result, Launch!Side
<1>2. \A g \in Launch!Slot : gm[g] \in Launch!Ended => gm2[g] = gm[g]
  BY DEF GoesOn, Launch!Ended, Launch!Result, Launch!Side
<1>3. \A g \in Launch!Slot : g.space = "legacy" => (gm2[g] # "none" <=> gm[g] # "none")
  BY <1>1 DEF GoesOn
<1>4. Earlier(gm2, th) = Earlier(gm, th)
  BY <1>3 DEF Earlier
<1> QED BY <1>1, <1>2, <1>4 DEF NoneLeft

LEMMA WorldGoesOn ==
  ASSUME NEW gm \in Games, NEW gm2 \in Games, NEW r \in Launch!Rows, NEW th \in SUBSET Launch!Slot,
         NEW ab \in SUBSET Launch!Slot, GoesOn(gm, gm2, r, th), World(r, gm, th, ab)
  PROVE  World(r, gm2, th, ab)
<1>1. /\ \A g \in Launch!Slot : gm[g] # "none" => gm2[g] # "none"
      /\ \A g \in Launch!Slot : gm[g] \in Launch!Ended => gm2[g] = gm[g]
      /\ Earlier(gm2, th) = Earlier(gm, th)
      /\ \A n : NoneLeft(n, gm2, th) <=> NoneLeft(n, gm, th)
  BY WhatGoesOn
<1>2. Slots(r, gm2, th)
  <2>1. \A g \in Launch!Slot : g.space = "legacy" => (gm2[g] # "none" <=> gm[g] # "none")
    BY <1>1 DEF GoesOn
  <2>2. Earlier(gm, th) \subseteq Launch!Slot
    BY DEF Earlier
  <2> QED BY <1>1, <2>1, <2>2 DEF World, Slots
<1>3. Attempts(r, gm2, th)
  <2>1. \A g \in Launch!Slot : g.space = "committed" /\ gm2[g] # "none" =>
          g.n <= r.attempt /\ gm2[g] # "played" /\ NoneLeft(g.n, gm2, th)
    <3> SUFFICES ASSUME NEW g \in Launch!Slot, g.space = "committed", gm2[g] # "none"
                 PROVE  g.n <= r.attempt /\ gm2[g] # "played" /\ NoneLeft(g.n, gm2, th)
      OBVIOUS
    <3>1. CASE gm[g] # "none"
      BY <1>1, <3>1 DEF World, Attempts, GoesOn, Launch!Ended, Launch!Result, Launch!Side
    <3>2. CASE gm[g] = "none"
      BY <1>1, <3>2 DEF GoesOn
    <3> QED BY <3>1, <3>2
  <2>2. \A n \in 0..MaxSlot : n < r.attempt =>
          gm2[Launch!At("committed", n)] \in Launch!Ended \/ \E h \in Earlier(gm2, th) : n <= h.n
    BY <1>1, SlotIs DEF World, Attempts
  <2> QED BY <2>1, <2>2 DEF Attempts
<1>4. Abandonment(r, gm2, ab)
  BY <1>1 DEF World, Abandonment, Launch!Ended
<1>5. r.link # NoGame => r.link \in Launch!Slot
  BY DEF Launch!Rows
<1>6. RowGood(r, gm2)
  <2>1. r.result # NoGame => r.result \in Launch!Ended
    BY DEF Launch!Rows, Launch!Ended
  <2> QED BY <1>1, <1>5, <2>1 DEF World, RowGood
<1>7. Linkage(r, gm2, th)
  BY <1>1, <1>5 DEF World, Linkage
<1> QED BY <1>2, <1>3, <1>4, <1>6, <1>7 DEF World

LEMMA ProcGoesOn ==
  ASSUME NEW gm \in Games, NEW gm2 \in Games, NEW r \in Launch!Rows, NEW th \in SUBSET Launch!Slot,
         NEW ab \in SUBSET Launch!Slot, GoesOn(gm, gm2, r, th), World(r, gm, th, ab),
         NEW s \in ProcRecord, ProcOK(s, r, gm, th, ab)
  PROVE  ProcOK(s, r, gm2, th, ab)
<1>1. /\ \A g \in Launch!Slot : gm[g] # "none" => gm2[g] # "none"
      /\ \A g \in Launch!Slot : gm[g] \in Launch!Ended => gm2[g] = gm[g]
      /\ Earlier(gm2, th) = Earlier(gm, th)
      /\ \A n : NoneLeft(n, gm2, th) <=> NoneLeft(n, gm, th)
  BY WhatGoesOn
<1> DEFINE d == s.draft
<1>2. /\ d.link # NoGame => d.link \in Launch!Slot
      /\ d.result # NoGame => d.result \in Launch!Ended
      /\ r.link # NoGame => r.link \in Launch!Slot
  BY DEF ProcRecord, Launch!Rows, Launch!Ended
<1>3. RowGood(d, gm) => RowGood(d, gm2)
  BY <1>1, <1>2 DEF RowGood
<1>4. Decided(d, r, gm) => Decided(d, r, gm2)
  BY <1>1, <1>2, <1>3 DEF Decided, Launch!Ended
<1>5. Linking(d, r, gm, th, ab) => Linking(d, r, gm2, th, ab)
  BY <1>1, <1>2, <1>3 DEF Linking
<1> HIDE DEF d
<1>6. s.pc \in {"read", "save"} =>
       /\ s.op \in {"withdraw", "manual", "outcome"}
       /\ s.op \in {"withdraw", "manual"} => s.arg \in Launch!Side
       /\ s.op = "outcome" => s.game \in Launch!Slot /\ s.arg = gm2[s.game] /\ gm2[s.game] \in Launch!Ended
  BY <1>1 DEF ProcOK
<1>7. s.pc = "look" => s.game \in Launch!Slot
  BY DEF ProcOK
<1> QED BY <1>1, <1>4, <1>5, <1>6, <1>7 DEF ProcOK, d

\* Mark a game that a save leaves behind.
Left(r, d) == {g \in {r.link} \ {NoGame} : d.link = NoGame}

\* A draft that keeps the link, or abandons an aborted game, can be saved.
LEMMA RowSaved ==
  ASSUME NEW r \in Launch!Rows, NEW d \in Launch!Rows, NEW gm \in Games, NEW th \in SUBSET Launch!Slot,
         NEW ab \in SUBSET Launch!Slot, World(r, gm, th, ab), Decided(d, r, gm)
  PROVE  /\ World(d, gm, th, ab \cup Left(r, d)) /\ r.attempt <= d.attempt
         /\ ab \cup Left(r, d) \in SUBSET Launch!Slot
<1>0. /\ r.attempt \in Nat /\ d.attempt \in Nat
      /\ r.link = NoGame \/ r.link \in Launch!Slot
  BY LaunchConstants DEF Launch!Rows
<1>1. CASE d.link = r.link /\ d.attempt = r.attempt
  <2>1. Left(r, d) = {}
    BY <1>1 DEF Left
  <2>2. Slots(d, gm, th) /\ Attempts(d, gm, th)
    BY <1>1 DEF World, Slots, Attempts
  <2>3. Abandonment(d, gm, ab) /\ Linkage(d, gm, th)
    BY <1>1 DEF World, Abandonment, Linkage
  <2>4. RowGood(d, gm)
    BY DEF Decided
  <2>5. World(d, gm, th, ab)
    BY <2>2, <2>3, <2>4 DEF World
  <2>6. ab \cup Left(r, d) = ab
    BY <2>1
  <2> QED BY <1>0, <1>1, <2>5, <2>6
<1>2. CASE r.link # NoGame /\ gm[r.link] = "aborted" /\ d.link = NoGame /\ d.attempt = r.link.n + 1
  <2> DEFINE g == r.link
  <2>1. /\ g \in Launch!Slot /\ g \notin th /\ gm[g] = "aborted" /\ r.attempt = g.n
        /\ g.n \in Nat /\ d.attempt = g.n + 1 /\ g.space \in {"committed", "legacy"}
        /\ g = Launch!At(g.space, g.n) /\ "aborted" \in Launch!Ended
    BY <1>0, <1>2, SlotIs DEF World, Linkage, Launch!Ended
  <2>2. Left(r, d) = {g}
    BY <1>2 DEF Left
  <2> HIDE DEF g
  <2>3. Earlier(gm, th) \subseteq Launch!Slot /\ (\A h \in Launch!Slot : h.n \in Nat)
    BY SlotIs DEF Earlier
  <2>4. g.space = "legacy" => g \in Earlier(gm, th)
    BY <2>1 DEF Earlier
  <2>5. g.space = "committed" => NoneLeft(g.n, gm, th)
    BY <2>1 DEF World, Attempts
  <2>6. Slots(d, gm, th)
    <3>1. ASSUME NEW h \in Earlier(gm, th), gm[h] \notin Launch!Ended
          PROVE  d.attempt <= h.n
      <4>1. r.attempt <= h.n /\ h \in Launch!Slot /\ h.n \in Nat /\ h # g
        BY <2>1, <2>3, <3>1 DEF World, Slots
      <4>2. CASE g.space = "legacy"
        <5>1. g.n <= h.n
          BY <2>4, <3>1, <4>2 DEF World, Slots
        <5>2. h.space = "legacy" /\ h = Launch!At(h.space, h.n)
          BY <3>1, <4>1, SlotIs DEF Earlier
        <5>3. h.n # g.n
          BY <2>1, <4>1, <4>2, <5>2
        <5> QED BY <2>1, <4>1, <5>1, <5>3
      <4>3. CASE g.space = "committed"
        <5>1. h.n < g.n
          BY <2>5, <4>3 DEF NoneLeft
        <5> QED BY <2>1, <4>1, <5>1
      <4> QED BY <2>1, <4>2, <4>3
    <3> QED BY <3>1 DEF World, Slots
  <2>7. Attempts(d, gm, th)
    <3>1. \A h \in Launch!Slot : h.space = "committed" /\ gm[h] # "none" =>
            h.n <= d.attempt /\ gm[h] # "played" /\ NoneLeft(h.n, gm, th)
      <4>1. \A h \in Launch!Slot : h.space = "committed" /\ gm[h] # "none" =>
              h.n <= r.attempt /\ gm[h] # "played" /\ NoneLeft(h.n, gm, th)
        BY DEF World, Attempts
      <4> QED BY <2>1, <2>3, <4>1
    <3>2. ASSUME NEW n \in 0..MaxSlot, n < d.attempt
          PROVE  gm[Launch!At("committed", n)] \in Launch!Ended \/ \E h \in Earlier(gm, th) : n <= h.n
      <4>1. CASE n < r.attempt
        BY <4>1 DEF World, Attempts
      <4>2. CASE n = r.attempt
        BY <2>1, <2>4, <4>2
      <4> QED BY <2>1, <3>2, <4>1, <4>2
    <3> QED BY <3>1, <3>2 DEF Attempts
  <2>8. Abandonment(d, gm, ab \cup {g})
    <3>1. \A h \in ab : gm[h] = "aborted" /\ (h.space = "committed" => h.n < r.attempt)
      BY DEF World, Abandonment
    <3>2. \A h \in ab : h.n \in Nat
      BY <2>3
    <3>3. \A h \in ab \cup {g} : gm[h] = "aborted" /\ (h.space = "committed" => h.n < d.attempt)
      BY <2>1, <3>1, <3>2
    <3> QED BY <2>1, <3>3 DEF Abandonment
  <2>9. RowGood(d, gm) /\ Linkage(d, gm, th)
    BY <1>2 DEF Decided, Linkage
  <2>10. World(d, gm, th, ab \cup {g})
    BY <2>6, <2>7, <2>8, <2>9 DEF World
  <2>11. r.attempt <= d.attempt
    BY <2>1
  <2> QED BY <2>1, <2>2, <2>10, <2>11
<1> QED BY <1>1, <1>2 DEF Decided

\* So can a draft that links a game.
LEMMA LinkSaved ==
  ASSUME NEW r \in Launch!Rows, NEW d \in Launch!Rows, NEW gm \in Games, NEW th \in SUBSET Launch!Slot,
         NEW ab \in SUBSET Launch!Slot, World(r, gm, th, ab), Linking(d, r, gm, th, ab)
  PROVE  World(d, gm, th, ab) /\ r.attempt <= d.attempt /\ Left(r, d) = {}
<1> DEFINE g == d.link
<1>1. /\ g \in Launch!Slot /\ g \notin th \cup ab /\ gm[g] # "none" /\ d.attempt = g.n /\ r.link = NoGame
      /\ r.attempt <= g.n /\ r.attempt \in Nat /\ g.n \in 0..MaxSlot /\ g.n \in Nat
      /\ g.space \in {"committed", "legacy"}
      /\ g.space = "committed" => g.n = r.attempt
      /\ RowGood(d, gm) /\ g # NoGame
  BY SlotIs, LaunchConstants DEF Linking, Launch!Rows
<1>2. Linkage(d, gm, th)
  BY <1>1 DEF Linkage
<1>3. Left(r, d) = {}
  BY <1>1 DEF Left
<1> HIDE DEF g
<1>4. Earlier(gm, th) \subseteq Launch!Slot /\ (\A h \in Launch!Slot : h.n \in Nat)
  BY SlotIs DEF Earlier
<1>5. g.space = "legacy" => g \in Earlier(gm, th)
  BY <1>1 DEF Earlier
<1>6. g.space = "committed" => d.attempt = r.attempt
  BY <1>1
<1>7. Slots(d, gm, th)
  <2>1. ASSUME NEW h \in Earlier(gm, th), gm[h] \notin Launch!Ended
        PROVE  d.attempt <= h.n
    <3>1. CASE g.space = "legacy"
      BY <1>1, <1>5, <2>1, <3>1 DEF World, Slots
    <3>2. CASE g.space = "committed"
      BY <1>6, <2>1, <3>2 DEF World, Slots
    <3> QED BY <1>1, <3>1, <3>2
  <2> QED BY <2>1 DEF World, Slots
<1>8. Attempts(d, gm, th)
  <2>1. \A h \in Launch!Slot : h.space = "committed" /\ gm[h] # "none" =>
          h.n <= d.attempt /\ gm[h] # "played" /\ NoneLeft(h.n, gm, th)
    <3>1. \A h \in Launch!Slot : h.space = "committed" /\ gm[h] # "none" =>
            h.n <= r.attempt /\ gm[h] # "played" /\ NoneLeft(h.n, gm, th)
      BY DEF World, Attempts
    <3> QED BY <1>1, <1>4, <3>1
  <2>2. ASSUME NEW n \in 0..MaxSlot, n < d.attempt
        PROVE  gm[Launch!At("committed", n)] \in Launch!Ended \/ \E h \in Earlier(gm, th) : n <= h.n
    <3>1. CASE g.space = "legacy"
      <4>1. n <= g.n
        BY <1>1, <2>2
      <4> QED BY <1>5, <3>1, <4>1
    <3>2. CASE g.space = "committed"
      BY <1>6, <2>2, <3>2 DEF World, Attempts
    <3> QED BY <1>1, <3>1, <3>2
  <2> QED BY <2>1, <2>2 DEF Attempts
<1>9. Abandonment(d, gm, ab)
  <2>1. \A h \in ab : h.n \in Nat
    BY <1>4
  <2>2. \A h \in ab : gm[h] = "aborted" /\ (h.space = "committed" => h.n < r.attempt)
    BY DEF World, Abandonment
  <2>3. \A h \in ab : gm[h] = "aborted" /\ (h.space = "committed" => h.n < d.attempt)
    BY <1>1, <2>1, <2>2
  <2>4. d.attempt = 0 => r.attempt = 0
    BY <1>1
  <2> QED BY <2>3, <2>4 DEF World, Abandonment
<1> QED BY <1>1, <1>2, <1>3, <1>7, <1>8, <1>9 DEF World

\* After somebody's save no draft is fresh.
Outdates(s) == [s EXCEPT !.fresh = FALSE]

LEMMA Outdating ==
  ASSUME NEW r \in Launch!Rows, NEW d \in Launch!Rows, NEW gm \in Games, NEW th \in SUBSET Launch!Slot,
         NEW ab, NEW ab2, r.attempt <= d.attempt,
         NEW s \in ProcRecord, ProcOK(s, r, gm, th, ab)
  PROVE  Outdates(s) \in ProcRecord /\ ProcOK(Outdates(s), d, gm, th, ab2)
<1> DEFINE t == Outdates(s)
<1>1. t \in ProcRecord
  BY DEF ProcRecord, Outdates
<1>2. /\ t.pc = s.pc /\ t.op = s.op /\ t.arg = s.arg /\ t.game = s.game
      /\ t.draft = s.draft /\ t.probe = s.probe /\ t.ambiguous = s.ambiguous
  BY DEF ProcRecord, Outdates
<1>3. t.fresh = FALSE
  BY DEF ProcRecord, Outdates
<1> HIDE DEF t
<1>4. s.draft.attempt \in Nat /\ r.attempt \in Nat /\ d.attempt \in Nat
  BY LaunchConstants DEF ProcRecord, Launch!Rows
<1>5. s.draft.attempt <= r.attempt => s.draft.attempt <= d.attempt
  BY <1>4
<1>6. ProcOK(t, d, gm, th, ab2)
  BY <1>2, <1>3, <1>5 DEF ProcOK
<1> QED BY <1>1, <1>6 DEF t

LEMMA NewRowIs ==
  /\ Launch!NewRow \in Launch!Rows
  /\ Launch!NewRow.attempt = 0 /\ Launch!NewRow.link = NoGame
  /\ Launch!NewRow.result = NoGame /\ Launch!NewRow.forfeit = NoGame /\ Launch!NewRow.unconfirmed = FALSE
BY LaunchConstants DEF Launch!NewRow, Launch!Rows

LEMMA IdleIs == Launch!Idle \in ProcRecord /\ Launch!Idle.pc = "idle"
BY NewRowIs DEF Launch!Idle, ProcRecord, Launch!Steps, Operation

\* Processes that rest hold nothing to keep.
LEMMA Resting ==
  \A s, r, gm, th, ab : s.pc \in {"idle", "reconcile", "pick"} => ProcOK(s, r, gm, th, ab)
BY DEF ProcOK

LEMMA OverIs == \A s \in ProcRecord : Launch!Over(s) \in ProcRecord /\ Launch!Over(s).pc \in {"idle", "pick"}
<1> DEFINE t == [Launch!Idle EXCEPT !.pc = "pick", !.op = "scan"]
<1>1. t \in ProcRecord /\ t.pc = "pick"
  BY IdleIs DEF ProcRecord, Launch!Steps, Operation
<1> HIDE DEF t
<1>2. \A s : Launch!Over(s) \in {t, Launch!Idle}
  BY DEF Launch!Over, t
<1> QED BY <1>1, <1>2, IdleIs

LEMMA ReconcilingIs ==
  \A s \in ProcRecord : Launch!Reconciling(s) \in ProcRecord /\ Launch!Reconciling(s).pc = "reconcile"
BY NewRowIs DEF Launch!Reconciling, ProcRecord, Launch!Steps

-----------------------------------------------------------------------------
(* What kinds of step there are. *)

\* A process goes on, alone or with a game.
LEMMA ProcStep ==
  ASSUME LaunchInv, NEW p \in Process, NEW t \in ProcRecord, proc' = [proc EXCEPT ![p] = t],
         game' \in Games, GoesOn(game, game', row, theirs),
         ProcOK(t, row, game', theirs, abandoned), UNCHANGED <<row, theirs, abandoned>>
  PROVE  LaunchInv'
<1>1. LaunchTypes' /\ \A q \in Process : proc'[q] = IF q = p THEN t ELSE proc[q]
  BY DEF LaunchInv, LaunchTypes
<1>2. World(row, game', theirs, abandoned)
  BY WorldGoesOn DEF LaunchInv, LaunchTypes
<1>3. ASSUME NEW q \in Process
      PROVE  ProcOK(proc'[q], row, game', theirs, abandoned)
  <2>1. proc[q] \in ProcRecord /\ ProcOK(proc[q], row, game, theirs, abandoned)
    BY DEF LaunchInv, LaunchTypes
  <2>2. ProcOK(proc[q], row, game', theirs, abandoned)
    BY <2>1, ProcGoesOn DEF LaunchInv, LaunchTypes
  <2> QED BY <1>1, <2>2
<1> QED BY <1>1, <1>2, <1>3 DEF LaunchInv

LEMMA NothingGoesOn == \A gm, r, th : GoesOn(gm, gm, r, th)
BY DEF GoesOn

\* A game goes on.
LEMMA GameStep ==
  ASSUME LaunchInv, game' \in Games, GoesOn(game, game', row, theirs),
         UNCHANGED <<row, proc, theirs, abandoned>>
  PROVE  LaunchInv'
<1>1. LaunchTypes'
  BY DEF LaunchInv, LaunchTypes
<1>2. World(row, game', theirs, abandoned)
  BY WorldGoesOn DEF LaunchInv, LaunchTypes
<1>3. ASSUME NEW q \in Process
      PROVE  ProcOK(proc[q], row, game', theirs, abandoned)
  <2>1. proc[q] \in ProcRecord /\ ProcOK(proc[q], row, game, theirs, abandoned)
    BY DEF LaunchInv, LaunchTypes
  <2> QED BY <2>1, ProcGoesOn DEF LaunchInv, LaunchTypes
<1> QED BY <1>1, <1>2, <1>3 DEF LaunchInv

\* The row is saved.
LEMMA RowStep ==
  ASSUME LaunchInv, NEW now \in [Process -> ProcRecord],
         \A q \in Process : ProcOK(now[q], row, game, theirs, abandoned),
         proc' = [q \in Process |-> Outdates(now[q])], row' \in Launch!Rows,
         Decided(row', row, game) \/ Linking(row', row, game, theirs, abandoned),
         abandoned' = abandoned \cup Left(row, row'), UNCHANGED <<game, theirs>>
  PROVE  LaunchInv'
<1>1. /\ row \in Launch!Rows /\ game \in Games /\ theirs \in SUBSET Launch!Slot
      /\ abandoned \in SUBSET Launch!Slot /\ World(row, game, theirs, abandoned)
  BY DEF LaunchInv, LaunchTypes
<1>4. /\ World(row', game, theirs, abandoned') /\ row.attempt <= row'.attempt
      /\ abandoned' \in SUBSET Launch!Slot
  <2>1. CASE Decided(row', row, game)
    BY <1>1, <2>1, RowSaved
  <2>2. CASE Linking(row', row, game, theirs, abandoned)
    <3>1. World(row', game, theirs, abandoned) /\ row.attempt <= row'.attempt /\ Left(row, row') = {}
      BY <1>1, <2>2, LinkSaved
    <3> QED BY <1>1, <3>1
  <2> QED BY <2>1, <2>2
<1>5. ASSUME NEW q \in Process
      PROVE  Outdates(now[q]) \in ProcRecord /\ ProcOK(Outdates(now[q]), row', game, theirs, abandoned')
  <2>1. now[q] \in ProcRecord /\ ProcOK(now[q], row, game, theirs, abandoned)
    OBVIOUS
  <2> QED BY <1>1, <1>4, <2>1, Outdating
<1>6. proc' \in [Process -> ProcRecord] /\ \A q \in Process : proc'[q] = Outdates(now[q])
  BY <1>5
<1>7. LaunchTypes'
  BY <1>1, <1>4, <1>6 DEF LaunchTypes
<1>8. \A q \in Process : ProcOK(proc'[q], row', game, theirs, abandoned')
  BY <1>5, <1>6
<1> QED BY <1>1, <1>4, <1>7, <1>8 DEF LaunchInv

-----------------------------------------------------------------------------
(* What an operation makes of the row it has read. *)

LEMMA SidesAre ==
  \A side \in Launch!Side : Launch!Other(side) \in Launch!Side /\ Launch!Other(side) # NoGame
BY LaunchConstants DEF Launch!Other, Launch!Side

LEMMA WithdrawFromIs ==
  ASSUME NEW r \in Launch!Rows, NEW gm \in Games, RowGood(r, gm), NEW side \in Launch!Side, ~r.over,
         side \notin r.withdrawn
  PROVE  Launch!WithdrawFrom(r, side) \in Launch!Rows /\ Decided(Launch!WithdrawFrom(r, side), r, gm)
<1> DEFINE d == Launch!WithdrawFrom(r, side)
<1>0. d = [r EXCEPT !.withdrawn = @ \cup {side},
                    !.result = IF @ = NoGame THEN Launch!Other(side) ELSE @,
                    !.forfeit = IF r.result = NoGame /\ r.link # NoGame THEN side ELSE @]
  BY DEF Launch!WithdrawFrom
<1>1. d.withdrawn = r.withdrawn \cup {side} /\ d.link = r.link /\ d.attempt = r.attempt
  BY <1>0 DEF Launch!Rows
<1>2. d.unconfirmed = r.unconfirmed
  BY <1>0 DEF Launch!Rows
<1>3. d.result = IF r.result = NoGame THEN Launch!Other(side) ELSE r.result
  BY <1>0 DEF Launch!Rows
<1>4. d.forfeit = IF r.result = NoGame /\ r.link # NoGame THEN side ELSE r.forfeit
  BY <1>0 DEF Launch!Rows
<1>5. d \in Launch!Rows
  <2>1. PICK w2 : w2 = r.withdrawn \cup {side}
    OBVIOUS
  <2>2. PICK res2 : res2 = IF r.result = NoGame THEN Launch!Other(side) ELSE r.result
    OBVIOUS
  <2>3. PICK f2 : f2 = IF r.result = NoGame /\ r.link # NoGame THEN side ELSE r.forfeit
    OBVIOUS
  <2>4. w2 \in SUBSET Launch!Side
    BY <2>1 DEF Launch!Rows
  <2>5. res2 \in Launch!Side \cup {NoGame}
    BY <2>2, SidesAre DEF Launch!Rows, Launch!Result
  <2>6. f2 \in Launch!Side \cup {NoGame}
    BY <2>3 DEF Launch!Rows
  <2>7. d = [r EXCEPT !.withdrawn = w2, !.result = res2, !.forfeit = f2]
    BY <1>0, <2>1, <2>2, <2>3
  <2> QED BY <2>4, <2>5, <2>6, <2>7 DEF Launch!Rows, Launch!Result
<1> HIDE DEF d
<1>6. r.forfeit # NoGame => r.forfeit \in Launch!Side
  BY DEF Launch!Rows
<1>7. RowGood(d, gm)
  <2>1. CASE r.result = NoGame
    <3>1. r.forfeit = NoGame /\ ~r.unconfirmed
      BY <1>6, <2>1, SidesAre DEF RowGood
    <3>2. d.result = Launch!Other(side) /\ d.result # NoGame /\ side # NoGame
      BY <1>3, <2>1, SidesAre, LaunchConstants
    <3>3. d.forfeit = IF r.link # NoGame THEN side ELSE NoGame
      BY <1>4, <2>1, <3>1
    <3> QED BY <1>1, <1>2, <3>1, <3>2, <3>3 DEF RowGood
  <2>2. CASE r.result # NoGame
    BY <1>1, <1>2, <1>3, <1>4, <2>2 DEF RowGood
  <2> QED BY <2>1, <2>2
<1> QED BY <1>1, <1>5, <1>7 DEF Decided, d

LEMMA RecordManualIs ==
  ASSUME NEW r \in Launch!Rows, NEW gm \in Games, RowGood(r, gm), NEW result \in Launch!Side, ~r.over
  PROVE  Launch!RecordManual(r, result) \in Launch!Rows /\ Decided(Launch!RecordManual(r, result), r, gm)
<1> DEFINE d == Launch!RecordManual(r, result)
<1>0. d = [r EXCEPT !.result = result, !.forfeit = NoGame, !.unconfirmed = r.unconfirmed \/ r.link # NoGame]
  BY DEF Launch!RecordManual
<1>1. d.link = r.link /\ d.attempt = r.attempt /\ d.forfeit = NoGame
  BY <1>0 DEF Launch!Rows
<1>2. d.result = result
  BY <1>0 DEF Launch!Rows
<1>3. d.unconfirmed <=> (r.unconfirmed \/ r.link # NoGame)
  BY <1>0 DEF Launch!Rows
<1>4. d \in Launch!Rows
  BY <1>0 DEF Launch!Rows, Launch!Result
<1> HIDE DEF d
<1>5. RowGood(d, gm)
  BY <1>1, <1>2, <1>3, LaunchConstants DEF RowGood
<1> QED BY <1>1, <1>4, <1>5 DEF Decided, d

\* The result of a game that ended, as Confirm, Abandon and the plain case record it.
Recorded(r, result) == [r EXCEPT !.result = result, !.forfeit = NoGame, !.unconfirmed = FALSE]

LEMMA RecordedIs ==
  ASSUME NEW r \in Launch!Rows, NEW gm \in Games, RowGood(r, gm), NEW result \in Launch!Side,
         r.link # NoGame, gm[r.link] = result
  PROVE  Recorded(r, result) \in Launch!Rows /\ Decided(Recorded(r, result), r, gm)
<1> DEFINE d == Recorded(r, result)
<1>1. d.link = r.link /\ d.attempt = r.attempt /\ d.forfeit = NoGame
  BY DEF Recorded, Launch!Rows
<1>2. d.result = result /\ d.unconfirmed = FALSE
  BY DEF Recorded, Launch!Rows
<1>3. d \in Launch!Rows
  BY DEF Recorded, Launch!Rows, Launch!Result
<1> HIDE DEF d
<1>4. RowGood(d, gm)
  BY <1>1, <1>2 DEF RowGood
<1> QED BY <1>1, <1>3, <1>4 DEF Decided, d

LEMMA AbandonIs ==
  ASSUME NEW r \in Launch!Rows, NEW gm \in Games, NEW th, RowGood(r, gm), Linkage(r, gm, th),
         r.link # NoGame, gm[r.link] = "aborted", r.result = NoGame
  PROVE  Launch!Abandon(r) \in Launch!Rows /\ Decided(Launch!Abandon(r), r, gm)
<1> DEFINE d == Launch!Abandon(r)
<1>1. /\ r.link \in Launch!Slot /\ r.link.n \in 0..MaxSlot /\ r.attempt = r.link.n /\ MaxSlot \in Nat
  BY SlotIs, LaunchConstants DEF Launch!Rows, Linkage
<1>2. d = [r EXCEPT !.link = NoGame, !.attempt = r.link.n + 1]
  BY <1>1 DEF Launch!Abandon
<1>3. r.link.n + 1 \in 0..MaxSlot + 1
  BY <1>1
<1>4. d.link = NoGame /\ d.attempt = r.link.n + 1
  BY <1>2 DEF Launch!Rows
<1>5. d.result = r.result /\ d.forfeit = r.forfeit /\ d.unconfirmed = r.unconfirmed /\ d.withdrawn = r.withdrawn
  BY <1>2 DEF Launch!Rows
<1>6. d \in Launch!Rows
  BY <1>2, <1>3 DEF Launch!Rows
<1> HIDE DEF d
<1>7. r.forfeit = NoGame
  <2>1. r.forfeit # NoGame => r.forfeit \in Launch!Side
    BY DEF Launch!Rows
  <2> QED BY <2>1, SidesAre DEF RowGood
<1>8. RowGood(d, gm)
  BY <1>4, <1>5, <1>7 DEF RowGood
<1> QED BY <1>4, <1>6, <1>8 DEF Decided, d

LEMMA SameRowDecided ==
  ASSUME NEW r \in Launch!Rows, NEW gm \in Games, RowGood(r, gm)
  PROVE  Decided(r, r, gm)
BY DEF Decided

\* What the outcome g ended with is recorded, abandons the game or changes nothing.
LEMMA RecordOutcomeIs ==
  ASSUME NEW r \in Launch!Rows, NEW gm \in Games, NEW th, RowGood(r, gm), Linkage(r, gm, th),
         NEW g \in Launch!Slot, gm[g] \in Launch!Ended
  PROVE  LET d == Launch!RecordOutcome(r, g, gm[g])
         IN d = NoGame \/ (d \in Launch!Rows /\ Decided(d, r, gm))
<1>1. CASE r.link # g
  BY <1>1, SameRowDecided DEF Launch!RecordOutcome
<1>2. CASE r.link = g /\ r.result = NoGame /\ gm[g] = "aborted"
  <2>1. Launch!RecordOutcome(r, g, gm[g]) = Launch!Abandon(r)
    BY <1>2 DEF Launch!RecordOutcome
  <2> QED BY <1>2, <2>1, AbandonIs, LaunchConstants
<1>3. CASE r.link = g /\ r.result # NoGame /\ gm[g] = "aborted"
  BY <1>3 DEF Launch!RecordOutcome
<1>4. CASE r.link = g /\ gm[g] # "aborted"
  <2>1. gm[g] \in Launch!Side /\ g # NoGame /\ gm[g] # NoGame
    BY <1>4, LaunchConstants DEF Launch!Ended, Launch!Result
  <2>2. Recorded(r, gm[g]) \in Launch!Rows /\ Decided(Recorded(r, gm[g]), r, gm)
    BY <1>4, <2>1, RecordedIs
  <2>3. CASE r.result = NoGame
    <3>1. r.forfeit = NoGame /\ r.unconfirmed = FALSE
      <4>1. (r.forfeit # NoGame => r.forfeit \in Launch!Side) /\ r.unconfirmed \in BOOLEAN
        BY DEF Launch!Rows
      <4> QED BY <2>3, <4>1, SidesAre DEF RowGood
    <3>2. Launch!RecordOutcome(r, g, gm[g]) = [r EXCEPT !.result = gm[g]]
      BY <1>4, <2>3 DEF Launch!RecordOutcome
    <3>3. [r EXCEPT !.result = gm[g]] = Recorded(r, gm[g])
      BY <3>1 DEF Recorded, Launch!Rows
    <3> QED BY <2>2, <3>2, <3>3
  <2>4. CASE r.result # NoGame
    <3>1. Launch!RecordOutcome(r, g, gm[g]) = Launch!Confirm(r, gm[g])
      BY <1>4, <2>4 DEF Launch!RecordOutcome
    <3>2. CASE r.result = gm[g]
      <4>1. Launch!Confirm(r, gm[g]) = [r EXCEPT !.forfeit = NoGame, !.unconfirmed = FALSE]
        BY <3>2 DEF Launch!Confirm
      <4>2. [r EXCEPT !.forfeit = NoGame, !.unconfirmed = FALSE] = Recorded(r, gm[g])
        BY <3>2 DEF Recorded, Launch!Rows
      <4> QED BY <2>2, <3>1, <4>1, <4>2
    <3>3. CASE r.result # gm[g] /\ r.forfeit # NoGame
      <4>1. Launch!Confirm(r, gm[g]) = Recorded(r, gm[g])
        BY <3>3 DEF Launch!Confirm, Recorded
      <4> QED BY <2>2, <3>1, <4>1
    <3>4. CASE r.result # gm[g] /\ r.forfeit = NoGame
      BY <3>1, <3>4 DEF Launch!Confirm
    <3> QED BY <3>2, <3>3, <3>4
  <2> QED BY <2>3, <2>4
<1> QED BY <1>1, <1>2, <1>3, <1>4

\* An operation throws, or makes a draft that can be saved.
LEMMA Decisions ==
  ASSUME LaunchInv, NEW s \in ProcRecord, ProcOK(s, row, game, theirs, abandoned), s.pc = "read"
  PROVE  \/ Launch!Decision(s) = NoGame
         \/ Launch!Decision(s) \in Launch!Rows /\ Decided(Launch!Decision(s), row, game)
<1>1. row \in Launch!Rows /\ game \in Games /\ RowGood(row, game) /\ Linkage(row, game, theirs)
  BY DEF LaunchInv, LaunchTypes, World
<1>2. /\ s.op \in {"withdraw", "manual", "outcome"}
      /\ s.op \in {"withdraw", "manual"} => s.arg \in Launch!Side
      /\ s.op = "outcome" => s.game \in Launch!Slot /\ s.arg = game[s.game] /\ game[s.game] \in Launch!Ended
  BY DEF ProcOK
<1>3. CASE s.op = "withdraw"
  <2>1. Launch!Decision(s) = Launch!WithdrawFrom(row, s.arg)
    BY <1>3 DEF Launch!Decision
  <2>2. CASE row.over
    BY <2>1, <2>2 DEF Launch!WithdrawFrom
  <2>3. CASE ~row.over /\ s.arg \in row.withdrawn
    BY <1>1, <2>1, <2>3, SameRowDecided DEF Launch!WithdrawFrom
  <2>4. CASE ~row.over /\ s.arg \notin row.withdrawn
    BY <1>1, <1>2, <1>3, <2>1, <2>4, WithdrawFromIs
  <2> QED BY <2>2, <2>3, <2>4
<1>4. CASE s.op = "manual"
  <2>1. Launch!Decision(s) = Launch!RecordManual(row, s.arg)
    BY <1>4 DEF Launch!Decision
  <2>2. CASE row.over
    BY <2>1, <2>2 DEF Launch!RecordManual
  <2>3. CASE ~row.over
    BY <1>1, <1>2, <1>4, <2>1, <2>3, RecordManualIs
  <2> QED BY <2>2, <2>3
<1>5. CASE s.op = "outcome"
  <2>1. Launch!Decision(s) = Launch!RecordOutcome(row, s.game, game[s.game])
    BY <1>2, <1>5 DEF Launch!Decision
  <2> QED BY <1>1, <1>2, <1>5, <2>1, RecordOutcomeIs
<1> QED BY <1>2, <1>3, <1>4, <1>5

-----------------------------------------------------------------------------
(* The steps of a process. *)

\* The pairing is linked to no game that was abandoned or is another's.
LinkStep == row'.link # row.link /\ row'.link # NoGame => row'.link \notin abandoned \cup theirs

\* A process goes on alone.
LEMMA AloneStep ==
  ASSUME LaunchInv, NEW p \in Process, NEW t \in ProcRecord, proc' = [proc EXCEPT ![p] = t],
         ProcOK(t, row, game, theirs, abandoned), UNCHANGED <<row, game, theirs, abandoned>>
  PROVE  LaunchInv' /\ LinkStep
<1>1. game' = game /\ game \in Games
  BY DEF LaunchInv, LaunchTypes
<1>2. LaunchInv'
  BY <1>1, NothingGoesOn, ProcStep
<1> QED BY <1>2 DEF LinkStep

\* A row that is saved, or a save that was too late.
LEMMA StoreStep ==
  ASSUME LaunchInv, NEW p \in Process, NEW then \in ProcRecord, NEW again,
         then.pc \in {"idle", "reconcile", "pick"},
         again = "reconcile" \/ (again = "read" /\ proc[p].pc = "save"),
         proc[p].fresh => \/ Decided(proc[p].draft, row, game)
                          \/ Linking(proc[p].draft, row, game, theirs, abandoned),
         Launch!Store(p, then, again), UNCHANGED <<game, theirs>>
  PROVE  LaunchInv' /\ LinkStep
<1> DEFINE s == proc[p]
<1>1. /\ s \in ProcRecord /\ ProcOK(s, row, game, theirs, abandoned) /\ s.draft \in Launch!Rows
      /\ proc \in [Process -> ProcRecord]
  BY DEF LaunchInv, LaunchTypes, ProcRecord
<1>2. CASE s.fresh
  <2> DEFINE now == [proc EXCEPT ![p] = then]
  <2>1. /\ row' = s.draft /\ abandoned' = abandoned \cup Left(row, s.draft)
        /\ proc' = [q \in Process |-> Outdates(now[q])]
    BY <1>2 DEF Launch!Store, Launch!CanSave, Launch!Outdated, Launch!Saved, Outdates, Left
  <2>2. now \in [Process -> ProcRecord] /\ \A q \in Process : now[q] = IF q = p THEN then ELSE proc[q]
    BY <1>1
  <2> HIDE DEF now
  <2>3. \A q \in Process : ProcOK(now[q], row, game, theirs, abandoned)
    BY <2>2, Resting DEF LaunchInv
  <2>4. Decided(row', row, game) \/ Linking(row', row, game, theirs, abandoned)
    BY <1>2, <2>1
  <2>5. LaunchInv'
    BY <1>1, <2>1, <2>2, <2>3, <2>4, RowStep
  <2>6. LinkStep
    BY <2>4 DEF LinkStep, Decided, Linking
  <2> QED BY <2>5, <2>6
<1>3. CASE ~s.fresh
  <2> DEFINE t == [s EXCEPT !.pc = again, !.tries = @ + 1]
  <2>1. /\ row' = row /\ abandoned' = abandoned
        /\ proc' = [proc EXCEPT ![p] = IF s.tries < Tries THEN t ELSE Launch!Over(s)]
    BY <1>3 DEF Launch!Store, Launch!CanSave, Launch!Goto
  <2>2. t \in ProcRecord
    <3>1. PICK k : k = s.tries + 1
      OBVIOUS
    <3>2. k \in Nat /\ again \in Launch!Steps
      BY <1>1, <3>1 DEF ProcRecord, Launch!Steps
    <3>3. t = [s EXCEPT !.pc = again, !.tries = k]
      BY <3>1
    <3> HIDE DEF t, s
    <3> QED BY <1>1, <3>2, <3>3 DEF ProcRecord
  <2>3. t.pc = again /\ t.op = s.op /\ t.arg = s.arg /\ t.game = s.game
    BY <1>1 DEF ProcRecord
  <2> HIDE DEF t
  <2>4. ProcOK(t, row, game, theirs, abandoned)
    <3>1. CASE again = "reconcile"
      BY <2>3, <3>1, Resting
    <3>2. CASE again = "read" /\ s.pc = "save"
      BY <1>1, <2>3, <3>2 DEF ProcOK
    <3> QED BY <3>1, <3>2
  <2>5. Launch!Over(s) \in ProcRecord /\ ProcOK(Launch!Over(s), row, game, theirs, abandoned)
    BY <1>1, OverIs, Resting
  <2>6. PICK u \in ProcRecord : proc' = [proc EXCEPT ![p] = u] /\ ProcOK(u, row, game, theirs, abandoned)
    BY <2>1, <2>2, <2>4, <2>5
  <2>7. game' = game /\ theirs' = theirs /\ game \in Games
    BY DEF LaunchInv, LaunchTypes
  <2> QED BY <2>1, <2>6, <2>7, AloneStep
<1> QED BY <1>2, <1>3

LEMMA RestStep ==
  ASSUME LaunchInv, NEW p \in Process, NEW t \in ProcRecord, proc' = [proc EXCEPT ![p] = t],
         t.pc \in {"idle", "reconcile", "pick"}, UNCHANGED <<row, game, theirs, abandoned>>
  PROVE  LaunchInv' /\ LinkStep
<1>1. ProcOK(t, row, game, theirs, abandoned)
  BY Resting
<1> QED BY <1>1, AloneStep

Ordered(op, arg) == [Launch!Idle EXCEPT !.pc = "read", !.op = op, !.arg = arg, !.tries = 1]

LEMMA OrderedIs ==
  ASSUME NEW op \in {"withdraw", "manual"}, NEW arg \in Launch!Side
  PROVE  /\ Ordered(op, arg) \in ProcRecord /\ Ordered(op, arg).pc = "read"
         /\ Ordered(op, arg).op = op /\ Ordered(op, arg).arg = arg
<1>1. Ordered(op, arg) \in ProcRecord
  BY IdleIs DEF Ordered, ProcRecord, Launch!Steps, Operation, Launch!Ended, Launch!Result
<1>2. Ordered(op, arg).pc = "read"
  BY IdleIs DEF Ordered, ProcRecord
<1>3. Ordered(op, arg).op = op /\ Ordered(op, arg).arg = arg
  BY IdleIs DEF Ordered, ProcRecord
<1> QED BY <1>1, <1>2, <1>3

LEMMA OrderKeeps ==
  ASSUME LaunchInv, NEW p \in Process, Launch!Order(p)
  PROVE  LaunchInv' /\ LinkStep
<1>1. PICK op \in {"withdraw", "manual"}, arg \in Launch!Side :
        proc' = [proc EXCEPT ![p] = Ordered(op, arg)] /\ UNCHANGED <<row, game, theirs, abandoned>>
  BY DEF Launch!Order, Launch!Goto, Ordered, Launch!Result
<1> DEFINE t == Ordered(op, arg)
<1>2. t \in ProcRecord /\ t.pc = "read" /\ t.op = op /\ t.arg = arg
  BY OrderedIs
<1>3. proc' = [proc EXCEPT ![p] = t]
  BY <1>1
<1> HIDE DEF t
<1>4. ProcOK(t, row, game, theirs, abandoned)
  BY <1>2 DEF ProcOK
<1> QED BY <1>1, <1>2, <1>3, <1>4, AloneStep

ToSave(s, d) == [s EXCEPT !.pc = "save", !.draft = d, !.fresh = TRUE]

LEMMA ToSaveIs ==
  ASSUME NEW s \in ProcRecord, NEW d \in Launch!Rows
  PROVE  LET t == ToSave(s, d)
         IN /\ t \in ProcRecord /\ t.pc = "save" /\ t.draft = d
            /\ t.op = s.op /\ t.arg = s.arg /\ t.game = s.game
<1>1. ToSave(s, d) \in ProcRecord
  BY DEF ToSave, ProcRecord, Launch!Steps
<1>2. ToSave(s, d).pc = "save" /\ ToSave(s, d).draft = d
  BY DEF ToSave, ProcRecord
<1>3. ToSave(s, d).op = s.op /\ ToSave(s, d).arg = s.arg /\ ToSave(s, d).game = s.game
  BY DEF ToSave, ProcRecord
<1> QED BY <1>1, <1>2, <1>3

LEMMA ReadKeeps ==
  ASSUME LaunchInv, NEW p \in Process, Launch!Read(p)
  PROVE  LaunchInv' /\ LinkStep
<1> DEFINE s == proc[p]
           d == Launch!Decision(s)
<1>1. s \in ProcRecord /\ ProcOK(s, row, game, theirs, abandoned) /\ s.pc = "read"
  BY DEF LaunchInv, LaunchTypes, Launch!Read, Launch!Do
<1>2. UNCHANGED <<row, game, theirs, abandoned>>
  BY DEF Launch!Read, Launch!Wait
<1>3. d = NoGame \/ (d \in Launch!Rows /\ Decided(d, row, game))
  BY <1>1, Decisions
<1>4. \/ d = NoGame /\ proc' = [proc EXCEPT ![p] = Launch!Idle]
      \/ proc' = [proc EXCEPT ![p] = Launch!Reconciling(s)]
      \/ d # NoGame /\ proc' = [proc EXCEPT ![p] = ToSave(s, d)]
  BY DEF Launch!Read, Launch!Goto, ToSave
<1> HIDE DEF s, d
<1>5. CASE proc' = [proc EXCEPT ![p] = Launch!Idle]
  BY <1>2, <1>5, IdleIs, RestStep
<1>6. CASE proc' = [proc EXCEPT ![p] = Launch!Reconciling(s)]
  BY <1>1, <1>2, <1>6, ReconcilingIs, RestStep
<1>7. CASE d # NoGame /\ proc' = [proc EXCEPT ![p] = ToSave(s, d)]
  <2> DEFINE t == ToSave(s, d)
  <2>1. /\ t \in ProcRecord /\ t.pc = "save" /\ t.draft = d
        /\ t.op = s.op /\ t.arg = s.arg /\ t.game = s.game
    BY <1>1, <1>3, <1>7, ToSaveIs
  <2>2. proc' = [proc EXCEPT ![p] = t]
    BY <1>7
  <2> HIDE DEF t
  <2>3. Decided(d, row, game)
    BY <1>3, <1>7
  <2>4. ProcOK(t, row, game, theirs, abandoned)
    BY <1>1, <2>1, <2>3 DEF ProcOK
  <2> QED BY <1>2, <2>1, <2>2, <2>4, AloneStep
<1> QED BY <1>4, <1>5, <1>6, <1>7

LEMMA SaveKeeps ==
  ASSUME LaunchInv, NEW p \in Process, Launch!Save(p)
  PROVE  LaunchInv' /\ LinkStep
<1> DEFINE s == proc[p]
           then == Launch!Reconciling(s)
<1>1. s \in ProcRecord /\ ProcOK(s, row, game, theirs, abandoned) /\ s.pc = "save"
  BY DEF LaunchInv, LaunchTypes, Launch!Save, Launch!Do
<1>2. Launch!Store(p, then, "read") /\ UNCHANGED <<game, theirs>>
  BY DEF Launch!Save
<1>3. then \in ProcRecord /\ then.pc = "reconcile"
  BY <1>1, ReconcilingIs
<1> HIDE DEF then
<1>4. s.fresh => Decided(s.draft, row, game)
  BY <1>1 DEF ProcOK
<1> QED BY <1>1, <1>2, <1>3, <1>4, StoreStep

LEMMA LinkKeeps ==
  ASSUME LaunchInv, NEW p \in Process, Launch!Link(p)
  PROVE  LaunchInv' /\ LinkStep
<1> DEFINE s == proc[p]
           then == Launch!Over(s)
<1>1. s \in ProcRecord /\ ProcOK(s, row, game, theirs, abandoned) /\ s.pc = "link"
  BY DEF LaunchInv, LaunchTypes, Launch!Link, Launch!Do
<1>2. Launch!Store(p, then, "reconcile") /\ UNCHANGED <<game, theirs>>
  BY DEF Launch!Link
<1>3. then \in ProcRecord /\ then.pc \in {"idle", "pick"}
  BY <1>1, OverIs
<1> HIDE DEF then
<1>4. s.fresh => Linking(s.draft, row, game, theirs, abandoned)
  BY <1>1 DEF ProcOK
<1> QED BY <1>1, <1>2, <1>3, <1>4, StoreStep

ToFind(s, r) == [s EXCEPT !.pc = "committed", !.draft = r, !.fresh = TRUE, !.probe = r.attempt, !.ambiguous = FALSE]

LEMMA ToFindIs ==
  ASSUME NEW s \in ProcRecord, NEW r \in Launch!Rows
  PROVE  LET t == ToFind(s, r)
         IN t \in ProcRecord /\ t.pc = "committed" /\ t.draft = r /\ t.fresh = TRUE /\ t.probe = r.attempt
<1>1. r.attempt \in Nat
  BY LaunchConstants DEF Launch!Rows
<1>2. ToFind(s, r) \in ProcRecord
  <2>1. PICK k \in Nat : k = r.attempt
    BY <1>1
  <2>2. ToFind(s, r) = [s EXCEPT !.pc = "committed", !.draft = r, !.fresh = TRUE, !.probe = k, !.ambiguous = FALSE]
    BY <2>1 DEF ToFind
  <2> QED BY <2>2 DEF ProcRecord, Launch!Steps
<1>3. ToFind(s, r).pc = "committed" /\ ToFind(s, r).draft = r
  BY DEF ToFind, ProcRecord
<1>4. ToFind(s, r).fresh = TRUE /\ ToFind(s, r).probe = r.attempt
  BY DEF ToFind, ProcRecord
<1> QED BY <1>2, <1>3, <1>4

LEMMA ReconcileKeeps ==
  ASSUME LaunchInv, NEW p \in Process, Launch!Reconcile(p)
  PROVE  LaunchInv' /\ LinkStep
<1> DEFINE s == proc[p]
<1>1. s \in ProcRecord /\ row \in Launch!Rows /\ row.attempt \in Nat
  BY LaunchConstants DEF LaunchInv, LaunchTypes, Launch!Rows
<1>2. UNCHANGED <<row, game, theirs, abandoned>>
  BY DEF Launch!Reconcile
<1>3. \/ proc' = [proc EXCEPT ![p] = Launch!Over(s)]
      \/ /\ row.result = NoGame /\ row.link = NoGame
         /\ proc' = [proc EXCEPT ![p] = ToFind(s, row)]
  BY DEF Launch!Reconcile, Launch!Goto, ToFind
<1> HIDE DEF s
<1>4. CASE proc' = [proc EXCEPT ![p] = Launch!Over(s)]
  BY <1>1, <1>2, <1>4, OverIs, RestStep
<1>5. CASE row.result = NoGame /\ row.link = NoGame /\ proc' = [proc EXCEPT ![p] = ToFind(s, row)]
  <2> DEFINE t == ToFind(s, row)
  <2>1. t \in ProcRecord /\ t.pc = "committed" /\ t.draft = row /\ t.probe = row.attempt
    BY <1>1, ToFindIs
  <2>2. proc' = [proc EXCEPT ![p] = t]
    BY <1>5
  <2> HIDE DEF t
  <2>3. ProcOK(t, row, game, theirs, abandoned)
    BY <1>1, <1>5, <2>1 DEF ProcOK
  <2> QED BY <1>2, <2>1, <2>2, <2>3, AloneStep
<1> QED BY <1>3, <1>4, <1>5

LEMMA LinkedIs ==
  ASSUME NEW s \in ProcRecord, NEW g \in Launch!Slot
  PROVE  LET t == Launch!Linked(s, g)
         IN /\ t \in ProcRecord /\ t.pc = "link" /\ t.fresh = s.fresh
            /\ t.draft \in Launch!Rows /\ t.draft.link = g
            /\ t.draft.attempt = IF g.n > s.draft.attempt THEN g.n ELSE s.draft.attempt
            /\ t.draft.result = s.draft.result /\ t.draft.forfeit = s.draft.forfeit
            /\ t.draft.unconfirmed = s.draft.unconfirmed
<1> DEFINE t == Launch!Linked(s, g)
<1>1. PICK k : k = IF g.n > s.draft.attempt THEN g.n ELSE s.draft.attempt
  OBVIOUS
<1>2. s.draft \in Launch!Rows /\ s.draft.attempt \in 0..MaxSlot + 1 /\ g.n \in 0..MaxSlot /\ MaxSlot \in Nat
  BY SlotIs, LaunchConstants DEF ProcRecord, Launch!Rows
<1>3. k \in 0..MaxSlot + 1
  BY <1>1, <1>2
<1> DEFINE d == [s.draft EXCEPT !.link = g, !.attempt = k]
<1>4. d \in Launch!Rows
  BY <1>2, <1>3 DEF Launch!Rows
<1>5. d.link = g /\ d.attempt = k
  BY <1>2 DEF Launch!Rows
<1>6. d.result = s.draft.result /\ d.forfeit = s.draft.forfeit /\ d.unconfirmed = s.draft.unconfirmed
  BY <1>2 DEF Launch!Rows
<1>7. t = [s EXCEPT !.pc = "link", !.draft = d]
  BY <1>1, <1>2 DEF Launch!Linked, ProcRecord, Launch!Rows
<1> HIDE DEF d, t
<1>8. t \in ProcRecord
  BY <1>4, <1>7 DEF ProcRecord, Launch!Steps
<1>9. t.pc = "link" /\ t.fresh = s.fresh /\ t.draft = d
  BY <1>7 DEF ProcRecord
<1> QED BY <1>1, <1>4, <1>5, <1>6, <1>8, <1>9 DEF t

\* A launch that links the game g, seen when the games are gm.
LEMMA LinkedOK ==
  ASSUME NEW s \in ProcRecord, NEW g \in Launch!Slot, NEW r \in Launch!Rows, NEW gm \in Games,
         NEW th \in SUBSET Launch!Slot, NEW ab \in SUBSET Launch!Slot, World(r, gm, th, ab),
         s.fresh => s.draft = r /\ r.link = NoGame /\ r.result = NoGame,
         s.fresh => g \notin th \cup ab,
         gm[g] # "none", s.draft.attempt <= g.n, g.space = "committed" => g.n = s.draft.attempt
  PROVE  Launch!Linked(s, g) \in ProcRecord /\ ProcOK(Launch!Linked(s, g), r, gm, th, ab)
<1> DEFINE t == Launch!Linked(s, g)
<1>1. /\ t \in ProcRecord /\ t.pc = "link" /\ t.fresh = s.fresh
      /\ t.draft \in Launch!Rows /\ t.draft.link = g
      /\ t.draft.attempt = IF g.n > s.draft.attempt THEN g.n ELSE s.draft.attempt
      /\ t.draft.result = s.draft.result /\ t.draft.forfeit = s.draft.forfeit
      /\ t.draft.unconfirmed = s.draft.unconfirmed
  BY LinkedIs
<1> HIDE DEF t
<1>2. /\ g.n \in Nat /\ s.draft.attempt \in Nat /\ g # NoGame
  BY SlotIs, LaunchConstants DEF ProcRecord, Launch!Rows
<1>3. t.draft.attempt = g.n
  BY <1>1, <1>2
<1>4. ASSUME s.fresh
      PROVE  Linking(t.draft, r, gm, th, ab)
  <2>1. s.draft = r /\ r.link = NoGame /\ r.result = NoGame
    BY <1>4
  <2>2. r.forfeit = NoGame /\ ~r.unconfirmed
    <3>1. r.forfeit # NoGame => r.forfeit \in Launch!Side
      BY DEF Launch!Rows
    <3> QED BY <2>1, <3>1, SidesAre DEF World, RowGood
  <2>3. RowGood(t.draft, gm)
    BY <1>1, <2>1, <2>2 DEF RowGood
  <2>4. g \notin th \cup ab
    BY <1>4
  <2> QED BY <1>1, <1>2, <1>3, <2>1, <2>3, <2>4 DEF Linking
<1>5. ProcOK(t, r, gm, th, ab)
  BY <1>1, <1>4 DEF ProcOK
<1> QED BY <1>1, <1>5 DEF t

AtPc(s, pc) == [s EXCEPT !.pc = pc]

LEMMA AtPcIs ==
  ASSUME NEW s \in ProcRecord, NEW pc \in {"legacy", "create"}
  PROVE  LET t == AtPc(s, pc)
         IN /\ t \in ProcRecord /\ t.pc = pc /\ t.draft = s.draft /\ t.fresh = s.fresh
            /\ t.probe = s.probe /\ t.ambiguous = s.ambiguous
<1>1. AtPc(s, pc) \in ProcRecord
  BY DEF AtPc, ProcRecord, Launch!Steps
<1>2. AtPc(s, pc).pc = pc /\ AtPc(s, pc).draft = s.draft /\ AtPc(s, pc).fresh = s.fresh
  BY DEF AtPc, ProcRecord
<1>3. AtPc(s, pc).probe = s.probe /\ AtPc(s, pc).ambiguous = s.ambiguous
  BY DEF AtPc, ProcRecord
<1> QED BY <1>1, <1>2, <1>3

\* The committed slot at an attempt is not one the pairing has abandoned.
LEMMA CommittedSlot ==
  ASSUME LaunchInv, NEW s \in ProcRecord, ProcOK(s, row, game, theirs, abandoned),
         s.pc \in {"committed", "legacy", "create"}, s.draft.attempt <= MaxSlot
  PROVE  LET g == Launch!At("committed", s.draft.attempt)
         IN /\ g \in Launch!Slot /\ g.space = "committed" /\ g.n = s.draft.attempt
            /\ s.fresh => g \notin theirs \cup abandoned
<1> DEFINE g == Launch!At("committed", s.draft.attempt)
<1>1. s.draft.attempt \in Nat /\ MaxSlot \in Nat
  BY LaunchConstants DEF ProcRecord, Launch!Rows
<1>2. g \in Launch!Slot /\ g.space = "committed" /\ g.n = s.draft.attempt
  BY <1>1, SlotIs
<1> HIDE DEF g
<1>3. ASSUME s.fresh
      PROVE  g \notin theirs \cup abandoned
  <2>1. s.draft = row
    BY <1>3 DEF ProcOK
  <2>2. g \notin theirs
    BY <1>2 DEF LaunchInv, World, Slots
  <2>3. g \notin abandoned
    BY <1>1, <1>2, <2>1 DEF LaunchInv, World, Abandonment
  <2> QED BY <2>2, <2>3
<1> QED BY <1>2, <1>3 DEF g

LEMMA FindCommittedKeeps ==
  ASSUME LaunchInv, NEW p \in Process, Launch!FindCommitted(p)
  PROVE  LaunchInv' /\ LinkStep
<1> DEFINE s == proc[p]
           g == Launch!At("committed", s.draft.attempt)
<1>1. s \in ProcRecord /\ ProcOK(s, row, game, theirs, abandoned) /\ s.pc = "committed" /\ s.draft.attempt <= MaxSlot
  BY DEF LaunchInv, LaunchTypes, Launch!FindCommitted, Launch!Do
<1>2. UNCHANGED <<row, game, theirs, abandoned>>
  BY DEF Launch!FindCommitted, Launch!Wait
<1>3. \/ game[g] # "none" /\ proc' = [proc EXCEPT ![p] = Launch!Linked(s, g)]
      \/ proc' = [proc EXCEPT ![p] = AtPc(s, "legacy")]
  BY DEF Launch!FindCommitted, Launch!Goto, AtPc
<1>4. /\ g \in Launch!Slot /\ g.space = "committed" /\ g.n = s.draft.attempt
      /\ s.fresh => g \notin theirs \cup abandoned
  BY <1>1, CommittedSlot
<1> HIDE DEF s, g
<1>5. s.fresh => s.draft = row /\ row.link = NoGame /\ row.result = NoGame
  BY <1>1 DEF ProcOK
<1>6. s.draft.attempt \in Nat
  BY <1>1, LaunchConstants DEF ProcRecord, Launch!Rows
<1>7. /\ row \in Launch!Rows /\ game \in Games /\ theirs \in SUBSET Launch!Slot
      /\ abandoned \in SUBSET Launch!Slot /\ World(row, game, theirs, abandoned)
  BY DEF LaunchInv, LaunchTypes
<1>8. CASE game[g] # "none" /\ proc' = [proc EXCEPT ![p] = Launch!Linked(s, g)]
  <2> DEFINE t == Launch!Linked(s, g)
  <2>1. s.draft.attempt <= g.n /\ (g.space = "committed" => g.n = s.draft.attempt)
    BY <1>4, <1>6
  <2>2. t \in ProcRecord /\ ProcOK(t, row, game, theirs, abandoned)
    BY <1>1, <1>4, <1>5, <1>7, <1>8, <2>1, LinkedOK
  <2>3. proc' = [proc EXCEPT ![p] = t]
    BY <1>8
  <2> HIDE DEF t
  <2> QED BY <1>2, <2>2, <2>3, AloneStep
<1>9. CASE proc' = [proc EXCEPT ![p] = AtPc(s, "legacy")]
  <2> DEFINE t == AtPc(s, "legacy")
  <2>1. /\ t \in ProcRecord /\ t.pc = "legacy" /\ t.draft = s.draft /\ t.fresh = s.fresh
        /\ t.probe = s.probe /\ t.ambiguous = s.ambiguous
    BY <1>1, AtPcIs
  <2>2. proc' = [proc EXCEPT ![p] = t]
    BY <1>9
  <2> HIDE DEF t
  <2>3. s.probe = s.draft.attempt /\ s.draft.attempt <= row.attempt
    BY <1>1 DEF ProcOK
  <2>4. \A h \in Earlier(game, theirs) : ~(s.draft.attempt <= h.n /\ h.n < s.probe)
    <3>1. \A h \in Earlier(game, theirs) : h.n \in Nat
      BY SlotIs DEF Earlier
    <3> QED BY <1>6, <2>3, <3>1
  <2>5. ProcOK(t, row, game, theirs, abandoned)
    BY <1>1, <1>5, <1>6, <2>1, <2>3, <2>4 DEF ProcOK
  <2> QED BY <1>2, <2>1, <2>2, <2>5, AloneStep
<1> QED BY <1>3, <1>8, <1>9

Probed(s) == [s EXCEPT !.probe = @ + 1]
Unsure(s) == [[s EXCEPT !.probe = @ + 1] EXCEPT !.ambiguous = TRUE]

LEMMA ProbedIs ==
  ASSUME NEW s \in ProcRecord
  PROVE  LET t == Probed(s)
         IN /\ t \in ProcRecord /\ t.pc = s.pc /\ t.draft = s.draft /\ t.fresh = s.fresh
            /\ t.probe = s.probe + 1 /\ t.ambiguous = s.ambiguous
<1>1. PICK k \in Nat : k = s.probe + 1
  BY DEF ProcRecord
<1>2. Probed(s) = [s EXCEPT !.probe = k]
  BY <1>1 DEF Probed
<1>3. Probed(s) \in ProcRecord
  BY <1>2 DEF ProcRecord
<1>4. Probed(s).pc = s.pc /\ Probed(s).draft = s.draft /\ Probed(s).fresh = s.fresh
  BY <1>2 DEF ProcRecord
<1>5. Probed(s).probe = k /\ Probed(s).ambiguous = s.ambiguous
  BY <1>2 DEF ProcRecord
<1> QED BY <1>1, <1>3, <1>4, <1>5

LEMMA UnsureIs ==
  ASSUME NEW s \in ProcRecord
  PROVE  LET t == Unsure(s)
         IN /\ t \in ProcRecord /\ t.pc = s.pc /\ t.draft = s.draft /\ t.fresh = s.fresh
            /\ t.probe = s.probe + 1 /\ t.ambiguous = TRUE
<1> DEFINE u == Probed(s)
<1>1. /\ u \in ProcRecord /\ u.pc = s.pc /\ u.draft = s.draft /\ u.fresh = s.fresh /\ u.probe = s.probe + 1
  BY ProbedIs
<1>2. Unsure(s) = [u EXCEPT !.ambiguous = TRUE]
  BY DEF Unsure, Probed
<1> HIDE DEF u
<1>3. Unsure(s) \in ProcRecord
  BY <1>1, <1>2 DEF ProcRecord
<1>4. Unsure(s).pc = u.pc /\ Unsure(s).draft = u.draft /\ Unsure(s).fresh = u.fresh
  BY <1>1, <1>2 DEF ProcRecord
<1>5. Unsure(s).probe = u.probe /\ Unsure(s).ambiguous = TRUE
  BY <1>1, <1>2 DEF ProcRecord
<1> QED BY <1>1, <1>3, <1>4, <1>5

\* A probe that reaches an empty slot has passed every older game.
LEMMA NothingOlder ==
  ASSUME LaunchInv, NEW s \in ProcRecord, ProcOK(s, row, game, theirs, abandoned), s.pc = "legacy",
         ~s.ambiguous, s.probe > MaxSlot \/ game[Launch!At("legacy", s.probe)] = "none"
  PROVE  NoneLeft(s.draft.attempt, game, theirs)
<1>1. s.draft.attempt \in Nat /\ s.probe \in Nat /\ MaxSlot \in Nat
  BY LaunchConstants DEF ProcRecord, Launch!Rows
<1> SUFFICES ASSUME NEW h \in Earlier(game, theirs), ~(h.n < s.draft.attempt)
             PROVE  FALSE
  BY DEF NoneLeft
<1>2. /\ h \in Launch!Slot /\ h.space = "legacy" /\ game[h] # "none" /\ h.n \in 0..MaxSlot
      /\ h = Launch!At("legacy", h.n)
  BY SlotIs DEF Earlier
<1>3. s.draft.attempt <= h.n
  BY <1>1, <1>2
<1>4. ~(h.n < s.probe)
  BY <1>3 DEF ProcOK
<1>5. s.probe \in 0..MaxSlot
  BY <1>1, <1>2, <1>4
<1> DEFINE g == Launch!At("legacy", s.probe)
<1>6. g \in Launch!Slot /\ g.space = "legacy" /\ g.n = s.probe /\ game[g] = "none"
  BY <1>1, <1>5, SlotIs
<1> HIDE DEF g
<1>7. h.n # s.probe
  BY <1>2, <1>6 DEF g
<1>8. g.n < h.n
  BY <1>1, <1>2, <1>4, <1>6, <1>7
<1>9. game[g] # "none"
  BY <1>2, <1>6, <1>8 DEF LaunchInv, World, Slots
<1> QED BY <1>6, <1>9

LEMMA FindLegacyKeeps ==
  ASSUME LaunchInv, NEW p \in Process, Launch!FindLegacy(p)
  PROVE  LaunchInv' /\ LinkStep
<1> DEFINE s == proc[p]
           g == Launch!At("legacy", s.probe)
<1>1. s \in ProcRecord /\ ProcOK(s, row, game, theirs, abandoned) /\ s.pc = "legacy"
  BY DEF LaunchInv, LaunchTypes, Launch!FindLegacy, Launch!Do
<1>2. UNCHANGED <<row, theirs, abandoned>>
  BY DEF Launch!FindLegacy
<1>3. /\ row \in Launch!Rows /\ game \in Games /\ theirs \in SUBSET Launch!Slot
      /\ abandoned \in SUBSET Launch!Slot /\ World(row, game, theirs, abandoned)
  BY DEF LaunchInv, LaunchTypes
<1>4. s.draft.attempt \in Nat /\ s.probe \in Nat /\ MaxSlot \in Nat /\ row.attempt \in Nat
  BY <1>1, <1>3, LaunchConstants DEF ProcRecord, Launch!Rows
<1>5. /\ s.draft.attempt <= row.attempt /\ s.draft.attempt <= MaxSlot /\ s.draft.attempt <= s.probe
      /\ s.fresh => s.draft = row /\ row.link = NoGame /\ row.result = NoGame
      /\ \A h \in Earlier(game, theirs) : s.draft.attempt <= h.n /\ h.n < s.probe => s.ambiguous
  BY <1>1 DEF ProcOK
<1>6. \A h \in Earlier(game, theirs) : h.n \in Nat /\ h = Launch!At("legacy", h.n) /\ h \notin theirs
  BY SlotIs DEF Earlier
<1>7. CASE /\ s.probe > MaxSlot \/ game[g] = "none"
           /\ proc' = [proc EXCEPT ![p] = IF s.ambiguous THEN Launch!Over(s) ELSE AtPc(s, "create")]
           /\ UNCHANGED game
  <2>1. CASE s.ambiguous
    BY <1>1, <1>2, <1>7, <2>1, OverIs, RestStep
  <2>2. CASE ~s.ambiguous
    <3> DEFINE t == AtPc(s, "create")
    <3>1. /\ t \in ProcRecord /\ t.pc = "create" /\ t.draft = s.draft /\ t.fresh = s.fresh
          /\ t.probe = s.probe /\ t.ambiguous = s.ambiguous
      BY <1>1, AtPcIs
    <3>2. proc' = [proc EXCEPT ![p] = t]
      BY <1>7, <2>2
    <3>3. NoneLeft(s.draft.attempt, game, theirs)
      BY <1>1, <1>7, <2>2, NothingOlder
    <3> HIDE DEF t
    <3>4. ProcOK(t, row, game, theirs, abandoned)
      BY <1>5, <3>1, <3>3 DEF ProcOK
    <3> QED BY <1>2, <1>7, <3>1, <3>2, <3>4, AloneStep
  <2> QED BY <2>1, <2>2
<1>8. CASE /\ ~(s.probe > MaxSlot) /\ game[g] # "none" /\ g \notin theirs
           /\ proc' = [proc EXCEPT ![p] = IF Launch!Recoverable(s, g) THEN Launch!Linked(s, g) ELSE Unsure(s)]
           /\ UNCHANGED game
  <2>0. g \in Launch!Slot /\ g.space = "legacy" /\ g.n = s.probe
    BY <1>4, <1>8, SlotIs
  <2>1. CASE Launch!Recoverable(s, g)
    <3> DEFINE t == Launch!Linked(s, g)
    <3>1. proc' = [proc EXCEPT ![p] = t]
      BY <1>8, <2>1
    <3>2. s.draft.attempt <= g.n /\ (g.space = "committed" => g.n = s.draft.attempt) /\ game[g] # "none"
      BY <1>5, <1>8, <2>0
    <3>3. ASSUME s.fresh
          PROVE  g \notin theirs \cup abandoned
      <4>1. CASE game[g] \notin Launch!Ended
        <5>1. g \notin abandoned
          BY <1>3, <4>1 DEF World, Abandonment, Launch!Ended
        <5> QED BY <1>8, <5>1
      <4>2. CASE s.draft.attempt = 0
        <5>1. abandoned = {}
          BY <1>3, <1>5, <3>3, <4>2 DEF World, Abandonment
        <5> QED BY <1>8, <5>1
      <4> QED BY <2>1, <4>1, <4>2 DEF Launch!Recoverable, Launch!IsEnded
    <3> HIDE DEF s, g
    <3>4. t \in ProcRecord /\ ProcOK(t, row, game, theirs, abandoned)
      BY <1>1, <1>3, <1>5, <2>0, <3>2, <3>3, LinkedOK
    <3> HIDE DEF t
    <3> QED BY <1>2, <1>8, <3>1, <3>4, AloneStep
  <2>2. CASE ~Launch!Recoverable(s, g)
    <3> DEFINE t == Unsure(s)
    <3>1. proc' = [proc EXCEPT ![p] = t]
      BY <1>8, <2>2
    <3>2. /\ t \in ProcRecord /\ t.pc = s.pc /\ t.draft = s.draft /\ t.fresh = s.fresh
          /\ t.probe = s.probe + 1 /\ t.ambiguous = TRUE
      BY <1>1, UnsureIs
    <3> HIDE DEF t
    <3>3. s.draft.attempt <= s.probe + 1
      BY <1>4, <1>5
    <3>4. ProcOK(t, row, game, theirs, abandoned)
      BY <1>1, <1>5, <3>2, <3>3 DEF ProcOK
    <3> QED BY <1>2, <1>8, <3>1, <3>2, <3>4, AloneStep
  <2> QED BY <2>1, <2>2
<1>9. CASE /\ ~(s.probe > MaxSlot) /\ game[g] # "none" /\ g \in theirs
           /\ proc' = [proc EXCEPT ![p] = IF game[g] = "played" THEN Launch!Over(s) ELSE Probed(s)]
           /\ game' = IF game[g] = "live" THEN [game EXCEPT ![g] = "aborted"] ELSE game
  <2>1. g \in Launch!Slot /\ g.n = s.probe /\ "aborted" \in Launch!Ended
    BY <1>4, <1>9, SlotIs DEF Launch!Ended
  <2>2. game' \in Games
    BY <1>3, <1>9, <2>1 DEF Games
  <2>3. GoesOn(game, game', row, theirs)
    BY <1>3, <1>9, <2>1 DEF GoesOn, Games
  <2>4. CASE game[g] = "played"
    <3>1. proc' = [proc EXCEPT ![p] = Launch!Over(s)] /\ game' = game
      BY <1>9, <2>4
    <3> QED BY <1>1, <1>2, <3>1, OverIs, RestStep
  <2>5. CASE game[g] # "played"
    <3> DEFINE t == Probed(s)
    <3>1. proc' = [proc EXCEPT ![p] = t]
      BY <1>9, <2>5
    <3>2. /\ t \in ProcRecord /\ t.pc = s.pc /\ t.draft = s.draft /\ t.fresh = s.fresh
          /\ t.probe = s.probe + 1 /\ t.ambiguous = s.ambiguous
      BY <1>1, ProbedIs
    <3> HIDE DEF t
    <3>3. s.draft.attempt <= s.probe + 1
      BY <1>4, <1>5
    <3>4. ASSUME NEW h \in Earlier(game, theirs), s.draft.attempt <= h.n, h.n < s.probe + 1
          PROVE  s.ambiguous
      <4>1. h.n # s.probe
        BY <1>6, <1>9, <3>4
      <4>2. h.n < s.probe
        BY <1>4, <1>6, <3>4, <4>1
      <4> QED BY <1>5, <3>4, <4>2
    <3>5. ProcOK(t, row, game, theirs, abandoned)
      BY <1>1, <1>5, <3>2, <3>3, <3>4 DEF ProcOK
    <3>6. ProcOK(t, row, game', theirs, abandoned)
      BY <1>3, <2>2, <2>3, <3>2, <3>5, ProcGoesOn
    <3>7. LaunchInv'
      BY <1>2, <2>2, <2>3, <3>1, <3>2, <3>6, ProcStep
    <3> QED BY <1>2, <3>7 DEF LinkStep
  <2> QED BY <2>4, <2>5
<1>10. \/ s.probe > MaxSlot \/ game[g] = "none"
       \/ ~(s.probe > MaxSlot) /\ game[g] # "none" /\ g \notin theirs
       \/ ~(s.probe > MaxSlot) /\ game[g] # "none" /\ g \in theirs
  OBVIOUS
<1> QED BY <1>7, <1>8, <1>9, <1>10 DEF Launch!FindLegacy, Launch!Goto, AtPc, Unsure, Probed

\* The game at an attempt that nothing older is left from can be created.
LEMMA CreateGoesOn ==
  ASSUME LaunchInv, NEW s \in ProcRecord, ProcOK(s, row, game, theirs, abandoned), s.pc = "create",
         NEW gm,
         gm = IF game[Launch!At("committed", s.draft.attempt)] = "none"
              THEN [game EXCEPT ![Launch!At("committed", s.draft.attempt)] = "live"] ELSE game
  PROVE  /\ gm \in Games /\ GoesOn(game, gm, row, theirs)
         /\ gm[Launch!At("committed", s.draft.attempt)] # "none"
<1> DEFINE g == Launch!At("committed", s.draft.attempt)
<1>1. game \in Games
  BY DEF LaunchInv, LaunchTypes
<1>2. s.draft.attempt <= row.attempt /\ s.draft.attempt <= MaxSlot /\ NoneLeft(s.draft.attempt, game, theirs)
  BY DEF ProcOK
<1>3. g \in Launch!Slot /\ g.space = "committed" /\ g.n = s.draft.attempt
  BY <1>2, CommittedSlot
<1>4. gm = IF game[g] = "none" THEN [game EXCEPT ![g] = "live"] ELSE game
  OBVIOUS
<1> HIDE DEF g
<1>5. gm \in Games
  BY <1>1, <1>3, <1>4 DEF Games
<1>6. GoesOn(game, gm, row, theirs)
  BY <1>1, <1>2, <1>3, <1>4 DEF GoesOn, Games
<1>7. gm[g] # "none"
  BY <1>1, <1>3, <1>4 DEF Games
<1> QED BY <1>5, <1>6, <1>7 DEF g

LEMMA CreateKeeps ==
  ASSUME LaunchInv, NEW p \in Process, Launch!Create(p)
  PROVE  LaunchInv' /\ LinkStep
<1> DEFINE s == proc[p]
           g == Launch!At("committed", s.draft.attempt)
           t == Launch!Linked(s, g)
<1>1. s \in ProcRecord /\ ProcOK(s, row, game, theirs, abandoned) /\ s.pc = "create"
  BY DEF LaunchInv, LaunchTypes, Launch!Create, Launch!Do
<1>2. /\ UNCHANGED <<row, theirs, abandoned>> /\ proc' = [proc EXCEPT ![p] = t]
      /\ game' = IF game[g] = "none" THEN [game EXCEPT ![g] = "live"] ELSE game
  BY DEF Launch!Create, Launch!Goto
<1>3. /\ row \in Launch!Rows /\ game \in Games /\ theirs \in SUBSET Launch!Slot
      /\ abandoned \in SUBSET Launch!Slot /\ World(row, game, theirs, abandoned)
  BY DEF LaunchInv, LaunchTypes
<1>4. game' \in Games /\ GoesOn(game, game', row, theirs) /\ game'[g] # "none"
  BY <1>1, <1>2, CreateGoesOn
<1>5. s.draft.attempt <= MaxSlot /\ (s.fresh => s.draft = row /\ row.link = NoGame /\ row.result = NoGame)
  BY <1>1 DEF ProcOK
<1>6. /\ g \in Launch!Slot /\ g.space = "committed" /\ g.n = s.draft.attempt
      /\ s.fresh => g \notin theirs \cup abandoned
  BY <1>1, <1>5, CommittedSlot
<1>7. s.draft.attempt <= g.n
  <2>1. s.draft.attempt \in Nat
    BY <1>1, LaunchConstants DEF ProcRecord, Launch!Rows
  <2> QED BY <1>6, <2>1
<1>8. World(row, game', theirs, abandoned)
  BY <1>3, <1>4, WorldGoesOn
<1> HIDE DEF s, g
<1>9. t \in ProcRecord /\ ProcOK(t, row, game', theirs, abandoned)
  BY <1>1, <1>3, <1>4, <1>5, <1>6, <1>7, <1>8, LinkedOK
<1> HIDE DEF t
<1>10. LaunchInv'
  BY <1>2, <1>4, <1>9, ProcStep
<1> QED BY <1>2, <1>10 DEF LinkStep

LEMMA CreateFailsKeeps ==
  ASSUME LaunchInv, NEW p \in Process, Launch!CreateFails(p)
  PROVE  LaunchInv' /\ LinkStep
<1> DEFINE s == proc[p]
           g == Launch!At("committed", s.draft.attempt)
           t == Launch!Over(s)
<1>1. s \in ProcRecord /\ ProcOK(s, row, game, theirs, abandoned) /\ s.pc = "create"
  BY DEF LaunchInv, LaunchTypes, Launch!CreateFails, Launch!Do
<1>2. /\ UNCHANGED <<row, theirs, abandoned>> /\ proc' = [proc EXCEPT ![p] = t]
      /\ game' = game \/ game' = IF game[g] = "none" THEN [game EXCEPT ![g] = "live"] ELSE game
  BY DEF Launch!CreateFails, Launch!Goto
<1>3. game \in Games
  BY DEF LaunchInv, LaunchTypes
<1>4. game' \in Games /\ GoesOn(game, game', row, theirs)
  <2>1. CASE game' = game
    BY <1>3, <2>1, NothingGoesOn
  <2>2. CASE game' = IF game[g] = "none" THEN [game EXCEPT ![g] = "live"] ELSE game
    BY <1>1, <2>2, CreateGoesOn
  <2> QED BY <1>2, <2>1, <2>2
<1>5. t \in ProcRecord /\ ProcOK(t, row, game', theirs, abandoned)
  BY <1>1, OverIs, Resting
<1> HIDE DEF t
<1>6. LaunchInv'
  BY <1>2, <1>4, <1>5, ProcStep
<1> QED BY <1>2, <1>6 DEF LinkStep

-----------------------------------------------------------------------------
(* The reporter, the games and failures. *)

Looking(g) == [Launch!Idle EXCEPT !.pc = "look", !.game = g]

LEMMA LookingStep ==
  ASSUME LaunchInv, NEW p \in Process, row.link # NoGame,
         proc' = [proc EXCEPT ![p] = Looking(row.link)], UNCHANGED <<row, game, theirs, abandoned>>
  PROVE  LaunchInv' /\ LinkStep
<1>1. row.link \in Launch!Slot
  BY DEF LaunchInv, LaunchTypes, Launch!Rows
<1> DEFINE t == Looking(row.link)
<1>2. t \in ProcRecord
  BY <1>1, IdleIs DEF Looking, ProcRecord, Launch!Steps
<1>3. t.pc = "look" /\ t.game = row.link
  BY <1>1, IdleIs DEF Looking, ProcRecord
<1>4. proc' = [proc EXCEPT ![p] = t]
  OBVIOUS
<1> HIDE DEF t
<1>5. ProcOK(t, row, game, theirs, abandoned)
  BY <1>1, <1>3 DEF ProcOK
<1> QED BY <1>2, <1>4, <1>5, AloneStep

LEMMA ScanKeeps ==
  ASSUME LaunchInv, NEW p \in Process, Launch!Scan(p)
  PROVE  LaunchInv' /\ LinkStep
<1> DEFINE s == [Launch!Idle EXCEPT !.op = "scan"]
<1>1. s \in ProcRecord
  BY IdleIs DEF ProcRecord, Operation
<1>2. proc' = [proc EXCEPT ![p] = Launch!Reconciling(s)] /\ UNCHANGED <<row, game, theirs, abandoned>>
  BY DEF Launch!Scan, Launch!Goto, Launch!Wait
<1> HIDE DEF s
<1> QED BY <1>1, <1>2, ReconcilingIs, RestStep

LEMMA PickKeeps ==
  ASSUME LaunchInv, NEW p \in Process, Launch!Pick(p)
  PROVE  LaunchInv' /\ LinkStep
<1>1. UNCHANGED <<row, game, theirs, abandoned>>
  BY DEF Launch!Pick
<1>2. \/ proc' = [proc EXCEPT ![p] = Launch!Idle]
      \/ row.link # NoGame /\ proc' = [proc EXCEPT ![p] = Looking(row.link)]
  BY DEF Launch!Pick, Launch!Goto, Looking
<1>3. CASE proc' = [proc EXCEPT ![p] = Launch!Idle]
  BY <1>1, <1>3, IdleIs, RestStep
<1>4. CASE row.link # NoGame /\ proc' = [proc EXCEPT ![p] = Looking(row.link)]
  BY <1>1, <1>4, LookingStep
<1> QED BY <1>2, <1>3, <1>4

LEMMA WakeKeeps ==
  ASSUME LaunchInv, NEW p \in Process, Launch!Wake(p)
  PROVE  LaunchInv' /\ LinkStep
<1>1. /\ row.link # NoGame /\ proc' = [proc EXCEPT ![p] = Looking(row.link)]
      /\ UNCHANGED <<row, game, theirs, abandoned>>
  BY DEF Launch!Wake, Launch!Goto, Launch!Wait, Looking
<1> QED BY <1>1, LookingStep

ToRead(s, result) == [s EXCEPT !.pc = "read", !.op = "outcome", !.arg = result, !.tries = 1]

LEMMA ToReadIs ==
  ASSUME NEW s \in ProcRecord, NEW result \in Launch!Ended
  PROVE  LET t == ToRead(s, result)
         IN t \in ProcRecord /\ t.pc = "read" /\ t.op = "outcome" /\ t.arg = result /\ t.game = s.game
<1>1. ToRead(s, result) \in ProcRecord
  BY DEF ToRead, ProcRecord, Launch!Steps, Operation
<1>2. ToRead(s, result).pc = "read" /\ ToRead(s, result).op = "outcome"
  BY DEF ToRead, ProcRecord
<1>3. ToRead(s, result).arg = result /\ ToRead(s, result).game = s.game
  BY DEF ToRead, ProcRecord
<1> QED BY <1>1, <1>2, <1>3

LEMMA LookKeeps ==
  ASSUME LaunchInv, NEW p \in Process, Launch!Look(p)
  PROVE  LaunchInv' /\ LinkStep
<1> DEFINE s == proc[p]
           g == s.game
<1>1. s \in ProcRecord /\ ProcOK(s, row, game, theirs, abandoned) /\ s.pc = "look"
  BY DEF LaunchInv, LaunchTypes, Launch!Look, Launch!Do
<1>2. UNCHANGED <<row, game, theirs, abandoned>>
  BY DEF Launch!Look, Launch!Wait
<1>3. g \in Launch!Slot
  BY <1>1 DEF ProcOK
<1>4. \/ proc' = [proc EXCEPT ![p] = Launch!Idle]
      \/ game[g] \in Launch!Ended /\ proc' = [proc EXCEPT ![p] = ToRead(s, game[g])]
  BY DEF Launch!Look, Launch!Goto, ToRead, Launch!IsEnded
<1>5. CASE proc' = [proc EXCEPT ![p] = Launch!Idle]
  BY <1>2, <1>5, IdleIs, RestStep
<1>6. CASE game[g] \in Launch!Ended /\ proc' = [proc EXCEPT ![p] = ToRead(s, game[g])]
  <2> DEFINE t == ToRead(s, game[g])
  <2>1. t \in ProcRecord /\ t.pc = "read" /\ t.op = "outcome" /\ t.arg = game[g] /\ t.game = g
    BY <1>1, <1>6, ToReadIs
  <2>2. proc' = [proc EXCEPT ![p] = t]
    BY <1>6
  <2> HIDE DEF t, s
  <2>3. ProcOK(t, row, game, theirs, abandoned)
    BY <1>3, <1>6, <2>1 DEF ProcOK
  <2> QED BY <1>2, <2>1, <2>2, <2>3, AloneStep
<1> QED BY <1>4, <1>5, <1>6

LEMMA ProcessCrashKeeps ==
  ASSUME LaunchInv, NEW p \in Process, Launch!Crash(p)
  PROVE  LaunchInv' /\ LinkStep
<1>1. proc' = [proc EXCEPT ![p] = Launch!Idle] /\ UNCHANGED <<row, game, theirs, abandoned>>
  BY DEF Launch!Crash, Launch!Goto
<1> QED BY <1>1, IdleIs, RestStep

LEMMA PlayKeeps ==
  ASSUME LaunchInv, NEW g \in Launch!Slot, Launch!Play(g)
  PROVE  LaunchInv' /\ LinkStep
<1>1. UNCHANGED <<row, proc, theirs, abandoned>>
  BY DEF Launch!Play
<1>2. PICK to \in Launch!Ended \cup {"played"} :
        /\ game' = [game EXCEPT ![g] = to] /\ game[g] \in {"live", "played"}
        /\ to \in Launch!Ended \/ g.space = "legacy"
  BY DEF Launch!Play, Launch!Ended
<1>3. game \in Games
  BY DEF LaunchInv, LaunchTypes
<1>4. game' \in Games
  BY <1>2, <1>3 DEF Games
<1>5. GoesOn(game, game', row, theirs)
  BY <1>2, <1>3 DEF GoesOn, Games
<1> QED BY <1>1, <1>4, <1>5, GameStep DEF LinkStep

LEMMA FinishKeeps ==
  ASSUME LaunchInv, Launch!Finish
  PROVE  LaunchInv' /\ LinkStep
<1> DEFINE d == [row EXCEPT !.over = TRUE]
<1>1. /\ row' = d /\ UNCHANGED <<game, theirs, abandoned>>
      /\ proc' = [q \in Process |-> Outdates(proc[q])]
  BY DEF Launch!Finish, Launch!Outdated, Outdates
<1>2. row \in Launch!Rows /\ proc \in [Process -> ProcRecord]
  BY DEF LaunchInv, LaunchTypes
<1>3. d \in Launch!Rows
  BY <1>2 DEF Launch!Rows
<1>4. d.link = row.link /\ d.attempt = row.attempt /\ d.withdrawn = row.withdrawn
  BY <1>2 DEF Launch!Rows
<1>5. d.result = row.result /\ d.forfeit = row.forfeit /\ d.unconfirmed = row.unconfirmed
  BY <1>2 DEF Launch!Rows
<1> HIDE DEF d
<1>6. Decided(d, row, game)
  <2>1. RowGood(row, game)
    BY DEF LaunchInv, World
  <2>2. RowGood(d, game)
    BY <1>4, <1>5, <2>1 DEF RowGood
  <2> QED BY <1>4, <2>2 DEF Decided
<1>7. abandoned' = abandoned \cup Left(row, row')
  BY <1>1, <1>4 DEF Left
<1>8. \A q \in Process : ProcOK(proc[q], row, game, theirs, abandoned)
  BY DEF LaunchInv
<1>9. LaunchInv'
  BY <1>1, <1>2, <1>3, <1>6, <1>7, <1>8, RowStep
<1> QED BY <1>1, <1>4, <1>9 DEF LinkStep

LEMMA OtherSaveKeeps ==
  ASSUME LaunchInv, Launch!OtherSave
  PROVE  LaunchInv' /\ LinkStep
<1>1. /\ UNCHANGED <<row, game, theirs, abandoned>>
      /\ proc' = [q \in Process |-> Outdates(proc[q])]
  BY DEF Launch!OtherSave, Launch!Outdated, Outdates
<1>2. row \in Launch!Rows /\ proc \in [Process -> ProcRecord] /\ game \in Games
  BY DEF LaunchInv, LaunchTypes
<1>3. Decided(row, row, game)
  BY <1>2, SameRowDecided DEF LaunchInv, World
<1>4. abandoned' = abandoned \cup Left(row, row')
  BY <1>1 DEF Left
<1>5. \A q \in Process : ProcOK(proc[q], row, game, theirs, abandoned)
  BY DEF LaunchInv
<1>6. LaunchInv'
  BY <1>1, <1>2, <1>3, <1>4, <1>5, RowStep
<1> QED BY <1>1, <1>6 DEF LinkStep

LEMMA LaunchStep == LaunchInv /\ [Launch!Next]_(Launch!vars) => LaunchInv' /\ LinkStep
<1> SUFFICES ASSUME LaunchInv, [Launch!Next]_(Launch!vars)
             PROVE  LaunchInv' /\ LinkStep
  OBVIOUS
<1>1. ASSUME NEW p \in Process, Launch!Proceed(p)
      PROVE  LaunchInv' /\ LinkStep
  BY <1>1, ReadKeeps, SaveKeeps, ReconcileKeeps, FindCommittedKeeps, FindLegacyKeeps, CreateKeeps, LinkKeeps,
     PickKeeps, LookKeeps DEF Launch!Proceed
<1>2. ASSUME NEW p \in Process,
             \/ Launch!Order(p) \/ Launch!Scan(p) \/ Launch!Wake(p) \/ Launch!CreateFails(p) \/ Launch!Crash(p)
      PROVE  LaunchInv' /\ LinkStep
  BY <1>2, OrderKeeps, ScanKeeps, WakeKeeps, CreateFailsKeeps, ProcessCrashKeeps
<1>3. CASE UNCHANGED Launch!vars
  <2>1. UNCHANGED <<row, game, theirs, proc, abandoned>>
    BY <1>3 DEF Launch!vars
  <2>2. game' \in Games /\ GoesOn(game, game', row, theirs)
    BY <2>1, NothingGoesOn DEF LaunchInv, LaunchTypes
  <2> QED BY <2>1, <2>2, GameStep DEF LinkStep
<1>4. ASSUME NEW g \in Launch!Slot, Launch!Play(g)
      PROVE  LaunchInv' /\ LinkStep
  BY <1>4, PlayKeeps
<1> QED BY <1>1, <1>2, <1>3, <1>4, FinishKeeps, OtherSaveKeeps DEF Launch!Next

-----------------------------------------------------------------------------
(* How it starts, and what the invariant means. *)

\* Games of the older identity that lie before slot k are no more than k.
LEMMA OlderThan ==
  ASSUME NEW S \in SUBSET Launch!Slot, NEW k \in Nat, \A h \in S : h.space = "legacy" /\ h.n < k
  PROVE  IsFiniteSet(S) /\ Launch!Cardinality(S) \in Nat /\ Launch!Cardinality(S) <= k
<1> DEFINE f == [h \in S |-> h.n]
<1>1. \A h \in S : h.n \in Nat /\ h = Launch!At("legacy", h.n)
  BY SlotIs
<1>2. f \in [S -> 0..k - 1]
  BY <1>1
<1>3. \A g, h \in S : f[g] = f[h] => g = h
  <2>1. \A g, h \in S : g.n = h.n => g = h
    BY <1>1
  <2> QED BY <2>1
<1> HIDE DEF f
<1>4. f \in Injection(S, 0..k - 1)
  BY <1>2, <1>3 DEF Injection, IsInjective
<1>5. IsFiniteSet(0..k - 1) /\ Cardinality(0..k - 1) = k
  BY FS_Interval
<1>6. IsFiniteSet(S) /\ Cardinality(S) <= Cardinality(0..k - 1)
  BY <1>4, <1>5, FS_Injection
<1>7. Cardinality(S) \in Nat
  BY <1>6, FS_CardinalityType
<1>8. Launch!Cardinality(S) = Cardinality(S)
  BY DEF Launch!Cardinality, Cardinality
<1> QED BY <1>5, <1>6, <1>7, <1>8

LEMMA LaunchInit == Launch!Init => LaunchInv
<1> SUFFICES ASSUME Launch!Init
             PROVE  LaunchInv
  OBVIOUS
<1>1. PICK n \in Nat, was \in [0..MaxSlot -> {"live", "aborted", "white"}] :
        game = [g \in Launch!Slot |-> IF g.space = "legacy" /\ g.n < n THEN was[g.n] ELSE "none"]
  <2>1. 0..(IF Legacy THEN MaxSlot + 1 ELSE 0) \subseteq Nat
    BY LaunchConstants
  <2> QED BY <2>1 DEF Launch!Init
<1>2. /\ theirs \in SUBSET {g \in Launch!Slot : game[g] # "none"}
      /\ \A g \in Launch!InPlay : \A h \in Launch!Slot \ theirs : game[h] # "none" => h.n <= g.n
      /\ abandoned \in SUBSET {g \in Launch!Slot \ theirs : game[g] = "aborted"}
  BY DEF Launch!Init
<1>3. row = [Launch!NewRow EXCEPT !.attempt = Launch!Cardinality(abandoned)]
  BY DEF Launch!Init
<1>4. proc = [p \in Process |-> Launch!Idle]
  BY DEF Launch!Init
<1>5. MaxSlot \in Nat /\ \A g \in Launch!Slot : g.n \in 0..MaxSlot /\ g.n \in Nat
  BY LaunchConstants, SlotIs
<1>6. \A g \in Launch!Slot : game[g] # "none" <=> g.space = "legacy" /\ g.n < n
  BY <1>1, <1>5
<1>7. game \in Games
  <2>1. \A i \in 0..MaxSlot : was[i] \in Launch!Ended \cup {"none", "live", "played"}
    BY <1>1 DEF Launch!Ended, Launch!Result, Launch!Side
  <2> QED BY <1>1, <1>5, <2>1 DEF Games
<1>8. /\ abandoned \in SUBSET Launch!Slot
      /\ \A h \in abandoned : h.space = "legacy" /\ h \notin theirs /\ game[h] = "aborted" /\ game[h] # "none"
  BY <1>2, <1>6
<1>9. Launch!Cardinality(abandoned) \in Nat /\ Launch!Cardinality(abandoned) <= MaxSlot + 1
  <2>1. \A h \in abandoned : h.space = "legacy" /\ h.n < MaxSlot + 1
    BY <1>5, <1>8
  <2> QED BY <1>5, <1>8, <2>1, OlderThan
<1>10. PICK a \in 0..MaxSlot + 1 : a = Launch!Cardinality(abandoned)
  BY <1>5, <1>9
<1>11. /\ row \in Launch!Rows /\ row.attempt = a /\ row.link = NoGame /\ row.result = NoGame
       /\ row.forfeit = NoGame /\ row.unconfirmed = FALSE
  <2>1. row = [Launch!NewRow EXCEPT !.attempt = a]
    BY <1>3, <1>10
  <2>2. row \in Launch!Rows
    BY <2>1, NewRowIs DEF Launch!Rows
  <2>3. row.attempt = a /\ row.link = Launch!NewRow.link /\ row.result = Launch!NewRow.result
    BY <2>1, NewRowIs DEF Launch!Rows
  <2>4. row.forfeit = Launch!NewRow.forfeit /\ row.unconfirmed = Launch!NewRow.unconfirmed
    BY <2>1, NewRowIs DEF Launch!Rows
  <2> QED BY <2>2, <2>3, <2>4, NewRowIs
<1>12. \A h \in abandoned : h \in Earlier(game, theirs)
  BY <1>8 DEF Earlier
<1>13. Slots(row, game, theirs)
  <2>1. ASSUME NEW g \in Earlier(game, theirs), NEW h \in Earlier(game, theirs), game[g] \notin Launch!Ended
        PROVE  h.n <= g.n /\ row.attempt <= g.n
    <3>1. g \in Launch!Slot /\ g \notin theirs /\ g.space = "legacy" /\ game[g] \in {"live", "played"}
      BY <1>7, <2>1 DEF Earlier, Games
    <3>2. g \in Launch!InPlay
      BY <3>1 DEF Launch!InPlay
    <3>3. h.n <= g.n
      BY <1>2, <2>1, <3>2 DEF Earlier
    <3>4. \A k \in abandoned : k.space = "legacy" /\ k.n < g.n
      <4> SUFFICES ASSUME NEW k \in abandoned
                   PROVE  k.space = "legacy" /\ k.n < g.n
        OBVIOUS
      <4>1. k \in Launch!Slot /\ k.space = "legacy" /\ k \notin theirs /\ game[k] = "aborted" /\ game[k] # "none"
        BY <1>8
      <4>2. k.n <= g.n
        BY <1>2, <3>2, <4>1
      <4>3. k # g
        BY <3>1, <4>1
      <4>4. k.n # g.n
        BY <3>1, <4>1, <4>3, SlotIs
      <4> QED BY <1>5, <3>1, <4>1, <4>2, <4>4
    <3>5. a <= g.n
      BY <1>5, <1>8, <1>10, <3>1, <3>4, OlderThan
    <3> QED BY <1>11, <3>3, <3>5
  <2>2. \A g \in theirs : g.space = "legacy" /\ game[g] # "none"
    BY <1>2, <1>6
  <2>3. \A g, h \in Launch!Slot :
          g.space = "legacy" /\ h.space = "legacy" /\ h.n < g.n /\ game[g] # "none" => game[h] # "none"
    BY <1>5, <1>6
  <2> QED BY <2>1, <2>2, <2>3 DEF Slots
<1>14. Attempts(row, game, theirs)
  <2>1. \A g \in Launch!Slot : g.space = "committed" => game[g] = "none"
    BY <1>6
  <2>2. ASSUME NEW m \in 0..MaxSlot, m < a, \A h \in Earlier(game, theirs) : ~(m <= h.n)
        PROVE  FALSE
    <3>1. \A h \in abandoned : h.space = "legacy" /\ h.n < m
      BY <1>5, <1>8, <1>12, <2>2
    <3>2. a <= m
      BY <1>8, <1>10, <2>2, <3>1, OlderThan
    <3> QED BY <1>5, <2>2, <3>2
  <2> QED BY <1>11, <2>1, <2>2 DEF Attempts
<1>15. Abandonment(row, game, abandoned)
  <2>1. a = 0 => abandoned = {}
    <3>1. ASSUME a = 0
          PROVE  abandoned = {}
      <4>1. IsFiniteSet(abandoned)
        <5>1. \A h \in abandoned : h.space = "legacy" /\ h.n < MaxSlot + 1
          BY <1>5, <1>8
        <5> QED BY <1>5, <1>8, <5>1, OlderThan
      <4>2. Cardinality(abandoned) = 0
        BY <1>10, <3>1 DEF Launch!Cardinality, Cardinality
      <4> QED BY <4>1, <4>2, FS_EmptySet
    <3> QED BY <3>1
  <2> QED BY <1>8, <1>11, <2>1 DEF Abandonment
<1>16. RowGood(row, game) /\ Linkage(row, game, theirs)
  BY <1>11 DEF RowGood, Linkage
<1>17. LaunchTypes
  BY <1>2, <1>4, <1>7, <1>8, <1>11, IdleIs DEF LaunchTypes
<1>18. \A p \in Process : ProcOK(proc[p], row, game, theirs, abandoned)
  <2>1. \A p \in Process : proc[p].pc \in {"idle", "reconcile", "pick"}
    BY <1>4, IdleIs
  <2> SUFFICES ASSUME NEW p \in Process
               PROVE  ProcOK(proc[p], row, game, theirs, abandoned)
    OBVIOUS
  <2>2. PICK s : s = proc[p] /\ s.pc \in {"idle", "reconcile", "pick"}
    BY <2>1
  <2> QED BY <2>2, Resting
<1> QED BY <1>13, <1>14, <1>15, <1>16, <1>17, <1>18 DEF LaunchInv, World

\* Two games in play would lie in one slot.
LEMMA PlayedAlone ==
  ASSUME LaunchInv
  PROVE  \A g, h \in Launch!InPlay : g = h
<1>1. /\ game \in Games /\ theirs \subseteq Launch!Slot /\ row.attempt \in Nat
      /\ Slots(row, game, theirs) /\ Attempts(row, game, theirs)
  BY LaunchConstants DEF LaunchInv, LaunchTypes, World, Launch!Rows
<1>2. ASSUME NEW g \in Launch!InPlay
      PROVE  /\ g \in Launch!Slot /\ game[g] # "none" /\ game[g] \notin Launch!Ended
             /\ g = Launch!At(g.space, g.n) /\ g.n \in 0..MaxSlot /\ g.n \in Nat
             /\ g.space = "legacy" => g \in Earlier(game, theirs)
             /\ g.space \in {"legacy", "committed"}
  BY <1>2, SlotIs, LaunchConstants DEF Launch!InPlay, Earlier, Launch!Ended, Launch!Result, Launch!Side
<1>3. ASSUME NEW g \in Launch!InPlay, NEW h \in Launch!InPlay, g.space = "committed", h.space = "legacy"
      PROVE  FALSE
  <2>1. g.n <= row.attempt /\ NoneLeft(g.n, game, theirs)
    BY <1>1, <1>2, <1>3 DEF Attempts
  <2>2. h.n < g.n /\ row.attempt <= h.n
    BY <1>1, <1>2, <1>3, <2>1 DEF NoneLeft, Slots
  <2> QED BY <1>1, <1>2, <2>1, <2>2
<1>4. ASSUME NEW g \in Launch!InPlay, NEW h \in Launch!InPlay, g.space = "committed", h.space = "committed", g.n < h.n
      PROVE  FALSE
  <2>1. h.n <= row.attempt /\ NoneLeft(g.n, game, theirs)
    BY <1>1, <1>2, <1>4 DEF Attempts
  <2>2. g.n < row.attempt
    BY <1>1, <1>2, <1>4, <2>1
  <2>3. PICK k \in Earlier(game, theirs) : g.n <= k.n
    BY <1>1, <1>2, <1>4, <2>2 DEF Attempts
  <2>4. k.n < g.n /\ k.n \in Nat
    BY <2>1, SlotIs DEF NoneLeft, Earlier
  <2> QED BY <1>2, <2>3, <2>4
<1> SUFFICES ASSUME NEW g \in Launch!InPlay, NEW h \in Launch!InPlay
             PROVE  g = h
  OBVIOUS
<1>5. CASE g.space = "legacy" /\ h.space = "legacy"
  <2>1. h.n <= g.n /\ g.n <= h.n
    BY <1>1, <1>2, <1>5 DEF Slots
  <2>2. g.n = h.n
    BY <1>2, <2>1
  <2> QED BY <1>2, <1>5, <2>2
<1>6. CASE g.space = "committed" /\ h.space = "committed"
  <2>1. ~(g.n < h.n) /\ ~(h.n < g.n)
    BY <1>4, <1>6
  <2>2. g.n = h.n
    BY <1>2, <2>1
  <2> QED BY <1>2, <1>6, <2>2
<1> QED BY <1>2, <1>3, <1>5, <1>6

LEMMA LaunchesStand ==
  LaunchInv => Launch!ResultIsTheGames /\ Launch!OneGameAtATime /\ Launch!RowRestores
<1> SUFFICES ASSUME LaunchInv
             PROVE  Launch!ResultIsTheGames /\ Launch!OneGameAtATime /\ Launch!RowRestores
  OBVIOUS
<1>1. Launch!ResultIsTheGames
  BY DEF LaunchInv, World, RowGood, Launch!ResultIsTheGames, Launch!Marked
<1>2. Launch!RowRestores
  BY DEF LaunchInv, World, RowGood, Launch!RowRestores
<1>3. Launch!OneGameAtATime
  <2>1. Launch!Cardinality(Launch!InPlay) = Cardinality(Launch!InPlay)
    BY DEF Launch!Cardinality, Cardinality
  <2>2. Launch!InPlay = {} \/ \E g : Launch!InPlay = {g}
    BY PlayedAlone
  <2>3. Cardinality(Launch!InPlay) <= 1
    <3>1. CASE Launch!InPlay = {}
      <4>1. Cardinality(Launch!InPlay) = 0
        BY <3>1, FS_EmptySet
      <4> QED BY <4>1
    <3>2. CASE \E g : Launch!InPlay = {g}
      <4>1. Cardinality(Launch!InPlay) = 1
        BY <3>2, FS_Singleton
      <4> QED BY <4>1
    <3> QED BY <2>2, <3>1, <3>2
  <2> QED BY <2>1, <2>3 DEF Launch!OneGameAtATime
<1> QED BY <1>1, <1>2, <1>3

\* For every number of replicas, attempts, retries and failures, and whatever games
\* an older launch left: the replicas play one game for a pairing at a time, link it
\* to no abandoned game and no other pairing's, a result without a mark is the game's,
\* and the row can be restored (the launcher, the reporter, saves under versions).
THEOREM LaunchesOnce == Launch!Spec => LaunchIsOnce
<1>1. Launch!Spec => []LaunchInv
  BY LaunchInit, LaunchStep, PTL DEF Launch!Spec
<1>2. Launch!Spec => [](Launch!ResultIsTheGames /\ Launch!OneGameAtATime /\ Launch!RowRestores)
  BY <1>1, LaunchesStand, PTL
<1>3. Launch!Spec => [][LinkStep]_(Launch!vars)
  BY <1>1, LaunchStep, PTL DEF Launch!Spec
<1>4. [][LinkStep]_(Launch!vars) => Launch!LinksAreLive
  BY PTL DEF LinkStep, Launch!LinksAreLive
<1> QED BY <1>2, <1>3, <1>4, PTL DEF LaunchIsOnce, Launch!LaunchIsOnce

=============================================================================

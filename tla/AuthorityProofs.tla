--------------------------- MODULE AuthorityProofs ---------------------------
(***************************************************************************)
(* Safety of a game's authority, for every set of commands and creations,  *)
(* any number of slot objects, evictions and foreign events; and that it   *)
(* implements CommandLog.                                                  *)
(*                                                                         *)
(* The argument: only the registered slot has anything in it (Exclusive),  *)
(* so one job at a time reads and writes.  A copy is Current if it has all *)
(* that was confirmed or broadcast; a read that has been taken stays so,   *)
(* because nothing is confirmed while its job is the head, and an append   *)
(* that committed was computed from a current copy, because the head it    *)
(* compared was the head of the log.                                       *)
(***************************************************************************)
EXTENDS Authority, SequenceTheorems, FiniteSetTheorems, TLAPS

\* A copy of the game that leaves out nothing this process has shown.
Current(events) ==
  /\ \A c \in Cmd : outcome[c] = "confirmed" => c \in ToSet(events)
  /\ \A i \in DOMAIN published : published[i].revision <= Len(events)

Exclusive == \A k \in Slot : k # cur => slot[k] = Unused

\* What the queue itself says: one job per command, and only the head has started.
JobShape(s, i) ==
  LET j == s.jobs[i] IN
  /\ j.kind \in {"load", "reload"} <=> j.cmd = NoCmd
  /\ j.kind = "create" <=> j.cmd \in Creation
  /\ i # 1 => j.phase = "queued" /\ ~j.timedOut
  /\ j.cmd # NoCmd => \A h \in DOMAIN s.jobs : h # i => s.jobs[h].cmd # j.cmd
  /\ j.taken => j.phase \in {"refresh", "reconcile"}
  /\ j.phase = "reconcile" => j.failure # "none"

\* What a command's job says of its caller and of its append.
JobTruth(j) ==
  j.cmd # NoCmd =>
    /\ j.cancelled => j.phase = "queued" /\ outcome[j.cmd] = "unchanged"
    /\ ~j.cancelled => outcome[j.cmd] = (IF j.timedOut THEN "unknown" ELSE "waiting")
    /\ txn[j.cmd].phase = "none" <=> j.phase \notin {"append", "reconcile"}
    /\ j.failure = "rejected" => txn[j.cmd].phase = "rejected"

\* What the head has read, and what its append was computed from.
HeadTruth(s) ==
  LET j == s.jobs[1] IN
  /\ j.taken => IsPrefix(j.snapshot, log) /\ Current(j.snapshot)
  /\ j.phase = "append" /\ j.cmd # NoCmd =>
       /\ Len(s.events) = txn[j.cmd].head
       /\ txn[j.cmd].phase = "committed" => Current(s.events)

\* The reloads that are queued.
Reloads(jobs) == Cardinality({i \in DOMAIN jobs : jobs[i].kind = "reload"})

SlotInv(s) ==
  /\ IsPrefix(s.events, log)
  /\ s.events # <<>> => Current(s.events)
  /\ \A i \in DOMAIN s.jobs : JobShape(s, i) /\ JobTruth(s.jobs[i])
  /\ s.jobs # <<>> => HeadTruth(s)
  /\ s.reloads = Reloads(s.jobs)

\* The store: what committed stands where its command computed it to.
StoreInv ==
  \A c \in Cmd :
    /\ c \in ToSet(log) <=> txn[c].phase = "committed"
    /\ txn[c].phase = "committed" => txn[c].head < Len(log) /\ log[txn[c].head + 1] = c
    /\ txn[c].phase \in {"open", "committed"} => (c \in Creation <=> txn[c].head = 0)

\* Answers are true of the store, and stay so.
AnswersInv ==
  \A c \in Cmd :
    /\ outcome[c] = "idle" => txn[c].phase = "none"
    /\ outcome[c] = "confirmed" => txn[c].phase = "committed"
    /\ outcome[c] = "unchanged" => txn[c].phase \in {"none", "rejected"}

BroadcastInv ==
  PublishedIsDurable /\ \A i \in DOMAIN published : published[i].revision > 0

\* No lifecycle is issued twice, and an evicted one is never current again.
LifecycleInv ==
  /\ cur # NoSlot => slot[cur].generation \in 1..lifecycle
  /\ \A c \in Cmd : captured[c] <= lifecycle /\ (c \in Creation => captured[c] = 0)
  /\ \A c \in evicted :
       /\ captured[c] # 0 /\ txn[c].phase = "none"
       /\ cur # NoSlot => captured[c] # slot[cur].generation

IInv ==
  /\ TypeOK /\ Exclusive
  /\ \A k \in Slot : SlotInv(slot[k])
  /\ StoreInv /\ AnswersInv /\ BroadcastInv /\ LifecycleInv

\* A step of CommandLog, or none.
Promised == Promise!Next \/ UNCHANGED <<log, outcome>>


-----------------------------------------------------------------------------
(* Sequences. *)

(* A prefix is shorter and agrees wherever it is defined.                  *)
LEMMA PrefixPointwise ==
  ASSUME NEW S, NEW s \in Seq(S), NEW t \in Seq(S)
  PROVE  IsPrefix(s, t) <=> /\ Len(s) <= Len(t)
                            /\ \A i \in 1..Len(s) : s[i] = t[i]
<1>1. Len(s) \in Nat /\ Len(t) \in Nat
  BY LenProperties
<1>2. SUFFICES ASSUME Len(s) <= Len(t)
               PROVE  SubSeq(s, 1, Len(s)) = SubSeq(t, 1, Len(s))
                        <=> \A i \in 1..Len(s) : s[i] = t[i]
  BY DEF IsPrefix
<1>3. SubSeq(s, 1, Len(s)) = s
  BY SubSeqFull
<1>4. /\ SubSeq(t, 1, Len(s)) \in Seq(S)
      /\ Len(SubSeq(t, 1, Len(s))) = Len(s)
      /\ \A i \in 1..Len(s) : SubSeq(t, 1, Len(s))[i] = t[i]
  BY <1>1, <1>2, SMT
<1>5. ASSUME \A i \in 1..Len(s) : s[i] = t[i]
      PROVE  s = SubSeq(t, 1, Len(s))
  BY <1>4, <1>5, SeqEqual
<1> QED
  BY <1>3, <1>4, <1>5

(* A prefix of a log stays one when the log grows.                         *)
LEMMA PrefixGrows ==
  ASSUME NEW S, NEW s \in Seq(S), NEW t \in Seq(S), NEW e \in S, IsPrefix(s, t)
  PROVE  IsPrefix(s, Append(t, e))
<1>1. Len(s) \in Nat /\ Len(t) \in Nat
  BY LenProperties
<1>2. Len(s) <= Len(t) /\ \A i \in 1..Len(s) : s[i] = t[i]
  BY PrefixPointwise
<1>3. /\ Append(t, e) \in Seq(S)
      /\ Len(Append(t, e)) = Len(t) + 1
      /\ \A i \in 1..Len(t) : Append(t, e)[i] = t[i]
  BY AppendProperties
<1>4. Len(s) <= Len(Append(t, e)) /\ \A i \in 1..Len(s) : s[i] = Append(t, e)[i]
  BY <1>1, <1>2, <1>3
<1> QED
  BY <1>3, <1>4, PrefixPointwise

(* The entry that follows a prefix extends it.                             *)
LEMMA PrefixExtends ==
  ASSUME NEW S, NEW s \in Seq(S), NEW t \in Seq(S), IsPrefix(s, t), Len(s) < Len(t)
  PROVE  IsPrefix(Append(s, t[Len(s) + 1]), t)
<1>1. Len(s) \in Nat /\ Len(t) \in Nat
  BY LenProperties
<1>2. \A i \in 1..Len(s) : s[i] = t[i]
  BY PrefixPointwise
<1> DEFINE e == t[Len(s) + 1]
<1>3. e \in S
  BY <1>1, ElementOfSeq
<1>4. /\ Append(s, e) \in Seq(S)
      /\ Len(Append(s, e)) = Len(s) + 1
      /\ \A i \in 1..Len(s) : Append(s, e)[i] = s[i]
      /\ Append(s, e)[Len(s) + 1] = e
  BY <1>3, AppendProperties
<1>5. \A i \in 1..(Len(s) + 1) : Append(s, e)[i] = t[i]
  BY <1>1, <1>2, <1>4
<1>6. Len(Append(s, e)) <= Len(t) /\ \A i \in 1..Len(Append(s, e)) : Append(s, e)[i] = t[i]
  BY <1>1, <1>4, <1>5
<1>7. IsPrefix(Append(s, e), t)
  BY <1>4, <1>6, PrefixPointwise
<1> QED
  BY <1>7

(* The empty record is a prefix, and so is the whole log; a prefix as long *)
(* as the log is the log.                                                  *)
LEMMA PrefixEnds ==
  ASSUME NEW S, NEW t \in Seq(S)
  PROVE  /\ IsPrefix(<<>>, t) /\ IsPrefix(t, t)
         /\ \A s \in Seq(S) : IsPrefix(s, t) /\ Len(s) = Len(t) => s = t
<1>1. Len(t) \in Nat /\ <<>> \in Seq(S) /\ Len(<<>>) = 0
  BY LenProperties, EmptySeq
<1>2. IsPrefix(<<>>, t)
  <2>1. Len(<<>>) <= Len(t) /\ \A i \in 1..Len(<<>>) : <<>>[i] = t[i]
    BY <1>1
  <2> QED
    BY <1>1, <2>1, PrefixPointwise
<1>4. IsPrefix(t, t)
  BY <1>1, PrefixPointwise
<1>3. ASSUME NEW s \in Seq(S), IsPrefix(s, t), Len(s) = Len(t) PROVE s = t
  BY <1>3, PrefixPointwise, SeqEqual
<1> QED
  BY <1>2, <1>3, <1>4

(* What a sequence holds, and what one more entry adds.                    *)
LEMMA RangeOfAppend ==
  ASSUME NEW S, NEW s \in Seq(S), NEW e \in S
  PROVE  ToSet(Append(s, e)) = ToSet(s) \cup {e}
<1>1. Len(s) \in Nat /\ DOMAIN s = 1..Len(s)
  BY LenProperties
<1>2. /\ Append(s, e) \in Seq(S)
      /\ Len(Append(s, e)) = Len(s) + 1
      /\ \A i \in 1..Len(s) : Append(s, e)[i] = s[i]
      /\ Append(s, e)[Len(s) + 1] = e
  BY AppendProperties
<1>3. DOMAIN Append(s, e) = 1..(Len(s) + 1)
  BY <1>2, LenProperties
<1>4. 1..(Len(s) + 1) = 1..Len(s) \cup {Len(s) + 1}
  BY <1>1
<1> QED
  BY <1>1, <1>2, <1>3, <1>4 DEF ToSet

(* The head of a queue is replaced, and the rest stays.                    *)
LEMMA HeadReplaced ==
  ASSUME NEW s \in SlotState, s.jobs # <<>>, NEW job \in Job
  PROVE  LET t == Goto(s, job) IN
         /\ t \in SlotState
         /\ t = [s EXCEPT !.jobs = t.jobs]
         /\ 1 \in DOMAIN s.jobs /\ s.jobs[1] \in Job
         /\ DOMAIN t.jobs = DOMAIN s.jobs
         /\ t.jobs # <<>> /\ t.jobs[1] = job
         /\ \A i \in DOMAIN s.jobs : i # 1 => t.jobs[i] = s.jobs[i]
<1>1. s.jobs \in Seq(Job)
  BY DEF SlotState
<1>2. /\ Len(s.jobs) \in Nat \ {0}
      /\ DOMAIN s.jobs = 1..Len(s.jobs)
  BY <1>1, EmptySeq, LenProperties
<1>3. 1 \in 1..Len(s.jobs) /\ s.jobs[1] \in Job
  BY <1>1, <1>2, ElementOfSeq
<1> DEFINE q == [s.jobs EXCEPT ![1] = job]
<1>4. /\ q \in Seq(Job)
      /\ Len(q) = Len(s.jobs)
      /\ \A i \in 1..Len(s.jobs) : q[i] = IF i = 1 THEN job ELSE s.jobs[i]
  BY <1>1, <1>3, ExceptSeq
<1>5. DOMAIN q = 1..Len(s.jobs) /\ q # <<>>
  BY <1>2, <1>4, LenProperties, EmptySeq
<1>6. Goto(s, job) = [s EXCEPT !.jobs = q]
  BY DEF Goto
<1>7. [s EXCEPT !.jobs = q] \in SlotState /\ [s EXCEPT !.jobs = q].jobs = q
  BY <1>4 DEF SlotState
<1> QED
  BY <1>2, <1>3, <1>4, <1>5, <1>6, <1>7

(* The head leaves, and every other job moves up by one.                   *)
LEMMA HeadLeft ==
  ASSUME NEW s \in SlotState, s.jobs # <<>>
  PROVE  /\ Tail(s.jobs) \in Seq(Job)
         /\ 1 \in DOMAIN s.jobs /\ s.jobs[1] \in Job
         /\ \A i \in DOMAIN Tail(s.jobs) :
              /\ i \in Nat \ {0} /\ i + 1 \in DOMAIN s.jobs
              /\ Tail(s.jobs)[i] = s.jobs[i + 1]
<1>1. s.jobs \in Seq(Job)
  BY DEF SlotState
<1>2. /\ Len(s.jobs) \in Nat \ {0}
      /\ DOMAIN s.jobs = 1..Len(s.jobs)
  BY <1>1, EmptySeq, LenProperties
<1>3. /\ Tail(s.jobs) \in Seq(Job)
      /\ Len(Tail(s.jobs)) = Len(s.jobs) - 1
      /\ \A i \in 1..Len(Tail(s.jobs)) : Tail(s.jobs)[i] = s.jobs[i + 1]
  BY <1>1, HeadTailProperties
<1>4. DOMAIN Tail(s.jobs) = 1..(Len(s.jobs) - 1)
  BY <1>3, LenProperties
<1>5. s.jobs[1] \in Job
  BY <1>1, <1>2, ElementOfSeq
<1> QED
  BY <1>2, <1>3, <1>4, <1>5

(* A job goes behind the n others.                                         *)
Behind(jobs, q, job, n) ==
  /\ DOMAIN jobs = 1..n /\ DOMAIN q = 1..(n + 1)
  /\ n = 0 <=> jobs = <<>>
  /\ q[n + 1] = job
  /\ \A i \in 1..n : q[i] = jobs[i]

LEMMA JobAdded ==
  ASSUME NEW s \in SlotState, NEW kind \in {"apply", "create", "load", "reload"},
         NEW c \in Cmd \cup {NoCmd}
  PROVE  LET t == Enqueue(s, kind, c) IN
         /\ t \in SlotState
         /\ t = [s EXCEPT !.jobs = t.jobs]
         /\ t.jobs # <<>>
         /\ \E n \in Nat : Behind(s.jobs, t.jobs, NewJob(kind, c, s.generation), n)
<1>1. s.jobs \in Seq(Job) /\ s.generation \in Nat
  BY DEF SlotState
<1> DEFINE j == NewJob(kind, c, s.generation)
           q == Append(s.jobs, j)
<1>2. <<>> \in Seq(Event)
  BY EmptySeq
<1>3. j \in Job
  BY <1>1, <1>2 DEF NewJob, Job
<1>4. /\ q \in Seq(Job) /\ q # <<>>
      /\ Len(q) = Len(s.jobs) + 1
      /\ \A i \in 1..Len(s.jobs) : q[i] = s.jobs[i]
      /\ q[Len(s.jobs) + 1] = j
  BY <1>1, <1>3, AppendProperties
<1>5. /\ Len(s.jobs) \in Nat
      /\ DOMAIN s.jobs = 1..Len(s.jobs)
      /\ DOMAIN q = 1..(Len(s.jobs) + 1)
      /\ Len(s.jobs) = 0 <=> s.jobs = <<>>
  BY <1>1, <1>4, LenProperties, EmptySeq
<1>6. Enqueue(s, kind, c) = [s EXCEPT !.jobs = q]
  BY DEF Enqueue
<1>7. [s EXCEPT !.jobs = q] \in SlotState /\ [s EXCEPT !.jobs = q].jobs = q
  BY <1>4 DEF SlotState
<1>8. Behind(s.jobs, q, j, Len(s.jobs))
  BY <1>4, <1>5 DEF Behind
<1> QED
  BY <1>4, <1>5, <1>6, <1>7, <1>8

(* The queued reloads, as a job leaves or is added.                        *)
LEMMA ReloadsOfTail ==
  ASSUME NEW s \in SlotState, s.jobs # <<>>
  PROVE  /\ Reloads(s.jobs) \in Nat /\ Reloads(Tail(s.jobs)) \in Nat
         /\ Reloads(s.jobs)
              = Reloads(Tail(s.jobs)) + (IF s.jobs[1].kind = "reload" THEN 1 ELSE 0)
<1> DEFINE R == {i \in DOMAIN s.jobs : s.jobs[i].kind = "reload"}
           T == {i \in DOMAIN Tail(s.jobs) : Tail(s.jobs)[i].kind = "reload"}
           U == {i \in R : i # 1}
           f == [i \in T |-> i + 1]
<1>1. /\ s.jobs \in Seq(Job)
      /\ Len(s.jobs) \in Nat \ {0}
      /\ DOMAIN s.jobs = 1..Len(s.jobs)
  BY EmptySeq, LenProperties DEF SlotState
<1>2. /\ DOMAIN Tail(s.jobs) = 1..(Len(s.jobs) - 1)
      /\ \A i \in DOMAIN Tail(s.jobs) : Tail(s.jobs)[i] = s.jobs[i + 1]
  BY <1>1, HeadTailProperties, LenProperties
<1>3. /\ IsFiniteSet(DOMAIN s.jobs) /\ IsFiniteSet(DOMAIN Tail(s.jobs))
  BY <1>1, <1>2, FS_Interval
<1>4. IsFiniteSet(R) /\ IsFiniteSet(T) /\ IsFiniteSet(U)
  BY <1>3, FS_Subset
<1>5. f \in Bijection(T, U)
  <2>1. \A i \in T : i + 1 \in U
    BY <1>1, <1>2
  <2>2. \A i \in U : i - 1 \in T /\ i = (i - 1) + 1
    BY <1>1, <1>2
  <2>3. f \in Injection(T, U)
    BY <1>1, <1>2, <2>1 DEF Injection, IsInjective
  <2>4. f \in Surjection(T, U)
    BY <2>1, <2>2 DEF Surjection
  <2> QED
    BY <2>3, <2>4 DEF Bijection
<1>6. Cardinality(U) = Cardinality(T)
  <2>1. ExistsBijection(T, U)
    BY <1>5 DEF ExistsBijection
  <2> QED
    BY <1>4, <2>1, FS_Bijection
<1>7. Cardinality(R) \in Nat /\ Cardinality(T) \in Nat
  BY <1>4, FS_CardinalityType
<1>8. Cardinality(R) = Cardinality(T) + (IF s.jobs[1].kind = "reload" THEN 1 ELSE 0)
  <2>1. CASE s.jobs[1].kind = "reload"
    <3>1. R = U \cup {1} /\ 1 \notin U
      BY <1>1, <2>1
    <3>2. Cardinality(R) = Cardinality(U) + 1
      BY <1>4, <3>1, FS_AddElement
    <3> HIDE DEF R, T, U
    <3> QED
      BY <1>6, <1>7, <2>1, <3>2
  <2>2. CASE s.jobs[1].kind # "reload"
    <3>1. R = U
      BY <2>2
    <3> HIDE DEF R, T, U
    <3> QED
      BY <1>6, <1>7, <2>2, <3>1
  <2> QED
    BY <2>1, <2>2
<1>9. Reloads(s.jobs) = Cardinality(R) /\ Reloads(Tail(s.jobs)) = Cardinality(T)
  BY DEF Reloads
<1> HIDE DEF R, T
<1> QED
  BY <1>7, <1>8, <1>9

LEMMA ReloadsOfAdded ==
  ASSUME NEW s \in SlotState, NEW kind \in {"apply", "create", "load", "reload"},
         NEW c \in Cmd \cup {NoCmd}
  PROVE  /\ Reloads(s.jobs) \in Nat
         /\ Reloads(Enqueue(s, kind, c).jobs)
              = Reloads(s.jobs) + (IF kind = "reload" THEN 1 ELSE 0)
<1> DEFINE q == Enqueue(s, kind, c).jobs
           R == {i \in DOMAIN s.jobs : s.jobs[i].kind = "reload"}
           T == {i \in DOMAIN q : q[i].kind = "reload"}
<1>1. PICK n \in Nat : Behind(s.jobs, q, NewJob(kind, c, s.generation), n)
  BY JobAdded
<1>2. /\ DOMAIN s.jobs = 1..n /\ DOMAIN q = 1..(n + 1)
      /\ q[n + 1].kind = kind
      /\ \A i \in 1..n : q[i] = s.jobs[i]
  BY <1>1 DEF Behind, NewJob
<1>3. IsFiniteSet(R) /\ Cardinality(R) \in Nat
  <2>1. IsFiniteSet(1..n)
    BY FS_Interval
  <2>2. IsFiniteSet(R)
    BY <1>2, <2>1, FS_Subset
  <2> QED
    BY <2>2, FS_CardinalityType
<1>4. Cardinality(T) = Cardinality(R) + (IF kind = "reload" THEN 1 ELSE 0)
  <2>1. CASE kind = "reload"
    <3>1. T = R \cup {n + 1} /\ n + 1 \notin R
      BY <1>2, <2>1
    <3> QED
      BY <1>3, <2>1, <3>1, FS_AddElement
  <2>2. CASE kind # "reload"
    <3>1. T = R
      BY <1>2, <2>2
    <3> HIDE DEF R, T
    <3> QED
      BY <1>3, <2>2, <3>1
  <2> QED
    BY <2>1, <2>2
<1>5. Reloads(s.jobs) = Cardinality(R) /\ Reloads(q) = Cardinality(T)
  BY DEF Reloads
<1> HIDE DEF R, T
<1> QED
  BY <1>3, <1>4, <1>5

-----------------------------------------------------------------------------
(* The ways a slot changes. *)

LEMMA UnusedFacts ==
  /\ Unused \in SlotState
  /\ Unused.jobs = <<>> /\ Unused.events = <<>>
BY EmptySeq DEF Unused, SlotState

LEMMA UnusedIsSound ==
  ASSUME log' \in Seq(Event)
  PROVE  SlotInv(Unused)'
<1>1. IsPrefix(<<>>, log')
  BY PrefixEnds, Zenon
<1>2. DOMAIN Unused.jobs = {}
  BY DEF Unused
<1>3. Unused.reloads = Reloads(Unused.jobs)
  <2>1. {i \in DOMAIN Unused.jobs : Unused.jobs[i].kind = "reload"} = {}
    BY <1>2
  <2>2. Unused.reloads = 0
    BY DEF Unused
  <2> QED
    BY <2>1, <2>2, FS_EmptySet DEF Reloads
<1> QED
  BY <1>1, <1>2, <1>3, UnusedFacts DEF SlotInv

(* A slot with work is the registered one.                                 *)
LEMMA WorkIsCurrent ==
  ASSUME IInv, NEW k \in Slot, slot[k].jobs # <<>>
  PROVE  k = cur
BY UnusedFacts DEF IInv, Exclusive

(* One slot changes, and it is or becomes the registered one or goes away. *)
LEMMA OneSlot ==
  ASSUME Assumptions, TypeOK, Exclusive, log' \in Seq(Event),
         NEW k \in Slot, cur \in {k, NoSlot},
         NEW t \in SlotState, slot' = [slot EXCEPT ![k] = t], SlotInv(t)',
         cur' = k \/ (cur' = NoSlot /\ t = Unused)
  PROVE  /\ slot' \in [Slot -> SlotState]
         /\ cur' \in Slot \cup {NoSlot}
         /\ slot'[k] = t
         /\ Exclusive'
         /\ \A n \in Slot : SlotInv(slot[n])'
<1>1. slot \in [Slot -> SlotState]
  BY DEF TypeOK
<1>2. slot'[k] = t /\ \A n \in Slot \ {k} : slot'[n] = slot[n]
  BY <1>1
<1>3. \A n \in Slot \ {k} : slot[n] = Unused
  BY DEF Exclusive, Assumptions
<1>4. Exclusive'
  BY <1>2, <1>3 DEF Exclusive
<1>5. ASSUME NEW n \in Slot PROVE SlotInv(slot[n])'
  <2>1. CASE n = k
    <3>1. SlotInv(slot[n])' <=> SlotInv(t)'
      BY <1>2, <2>1 DEF SlotInv, JobShape, JobTruth, HeadTruth, Current
    <3> QED
      BY <3>1
  <2>2. CASE n # k
    <3>1. slot'[n] = Unused
      BY <1>2, <1>3, <2>2
    <3>2. SlotInv(slot[n])' <=> SlotInv(Unused)'
      BY <3>1 DEF SlotInv, JobShape, JobTruth, HeadTruth, Current
    <3> QED
      BY <3>2, UnusedIsSound
  <2> QED
    BY <2>1, <2>2
<1> QED
  BY <1>1, <1>2, <1>4, <1>5

(* PutAndRelease keeps the registered slot, or drops it when it is idle.   *)
LEMMA ReleaseCases ==
  ASSUME NEW s, PutAndRelease(cur, s)
  PROVE  \/ slot' = [slot EXCEPT ![cur] = s] /\ cur' = cur
         \/ slot' = [slot EXCEPT ![cur] = Unused] /\ cur' = NoSlot /\ s.jobs = <<>>
BY DEF PutAndRelease, Releasable

(* Lifecycles, when the registered slot keeps its generation or goes.      *)
LEMMA LifecycleStays ==
  ASSUME TypeOK, LifecycleInv, UNCHANGED <<lifecycle, captured, evicted>>,
         \/ cur' = NoSlot
         \/ cur' = cur /\ cur # NoSlot /\ slot'[cur].generation = slot[cur].generation
         \/ cur' = cur /\ cur = NoSlot,
         \A c \in evicted : txn'[c].phase = "none"
  PROVE  LifecycleInv'
BY DEF LifecycleInv, TypeOK

(* A job settles: its caller is told what the store bears out, and the     *)
(* jobs behind it are as they were.                                        *)
LEMMA SettleKeeps ==
  ASSUME Assumptions, IInv, NEW k \in Slot, slot[k].jobs # <<>>,
         NEW s \in SlotState, s.jobs = slot[k].jobs, s.generation = slot[k].generation,
         NEW answer \in {"confirmed", "unchanged", "unknown"}, Settle(k, s, answer),
         UNCHANGED <<log, txn, lifecycle, captured, evicted>>,
         published' \in Seq([revision : Nat, cmd : Cmd]), BroadcastInv',
         IsPrefix(s.events, log), s.events # <<>> => Current(s.events)',
         s.jobs[1].cmd # NoCmd =>
           /\ answer = "confirmed" => txn[s.jobs[1].cmd].phase = "committed"
           /\ answer = "unchanged" => txn[s.jobs[1].cmd].phase \in {"none", "rejected"},
         s.reloads = slot[k].reloads - (IF s.jobs[1].kind = "reload" THEN 1 ELSE 0)
  PROVE  IInv' /\ Promised
<1> DEFINE d == s.jobs[1].cmd
           t == [s EXCEPT !.jobs = Tail(s.jobs)]
<1>1. k = cur /\ cur # NoSlot /\ TypeOK /\ Exclusive /\ SlotInv(slot[k])
  BY WorkIsCurrent DEF IInv, Assumptions
<1>2. /\ Tail(s.jobs) \in Seq(Job)
      /\ 1 \in DOMAIN s.jobs /\ s.jobs[1] \in Job
      /\ \A i \in DOMAIN Tail(s.jobs) :
           /\ i \in Nat \ {0} /\ i + 1 \in DOMAIN s.jobs
           /\ Tail(s.jobs)[i] = s.jobs[i + 1]
  BY HeadLeft
<1>3. /\ t \in SlotState /\ t.jobs = Tail(s.jobs) /\ t.events = s.events
      /\ t.generation = slot[k].generation
  BY <1>2 DEF SlotState
<1>4. PutAndRelease(cur, t)
  BY <1>1 DEF Settle
<1>5. /\ outcome' \in [Cmd -> Outcomes]
      /\ \A c \in Cmd : c # d => outcome'[c] = outcome[c]
      /\ d # NoCmd => outcome'[d] = IF outcome[d] = "waiting" THEN answer ELSE outcome[d]
  <2>1. d \in Cmd \cup {NoCmd}
    BY <1>2 DEF Job
  <2>2. CASE d = NoCmd
    BY <1>1, <2>2 DEF Settle, TypeOK
  <2>3. CASE d # NoCmd
    BY <1>1, <2>1, <2>3 DEF Settle, Answer, TypeOK, Outcomes
  <2> QED
    BY <2>2, <2>3
<1>6. SlotInv(t)'
  <2>1. IsPrefix(t.events, log)' /\ (t.events # <<>> => Current(t.events))'
    BY <1>3 DEF Current
  <2>2. ASSUME NEW i \in DOMAIN t.jobs
        PROVE  JobShape(t, i)' /\ JobTruth(t.jobs[i])'
    <3> DEFINE j == t.jobs[i]
    <3>1. i + 1 \in DOMAIN s.jobs /\ i + 1 # 1 /\ j = s.jobs[i + 1]
      BY <1>2, <1>3
    <3>2. JobShape(slot[k], i + 1) /\ JobTruth(slot[k].jobs[i + 1])
      BY <1>1, <3>1 DEF SlotInv
    <3>3. j.phase = "queued" /\ ~j.taken
      BY <3>1, <3>2 DEF JobShape
    <3>4. j.cmd # NoCmd => j.cmd # d
      BY <1>2, <3>1, <3>2 DEF JobShape
    <3>5. ASSUME j.cmd # NoCmd, NEW h \in DOMAIN t.jobs, h # i PROVE t.jobs[h].cmd # j.cmd
      <4>1. h + 1 \in DOMAIN s.jobs /\ h + 1 # i + 1 /\ t.jobs[h] = s.jobs[h + 1]
        BY <1>2, <1>3, <3>5
      <4> QED
        BY <3>1, <3>2, <3>5, <4>1 DEF JobShape
    <3>6. JobShape(t, i)'
      BY <3>1, <3>2, <3>3, <3>5 DEF JobShape
    <3>7. j.cmd # NoCmd => j.cmd \in Cmd
      <4>1. j \in Job
        BY <1>2, <1>3, LenProperties, ElementOfSeq
      <4> QED
        BY <4>1 DEF Job
    <3>8. JobTruth(j) => JobTruth(j)'
      BY <1>5, <3>4, <3>7 DEF JobTruth
    <3> QED
      BY <3>1, <3>2, <3>6, <3>8
  <2>3. (t.jobs # <<>> => HeadTruth(t))'
    <3>1. SUFFICES ASSUME t.jobs # <<>> PROVE HeadTruth(t)'
      OBVIOUS
    <3>2. 1 \in DOMAIN t.jobs
      BY <1>2, <1>3, <3>1, EmptySeq, LenProperties
    <3>3. 1 + 1 \in DOMAIN s.jobs /\ t.jobs[1] = s.jobs[1 + 1]
      BY <1>2, <1>3, <3>2
    <3>4. JobShape(slot[k], 1 + 1)
      BY <1>1, <3>3 DEF SlotInv
    <3>5. t.jobs[1].phase = "queued" /\ ~t.jobs[1].taken
      BY <3>3, <3>4 DEF JobShape
    <3> QED
      BY <3>5 DEF HeadTruth
  <2>4. t.reloads = Reloads(t.jobs)
    <3>1. t.reloads = s.reloads
      BY DEF SlotState
    <3>2. slot[k].reloads = Reloads(s.jobs)
      BY <1>1 DEF SlotInv
    <3>3. /\ Reloads(s.jobs) \in Nat /\ Reloads(Tail(s.jobs)) \in Nat
          /\ Reloads(s.jobs)
               = Reloads(Tail(s.jobs)) + (IF s.jobs[1].kind = "reload" THEN 1 ELSE 0)
      BY ReloadsOfTail
    <3> QED
      BY <1>3, <3>1, <3>2, <3>3
  <2> QED
    BY <2>1, <2>2, <2>3, <2>4 DEF SlotInv
<1>7. /\ slot' \in [Slot -> SlotState] /\ cur' \in Slot \cup {NoSlot}
      /\ Exclusive' /\ \A n \in Slot : SlotInv(slot[n])'
      /\ cur' = NoSlot \/ (cur' = cur /\ slot'[cur].generation = slot[cur].generation)
  <2>1. log' \in Seq(Event)
    BY <1>1 DEF TypeOK
  <2>2. CASE slot' = [slot EXCEPT ![cur] = t] /\ cur' = cur
    BY <1>1, <1>3, <1>6, <2>1, <2>2, OneSlot
  <2>3. CASE slot' = [slot EXCEPT ![cur] = Unused] /\ cur' = NoSlot
    BY <1>1, <2>1, <2>3, OneSlot, UnusedFacts, UnusedIsSound
  <2> QED
    BY <1>4, <2>2, <2>3, ReleaseCases
<1>8. TypeOK'
  BY <1>1, <1>5, <1>7 DEF TypeOK
<1>9. StoreInv'
  BY DEF IInv, StoreInv
<1>10. AnswersInv'
  <2>1. AnswersInv
    BY DEF IInv
  <2> QED
    BY <1>5, <2>1 DEF AnswersInv, Assumptions
<1>11. LifecycleInv'
  <2>1. LifecycleInv
    BY DEF IInv
  <2>2. \A c \in evicted : txn'[c].phase = "none"
    BY <2>1 DEF LifecycleInv
  <2> QED
    BY <1>1, <1>7, <2>1, <2>2, LifecycleStays
<1>12. Promised
  <2>1. SUFFICES ASSUME NEW c \in Cmd, outcome'[c] # outcome[c]
                 PROVE  Promise!MayBecome(c, outcome'[c])
    BY <1>5 DEF Promised, Promise!Next, Promise!Answer, Promise!Outcomes, Outcomes
  <2>2. c = d /\ d # NoCmd /\ outcome[d] = "waiting" /\ outcome'[d] = answer
    BY <1>5, <2>1 DEF Assumptions
  <2>3. d \in ToSet(log) <=> txn[d].phase = "committed"
    BY <2>2 DEF IInv, StoreInv
  <2> QED
    BY <2>2, <2>3 DEF Promise!MayBecome, Promise!ToSet, ToSet
<1> QED
  BY <1>7, <1>8, <1>9, <1>10, <1>11, <1>12 DEF IInv

(* The head moves on, with a copy that is good and, for a write, with an   *)
(* append that only its own command knows of.                              *)
LEMMA HeadKeeps ==
  ASSUME Assumptions, IInv, NEW k \in Slot, slot[k].jobs # <<>>,
         NEW s \in SlotState, s.jobs = slot[k].jobs, s.generation = slot[k].generation,
         NEW job \in Job, job.cmd = s.jobs[1].cmd, job.kind = s.jobs[1].kind,
         Put(k, Goto(s, job)),
         UNCHANGED <<log, lifecycle, captured, outcome, published, evicted>>,
         txn' \in [Cmd -> Txn], \A c \in Cmd : c # job.cmd => txn'[c] = txn[c],
         IsPrefix(s.events, log), s.events # <<>> => Current(s.events),
         job.taken => /\ job.phase \in {"refresh", "reconcile"}
                      /\ IsPrefix(job.snapshot, log) /\ Current(job.snapshot),
         job.phase = "reconcile" => job.failure # "none",
         JobTruth(job)',
         job.phase = "append" /\ job.cmd # NoCmd =>
           /\ Len(s.events) = txn'[job.cmd].head
           /\ txn'[job.cmd].phase = "committed" => Current(s.events),
         s.reloads = slot[k].reloads,
         StoreInv', AnswersInv', \A c \in evicted : txn'[c].phase = "none"
  PROVE  IInv' /\ Promised
<1> DEFINE t == Goto(s, job)
<1>1. k = cur /\ cur # NoSlot /\ TypeOK /\ Exclusive /\ SlotInv(slot[k])
  BY WorkIsCurrent DEF IInv, Assumptions
<1>2. /\ t \in SlotState
      /\ t = [s EXCEPT !.jobs = t.jobs]
      /\ 1 \in DOMAIN s.jobs /\ s.jobs[1] \in Job
      /\ DOMAIN t.jobs = DOMAIN s.jobs
      /\ t.jobs # <<>> /\ t.jobs[1] = job
      /\ \A i \in DOMAIN s.jobs : i # 1 => t.jobs[i] = s.jobs[i]
  BY HeadReplaced
<1>3. t.events = s.events /\ t.generation = slot[k].generation
  BY <1>2 DEF SlotState
<1>4. SlotInv(t)'
  <2>1. IsPrefix(t.events, log)' /\ (t.events # <<>> => Current(t.events))'
    BY <1>3 DEF Current
  <2>2. ASSUME NEW i \in DOMAIN t.jobs
        PROVE  JobShape(t, i)' /\ JobTruth(t.jobs[i])'
    <3>1. JobShape(slot[k], i) /\ JobTruth(slot[k].jobs[i])
      BY <1>1, <1>2, <2>2 DEF SlotInv
    <3>2. \A h \in DOMAIN t.jobs : t.jobs[h].cmd = s.jobs[h].cmd
      BY <1>2
    <3>3. JobShape(t, i)'
      <4>1. CASE i = 1
        BY <1>2, <3>1, <3>2, <4>1 DEF JobShape
      <4>2. CASE i # 1
        BY <1>2, <3>1, <3>2, <4>2 DEF JobShape
      <4> QED
        BY <4>1, <4>2
    <3>4. JobTruth(t.jobs[i])'
      <4>1. CASE i = 1
        <5>1. JobTruth(t.jobs[i])' <=> JobTruth(job)'
          BY <1>2, <4>1 DEF JobTruth
        <5> QED
          BY <5>1
      <4>2. CASE i # 1
        <5>1. t.jobs[i] = slot[k].jobs[i] /\ t.jobs[i] \in Job
          BY <1>2, <4>2, LenProperties, ElementOfSeq DEF SlotState
        <5>2. t.jobs[i].cmd # NoCmd => t.jobs[i].cmd \in Cmd /\ t.jobs[i].cmd # job.cmd
          BY <1>2, <3>1, <4>2, <5>1 DEF JobShape, Job
        <5> QED
          BY <3>1, <5>1, <5>2 DEF JobTruth
      <4> QED
        BY <4>1, <4>2
    <3> QED
      BY <3>3, <3>4
  <2>3. HeadTruth(t)'
    BY <1>2, <1>3 DEF HeadTruth, Current
  <2>4. t.reloads = Reloads(t.jobs)
    <3>1. {i \in DOMAIN t.jobs : t.jobs[i].kind = "reload"}
            = {i \in DOMAIN s.jobs : s.jobs[i].kind = "reload"}
      BY <1>2
    <3>2. Reloads(t.jobs) = Reloads(s.jobs)
      BY <3>1 DEF Reloads
    <3>3. t.reloads = s.reloads
      BY <1>2 DEF SlotState
    <3> QED
      BY <1>1, <3>2, <3>3 DEF SlotInv
  <2> QED
    BY <2>1, <2>2, <2>3, <2>4 DEF SlotInv
<1>5. slot' = [slot EXCEPT ![k] = t] /\ cur' = k
  BY <1>1 DEF Put
<1>6. /\ slot' \in [Slot -> SlotState] /\ cur' \in Slot \cup {NoSlot}
      /\ slot'[k] = t
      /\ Exclusive' /\ \A n \in Slot : SlotInv(slot[n])'
  <2>1. log' \in Seq(Event)
    BY <1>1 DEF TypeOK
  <2> QED
    BY <1>1, <1>2, <1>4, <1>5, <2>1, OneSlot
<1>7. TypeOK'
  BY <1>1, <1>6 DEF TypeOK
<1>8. BroadcastInv'
  BY DEF IInv, BroadcastInv, PublishedIsDurable
<1>9. LifecycleInv'
  BY <1>1, <1>3, <1>5, <1>6, LifecycleStays DEF IInv
<1>10. Promised
  BY DEF Promised
<1> QED
  BY <1>6, <1>7, <1>8, <1>9, <1>10 DEF IInv

(* The slot the calls use: the registered one, or a fresh one.             *)
LEMMA SlotForFacts ==
  ASSUME Assumptions, IInv
  PROVE  /\ SlotId \in Slot /\ cur \in {SlotId, NoSlot}
         /\ SlotFor \in SlotState /\ SlotInv(SlotFor)
         /\ cur # NoSlot => SlotFor = slot[SlotId]
         /\ cur = NoSlot => SlotFor.generation = lifecycle + 1
<1>1. TypeOK /\ Exclusive /\ \A k \in Slot : SlotInv(slot[k])
  BY DEF IInv
<1>2. CASE cur # NoSlot
  BY <1>1, <1>2 DEF SlotId, SlotFor, TypeOK
<1>3. CASE cur = NoSlot
  <2>1. \E k \in Slot : slot[k] = Unused
    BY <1>1, <1>3 DEF Exclusive, Assumptions
  <2>2. SlotId \in Slot /\ slot[SlotId] = Unused
    BY <1>3, <2>1 DEF SlotId
  <2>3. SlotInv(Unused)
    BY <1>1, <2>2
  <2>4. /\ SlotFor = [Unused EXCEPT !.generation = lifecycle + 1]
        /\ lifecycle + 1 \in Nat
    BY <1>1, <1>3 DEF SlotFor, TypeOK
  <2>5. /\ SlotFor \in SlotState /\ SlotFor.generation = lifecycle + 1
        /\ SlotFor.jobs = Unused.jobs /\ SlotFor.events = Unused.events
        /\ SlotFor.reloads = Unused.reloads
    BY <2>4, UnusedFacts DEF SlotState
  <2>6. SlotInv(SlotFor)
    BY <2>3, <2>5, UnusedFacts DEF SlotInv
  <2> QED
    BY <1>3, <2>2, <2>5, <2>6
<1> QED
  BY <1>2, <1>3

(* That slot is registered, changed or not.                                *)
LEMMA PutSlotKeeps ==
  ASSUME Assumptions, IInv,
         NEW t \in SlotState, t.generation = SlotFor.generation, PutSlotFor(t), SlotInv(t)',
         UNCHANGED <<log, txn, published, evicted>>,
         outcome' \in [Cmd -> Outcomes], AnswersInv',
         captured' \in [Cmd -> Nat],
         \A c \in Cmd : \/ captured'[c] = captured[c]
                        \/ /\ c \notin Creation /\ captured[c] = 0
                           /\ captured'[c] = SlotFor.generation
  PROVE  IInv'
<1>1. /\ SlotId \in Slot /\ cur \in {SlotId, NoSlot}
      /\ cur # NoSlot => SlotFor = slot[SlotId]
      /\ cur = NoSlot => SlotFor.generation = lifecycle + 1
  BY SlotForFacts
<1>2. TypeOK /\ Exclusive /\ log' \in Seq(Event)
  BY DEF IInv, TypeOK
<1>3. /\ slot' = [slot EXCEPT ![SlotId] = t] /\ cur' = SlotId
      /\ lifecycle' = IF cur = NoSlot THEN lifecycle + 1 ELSE lifecycle
  BY DEF PutSlotFor
<1>4. /\ slot' \in [Slot -> SlotState] /\ cur' \in Slot \cup {NoSlot}
      /\ slot'[SlotId] = t
      /\ Exclusive' /\ \A n \in Slot : SlotInv(slot[n])'
  BY <1>1, <1>2, <1>3, OneSlot
<1>5. TypeOK'
  BY <1>2, <1>3, <1>4 DEF TypeOK
<1>6. LifecycleInv'
  <2>1. LifecycleInv
    BY DEF IInv
  <2>2. /\ lifecycle \in Nat /\ lifecycle' \in Nat /\ lifecycle <= lifecycle'
        /\ SlotFor.generation \in 1..lifecycle'
        /\ slot'[cur'].generation = SlotFor.generation
    BY <1>1, <1>2, <1>3, <1>4, <2>1 DEF LifecycleInv, TypeOK
  <2>3. \A c \in Cmd : captured'[c] <= lifecycle' /\ (c \in Creation => captured'[c] = 0)
    BY <1>2, <2>1, <2>2 DEF LifecycleInv, TypeOK
  <2>4. ASSUME NEW c \in evicted
        PROVE  captured'[c] # 0 /\ txn'[c].phase = "none" /\ captured'[c] # SlotFor.generation
    <3>1. c \in Cmd /\ captured[c] # 0 /\ captured'[c] = captured[c] /\ txn[c].phase = "none"
      BY <1>2, <2>1 DEF LifecycleInv, TypeOK
    <3>2. captured[c] <= lifecycle /\ captured[c] \in Nat
      BY <1>2, <2>1, <3>1 DEF LifecycleInv, TypeOK
    <3>3. captured[c] # SlotFor.generation
      BY <1>1, <1>2, <2>1, <3>2 DEF LifecycleInv, TypeOK
    <3> QED
      BY <3>1, <3>3
  <2> QED
    BY <2>2, <2>3, <2>4 DEF LifecycleInv
<1>7. StoreInv' /\ BroadcastInv'
  BY DEF IInv, StoreInv, BroadcastInv, PublishedIsDurable
<1> QED
  BY <1>4, <1>5, <1>6, <1>7 DEF IInv

(* No slot holds a job of a command that was never issued.                 *)
LEMMA NoJobYet ==
  ASSUME NEW c \in Cmd, outcome[c] = "idle", NEW s \in SlotState, SlotInv(s),
         NoCmd \notin Cmd, NEW i \in DOMAIN s.jobs
  PROVE  s.jobs[i].cmd # c
<1>1. JobTruth(s.jobs[i])
  BY DEF SlotInv
<1>2. s.jobs[i] \in Job
  BY LenProperties, ElementOfSeq DEF SlotState
<1> QED
  BY <1>1, <1>2 DEF JobTruth, Job

(* A job is queued in that slot: a load or a reload, or a command whose    *)
(* caller waits from now on.                                               *)
LEMMA EnqueueKeeps ==
  ASSUME Assumptions, IInv,
         NEW kind \in {"apply", "create", "load", "reload"}, NEW c \in Cmd \cup {NoCmd},
         kind \in {"load", "reload"} <=> c = NoCmd, kind = "create" <=> c \in Creation,
         NEW s \in SlotState, s.jobs = SlotFor.jobs, s.events = SlotFor.events,
         s.generation = SlotFor.generation,
         s.reloads = SlotFor.reloads + (IF kind = "reload" THEN 1 ELSE 0),
         PutSlotFor(Enqueue(s, kind, c)),
         c = NoCmd => outcome' = outcome,
         c # NoCmd => outcome[c] = "idle" /\ outcome' = [outcome EXCEPT ![c] = "waiting"],
         UNCHANGED <<log, txn, captured, published, evicted>>
  PROVE  IInv' /\ Promised
<1> DEFINE t == Enqueue(s, kind, c)
<1>1. SlotFor \in SlotState /\ SlotInv(SlotFor) /\ TypeOK /\ AnswersInv /\ NoCmd \notin Cmd
  BY SlotForFacts DEF IInv, Assumptions
<1>2. /\ t \in SlotState
      /\ t = [s EXCEPT !.jobs = t.jobs]
      /\ t.jobs # <<>>
  BY JobAdded
<1>3a. PICK n \in Nat : Behind(s.jobs, t.jobs, NewJob(kind, c, s.generation), n)
  BY JobAdded
<1>3. /\ DOMAIN s.jobs = 1..n /\ DOMAIN t.jobs = 1..(n + 1)
      /\ n = 0 <=> s.jobs = <<>>
      /\ t.jobs[n + 1] = NewJob(kind, c, s.generation)
      /\ \A i \in 1..n : t.jobs[i] = s.jobs[i]
  BY <1>3a DEF Behind
<1>4. /\ t.events = SlotFor.events /\ t.generation = SlotFor.generation
      /\ t.reloads = s.reloads
  BY <1>2 DEF SlotState
<1>5. /\ outcome' \in [Cmd -> Outcomes]
      /\ \A d \in Cmd : d # c => outcome'[d] = outcome[d]
      /\ c # NoCmd => c \in Cmd /\ outcome[c] = "idle" /\ outcome'[c] = "waiting"
  <2>1. CASE c = NoCmd
    BY <1>1, <2>1 DEF TypeOK
  <2>2. CASE c # NoCmd
    BY <1>1, <2>2 DEF TypeOK, Outcomes
  <2> QED
    BY <2>1, <2>2
<1>6. \A ev \in Seq(Event) : Current(ev) => Current(ev)'
  BY <1>5 DEF Current
<1>7. ASSUME NEW i \in 1..n
      PROVE  /\ JobShape(SlotFor, i) /\ JobTruth(s.jobs[i])
             /\ s.jobs[i] \in Job
             /\ c # NoCmd => s.jobs[i].cmd # c
  <2>1. i \in DOMAIN SlotFor.jobs
    BY <1>3
  <2>2. s.jobs[i] \in Job
    BY <1>3, LenProperties, ElementOfSeq DEF SlotState
  <2> QED
    BY <1>1, <1>5, <2>1, <2>2, NoJobYet DEF SlotInv
<1>8. SlotInv(t)'
  <2>1. IsPrefix(t.events, log)' /\ (t.events # <<>> => Current(t.events))'
    BY <1>1, <1>4, <1>6 DEF SlotInv, SlotState
  <2>2. ASSUME NEW i \in DOMAIN t.jobs
        PROVE  JobShape(t, i)' /\ JobTruth(t.jobs[i])'
    <3>1. CASE i = n + 1
      <4>1. t.jobs[i] = NewJob(kind, c, s.generation)
        BY <1>3, <3>1
      <4>2. \A h \in DOMAIN t.jobs : h # i => h \in 1..n /\ t.jobs[h] = s.jobs[h]
        BY <1>3, <3>1
      <4>3. JobShape(t, i)'
        BY <1>7, <4>1, <4>2 DEF JobShape, NewJob
      <4>4. c # NoCmd => txn[c].phase = "none"
        BY <1>1, <1>5 DEF AnswersInv
      <4>5. JobTruth(t.jobs[i])'
        BY <1>5, <4>1, <4>4 DEF JobTruth, NewJob
      <4> QED
        BY <4>3, <4>5
    <3>2. CASE i \in 1..n
      <4>1. t.jobs[i] = s.jobs[i] /\ JobShape(SlotFor, i) /\ JobTruth(s.jobs[i])
        BY <1>3, <1>7, <3>2
      <4>2. ASSUME NEW h \in DOMAIN t.jobs, h # i, t.jobs[i].cmd # NoCmd
            PROVE  t.jobs[h].cmd # t.jobs[i].cmd
        <5>1. CASE h = n + 1
          BY <1>3, <1>7, <3>2, <4>1, <4>2, <5>1 DEF NewJob
        <5>2. CASE h \in 1..n
          BY <1>3, <4>1, <4>2, <5>2 DEF JobShape
        <5> QED
          BY <1>3, <5>1, <5>2
      <4>3. JobShape(t, i)'
        BY <1>3, <4>1, <4>2 DEF JobShape
      <4>4. s.jobs[i].cmd # NoCmd => s.jobs[i].cmd \in Cmd /\ s.jobs[i].cmd # c
        BY <1>7, <3>2 DEF Job
      <4>5. JobTruth(t.jobs[i])'
        BY <1>5, <4>1, <4>4 DEF JobTruth
      <4> QED
        BY <4>3, <4>5
    <3> QED
      BY <1>3, <2>2, <3>1, <3>2
  <2>3. HeadTruth(t)'
    <3>1. CASE n = 0
      <4>1. t.jobs[1] = NewJob(kind, c, s.generation)
        BY <1>3, <3>1
      <4> QED
        BY <4>1 DEF HeadTruth, NewJob
    <3>2. CASE n # 0
      <4>1. 1 \in 1..n /\ t.jobs[1] = s.jobs[1] /\ s.jobs # <<>> /\ s.jobs[1] \in Job
        BY <1>3, <1>7, <3>2
      <4>2. HeadTruth(SlotFor)
        BY <1>1, <4>1 DEF SlotInv
      <4>3. t.jobs[1].snapshot \in Seq(Event) /\ t.events \in Seq(Event)
        BY <1>2, <4>1 DEF Job, SlotState
      <4> QED
        BY <1>4, <1>6, <4>1, <4>2, <4>3 DEF HeadTruth
    <3> QED
      BY <3>1, <3>2
  <2>4. t.reloads = Reloads(t.jobs)
    <3>1. Reloads(t.jobs) = Reloads(s.jobs) + (IF kind = "reload" THEN 1 ELSE 0)
      BY ReloadsOfAdded
    <3> QED
      BY <1>1, <1>4, <3>1 DEF SlotInv
  <2> QED
    BY <2>1, <2>2, <2>3, <2>4 DEF SlotInv
<1>9. AnswersInv'
  BY <1>1, <1>5 DEF AnswersInv
<1>10. IInv'
  <2>1. captured' \in [Cmd -> Nat] /\ \A d \in Cmd : captured'[d] = captured[d]
    BY <1>1 DEF TypeOK
  <2> QED
    BY <1>2, <1>4, <1>5, <1>8, <1>9, <2>1, PutSlotKeeps
<1>11. Promised
  <2>1. \A d \in Cmd : outcome'[d] = outcome[d] \/ Promise!MayBecome(d, outcome'[d])
    BY <1>5 DEF Promise!MayBecome, Promise!ToSet, ToSet
  <2> QED
    BY <1>5, <2>1 DEF Promised, Promise!Next, Promise!Answer, Promise!Outcomes, Outcomes
<1> QED
  BY <1>10, <1>11

(* A command that was never queued is refused.                             *)
LEMMA RefusalKeeps ==
  ASSUME Assumptions, IInv, NEW c \in Cmd, outcome[c] = "idle",
         outcome' = [outcome EXCEPT ![c] = "unchanged"],
         UNCHANGED <<log, txn, slot, cur, lifecycle, captured, published, evicted>>
  PROVE  IInv' /\ Promised
<1>1. TypeOK /\ AnswersInv /\ NoCmd \notin Cmd
  BY DEF IInv, Assumptions
<1>2. /\ outcome' \in [Cmd -> Outcomes] /\ outcome'[c] = "unchanged"
      /\ \A d \in Cmd : d # c => outcome'[d] = outcome[d]
  BY <1>1 DEF TypeOK, Outcomes
<1>3. \A ev \in Seq(Event) : Current(ev) => Current(ev)'
  BY <1>2 DEF Current
<1>4. ASSUME NEW k \in Slot PROVE SlotInv(slot[k])'
  <2> DEFINE s == slot[k]
  <2>1. s \in SlotState /\ SlotInv(s)
    BY <1>1 DEF IInv, TypeOK
  <2>2. ASSUME NEW i \in DOMAIN s.jobs PROVE JobShape(s, i)' /\ JobTruth(s.jobs[i])'
    <3>1. JobShape(s, i) /\ JobTruth(s.jobs[i]) /\ s.jobs[i].cmd # c /\ s.jobs[i] \in Job
      BY <1>1, <2>1, NoJobYet, LenProperties, ElementOfSeq DEF SlotInv, SlotState
    <3>2. JobTruth(s.jobs[i])'
      BY <1>2, <3>1 DEF JobTruth, Job
    <3> QED
      BY <3>1, <3>2 DEF JobShape
  <2>3. s.jobs # <<>> => HeadTruth(s)'
    <3>1. SUFFICES ASSUME s.jobs # <<>> PROVE HeadTruth(s)'
      OBVIOUS
    <3>2. HeadTruth(s) /\ s.jobs[1] \in Job
      BY <2>1, <3>1, HeadLeft DEF SlotInv
    <3> QED
      BY <1>3, <2>1, <3>2 DEF HeadTruth, Job, SlotState
  <2> QED
    BY <1>3, <2>1, <2>2, <2>3 DEF SlotInv, SlotState
<1>5. TypeOK' /\ AnswersInv'
  BY <1>1, <1>2 DEF TypeOK, AnswersInv
<1>6. Exclusive' /\ StoreInv' /\ BroadcastInv' /\ LifecycleInv'
  BY DEF IInv, Exclusive, StoreInv, BroadcastInv, PublishedIsDurable, LifecycleInv
<1>7. Promised
  <2>1. \A d \in Cmd : outcome'[d] = outcome[d] \/ Promise!MayBecome(d, outcome'[d])
    BY <1>2 DEF Promise!MayBecome, Promise!ToSet, ToSet
  <2> QED
    BY <1>2, <2>1 DEF Promised, Promise!Next, Promise!Answer, Promise!Outcomes, Outcomes
<1> QED
  BY <1>4, <1>5, <1>6, <1>7 DEF IInv

-----------------------------------------------------------------------------
(* The calls. *)

LEMMA CaptureKeeps ==
  ASSUME Assumptions, IInv, NEW c \in Cmd, Capture(c)
  PROVE  IInv' /\ Promised
<1>0. PICK s \in SlotState : s = SlotFor
  BY SlotForFacts
<1>1. s = SlotFor /\ SlotInv(s) /\ TypeOK /\ AnswersInv
  BY <1>0, SlotForFacts DEF IInv
<1>2. /\ c \notin Creation /\ captured[c] = 0 /\ PutSlotFor(s)
      /\ captured' = [captured EXCEPT ![c] = s.generation]
      /\ UNCHANGED <<log, txn, outcome, published, evicted>>
  BY <1>1 DEF Capture, storeVars
<1>3. SlotInv(s)'
  BY <1>1, <1>2 DEF SlotInv, JobShape, JobTruth, HeadTruth, Current
<1>4. /\ captured' \in [Cmd -> Nat]
      /\ \A d \in Cmd :
           \/ captured'[d] = captured[d]
           \/ d \notin Creation /\ captured[d] = 0 /\ captured'[d] = SlotFor.generation
  BY <1>1, <1>2 DEF TypeOK, SlotState
<1>5. outcome' \in [Cmd -> Outcomes] /\ AnswersInv'
  BY <1>1, <1>2 DEF TypeOK, AnswersInv
<1>6. IInv'
  BY <1>1, <1>2, <1>3, <1>4, <1>5, PutSlotKeeps
<1> QED
  BY <1>2, <1>6 DEF Promised

LEMMA ApplyKeeps ==
  ASSUME Assumptions, IInv, NEW c \in Cmd, Apply(c)
  PROVE  IInv' /\ Promised
<1>1. CASE cur = NoSlot \/ slot[SlotId].dispose \/ slot[SlotId].stalled
  BY <1>1, RefusalKeeps DEF Apply, storeVars
<1>2. CASE ~(cur = NoSlot \/ slot[SlotId].dispose \/ slot[SlotId].stalled)
  <2>1. /\ c \notin Creation /\ outcome[c] = "idle" /\ c # NoCmd
        /\ slot' = [slot EXCEPT ![cur] = Enqueue(slot[cur], "apply", c)]
        /\ outcome' = [outcome EXCEPT ![c] = "waiting"]
        /\ UNCHANGED <<log, txn, cur, lifecycle, captured, published, evicted>>
    BY <1>2 DEF Apply, storeVars, Assumptions
  <2>2. /\ SlotFor \in SlotState /\ cur = SlotId /\ SlotFor = slot[cur]
    BY <1>2, SlotForFacts
  <2>3. PutSlotFor(Enqueue(SlotFor, "apply", c))
    BY <1>2, <2>1, <2>2 DEF PutSlotFor
  <2>4. SlotFor.reloads = SlotFor.reloads + (IF "apply" = "reload" THEN 1 ELSE 0)
    BY <2>2 DEF SlotState
  <2> QED
    BY <2>1, <2>2, <2>3, <2>4, EnqueueKeeps
<1> QED
  BY <1>1, <1>2

LEMMA CreateGameKeeps ==
  ASSUME Assumptions, IInv, NEW c \in Cmd, CreateGame(c)
  PROVE  IInv' /\ Promised
<1>1. CASE SlotFor.stalled
  BY <1>1, RefusalKeeps DEF CreateGame, storeVars
<1>2. CASE ~SlotFor.stalled
  <2>1. /\ c \in Creation /\ outcome[c] = "idle" /\ c # NoCmd
        /\ PutSlotFor(Enqueue(SlotFor, "create", c))
        /\ outcome' = [outcome EXCEPT ![c] = "waiting"]
        /\ UNCHANGED <<log, txn, captured, published, evicted>>
    BY <1>2 DEF CreateGame, storeVars, Assumptions
  <2>2. SlotFor \in SlotState
    BY SlotForFacts
  <2>3. SlotFor.reloads = SlotFor.reloads + (IF "create" = "reload" THEN 1 ELSE 0)
    BY <2>2 DEF SlotState
  <2> QED
    BY <2>1, <2>2, <2>3, EnqueueKeeps
<1> QED
  BY <1>1, <1>2

LEMMA ReloadKeeps ==
  ASSUME Assumptions, IInv, ReloadFromLog
  PROVE  IInv' /\ Promised
<1> DEFINE old == SlotFor
           s == [old EXCEPT !.stale = old.events # <<>>, !.reloads = old.reloads + 1]
<1>1. old \in SlotState
  BY SlotForFacts
<1> HIDE DEF old
<1>2. /\ s \in SlotState /\ s.jobs = old.jobs /\ s.events = old.events
      /\ s.generation = old.generation
      /\ s.reloads = old.reloads + 1
  <2> DEFINE u == [old EXCEPT !.stale = old.events # <<>>]
  <2>1. /\ u \in SlotState /\ u.jobs = old.jobs /\ u.events = old.events
        /\ u.generation = old.generation /\ u.reloads = old.reloads
    BY <1>1 DEF SlotState
  <2> HIDE DEF u
  <2>3. old.reloads + 1 \in Nat
    BY <1>1 DEF SlotState
  <2>2. LET v == [u EXCEPT !.reloads = old.reloads + 1] IN
        /\ v \in SlotState /\ v.jobs = u.jobs /\ v.events = u.events
        /\ v.generation = u.generation /\ v.reloads = old.reloads + 1
    BY <2>1, <2>3 DEF SlotState
  <2> QED
    BY <2>1, <2>2 DEF u
<1>3. Enqueue(s, "reload", NoCmd)
        = [Enqueue(old, "reload", NoCmd) EXCEPT !.stale = old.events # <<>>, !.reloads = @ + 1]
  BY <1>1 DEF Enqueue, SlotState
<1>4. Enqueue(old, "reload", NoCmd).events = old.events
  BY <1>1 DEF Enqueue, SlotState
<1>5. /\ PutSlotFor(Enqueue(s, "reload", NoCmd))
      /\ UNCHANGED <<log, txn, captured, outcome, published, evicted>>
  BY <1>3, <1>4 DEF ReloadFromLog, storeVars, callVars, old
<1>6. NoCmd \notin Creation
  BY DEF Assumptions
<1> HIDE DEF s
<1> QED
  BY <1>2, <1>5, <1>6, EnqueueKeeps DEF old

LEMMA EnsureLoadedKeeps ==
  ASSUME Assumptions, IInv, EnsureLoaded
  PROVE  IInv' /\ Promised
<1>1. SlotFor \in SlotState /\ SlotFor.reloads = SlotFor.reloads + (IF "load" = "reload" THEN 1 ELSE 0)
  BY SlotForFacts DEF SlotState
<1>2. /\ PutSlotFor(Enqueue(SlotFor, "load", NoCmd))
      /\ UNCHANGED <<log, txn, captured, outcome, published, evicted>>
  BY DEF EnsureLoaded, storeVars, callVars
<1>3. NoCmd \notin Creation
  BY DEF Assumptions
<1> QED
  BY <1>1, <1>2, <1>3, EnqueueKeeps

LEMMA EvictKeeps ==
  ASSUME Assumptions, IInv, Evict
  PROVE  IInv' /\ Promised
<1>1. /\ cur \in Slot /\ TypeOK /\ Exclusive /\ LifecycleInv
      /\ slot[cur] \in SlotState /\ SlotInv(slot[cur])
  BY DEF Evict, IInv, TypeOK
<1>3. PICK t \in SlotState :
        /\ t = [slot[cur] EXCEPT !.generation = lifecycle + 1, !.dispose = TRUE]
        /\ t.jobs = slot[cur].jobs /\ t.events = slot[cur].events
        /\ t.generation = lifecycle + 1 /\ t.reloads = slot[cur].reloads
  <2> DEFINE s == slot[cur]
             u == [s EXCEPT !.generation = lifecycle + 1]
             v == [u EXCEPT !.dispose = TRUE]
  <2>1. s \in SlotState /\ lifecycle \in Nat
    BY <1>1 DEF TypeOK
  <2> HIDE DEF s
  <2>2. /\ u \in SlotState /\ u.jobs = s.jobs /\ u.events = s.events
        /\ u.generation = lifecycle + 1 /\ u.reloads = s.reloads
    BY <2>1 DEF SlotState
  <2> HIDE DEF u
  <2>3. /\ v \in SlotState /\ v.jobs = u.jobs /\ v.events = u.events
        /\ v.generation = u.generation /\ v.reloads = u.reloads
    BY <2>2 DEF SlotState
  <2> QED
    BY <2>2, <2>3 DEF s, u
<1>2. /\ PutAndRelease(cur, t) /\ lifecycle' = lifecycle + 1
      /\ evicted' = evicted \cup
           {c \in Cmd : captured[c] = slot[cur].generation /\ txn[c].phase = "none"}
      /\ UNCHANGED <<log, txn, captured, outcome, published>>
  BY <1>3 DEF Evict, storeVars
<1>4. SlotInv(t)'
  BY <1>1, <1>2, <1>3 DEF SlotInv, JobShape, JobTruth, HeadTruth, Current
<1>5. /\ slot' \in [Slot -> SlotState] /\ cur' \in Slot \cup {NoSlot}
      /\ Exclusive' /\ \A n \in Slot : SlotInv(slot[n])'
      /\ cur' # NoSlot => slot'[cur'].generation = lifecycle + 1
  <2>1. log' \in Seq(Event)
    BY <1>1, <1>2 DEF TypeOK
  <2>2. CASE slot' = [slot EXCEPT ![cur] = t] /\ cur' = cur
    BY <1>1, <1>3, <1>4, <2>1, <2>2, OneSlot
  <2>3. CASE slot' = [slot EXCEPT ![cur] = Unused] /\ cur' = NoSlot
    BY <1>1, <2>1, <2>3, OneSlot, UnusedFacts, UnusedIsSound
  <2> QED
    BY <1>2, <2>2, <2>3, ReleaseCases
<1>6. TypeOK'
  BY <1>1, <1>2, <1>5 DEF TypeOK
<1>7. LifecycleInv'
  <2>1. /\ lifecycle \in Nat /\ captured \in [Cmd -> Nat] /\ evicted \subseteq Cmd
        /\ slot[cur].generation \in 1..lifecycle
    BY <1>1 DEF LifecycleInv, TypeOK, Assumptions
  <2>2. \A c \in Cmd : captured[c] <= lifecycle /\ (c \in Creation => captured[c] = 0)
    BY <1>1 DEF LifecycleInv
  <2>3. \A c \in evicted' : c \in Cmd /\ captured[c] # 0 /\ txn[c].phase = "none"
    BY <1>1, <1>2, <2>1 DEF LifecycleInv
  <2> QED
    BY <1>2, <1>5, <2>1, <2>2, <2>3 DEF LifecycleInv
<1>8. StoreInv' /\ AnswersInv' /\ BroadcastInv'
  BY <1>2 DEF IInv, StoreInv, AnswersInv, BroadcastInv, PublishedIsDurable
<1> QED
  BY <1>2, <1>5, <1>6, <1>7, <1>8 DEF IInv, Promised

-----------------------------------------------------------------------------
(* The head of a queue. *)

LEMMA HeadFacts ==
  ASSUME Assumptions, IInv, NEW k \in Slot, slot[k].jobs # <<>>
  PROVE  /\ k = cur /\ slot[k] \in SlotState /\ SlotInv(slot[k])
         /\ Head1(k) = slot[k].jobs[1] /\ Head1(k) \in Job
         /\ JobShape(slot[k], 1) /\ JobTruth(Head1(k)) /\ HeadTruth(slot[k])
         /\ Head1(k).kind \in {"apply", "create"} => Head1(k).cmd \in Cmd /\ Head1(k).cmd # NoCmd
         /\ Head1(k).kind \in {"load", "reload"} => Head1(k).cmd = NoCmd
<1>1. k = cur /\ slot[k] \in SlotState /\ SlotInv(slot[k])
  BY WorkIsCurrent DEF IInv, TypeOK
<1>2. 1 \in DOMAIN slot[k].jobs /\ slot[k].jobs[1] \in Job
  BY <1>1, HeadLeft
<1>3. JobShape(slot[k], 1) /\ JobTruth(slot[k].jobs[1]) /\ HeadTruth(slot[k])
  BY <1>1, <1>2 DEF SlotInv
<1>4. slot[k].jobs[1].kind \in {"apply", "create"} => slot[k].jobs[1].cmd # NoCmd
  BY <1>3 DEF JobShape
<1>5. slot[k].jobs[1].kind \in {"load", "reload"} => slot[k].jobs[1].cmd = NoCmd
  BY <1>3 DEF JobShape
<1> QED
  BY <1>1, <1>2, <1>3, <1>4, <1>5 DEF Head1, Job

(* A job that confirms nothing settles over a copy that was good before.   *)
LEMMA SettleQuietly ==
  ASSUME Assumptions, IInv, NEW k \in Slot, slot[k].jobs # <<>>,
         NEW s \in SlotState, s.jobs = slot[k].jobs, s.generation = slot[k].generation,
         NEW answer \in {"unchanged", "unknown"}, Settle(k, s, answer),
         UNCHANGED <<log, txn, lifecycle, captured, published, evicted>>,
         IsPrefix(s.events, log), s.events # <<>> => Current(s.events),
         s.jobs[1].cmd # NoCmd /\ answer = "unchanged"
           => txn[s.jobs[1].cmd].phase \in {"none", "rejected"},
         s.reloads = slot[k].reloads - (IF s.jobs[1].kind = "reload" THEN 1 ELSE 0)
  PROVE  IInv' /\ Promised
<1>1. TypeOK /\ BroadcastInv
  BY DEF IInv
<1>2. \A c \in Cmd : outcome'[c] = "confirmed" => outcome[c] = "confirmed"
  BY <1>1 DEF Settle, Answer, TypeOK
<1>3. s.events # <<>> => Current(s.events)'
  BY <1>2 DEF Current
<1>4. published' \in Seq([revision : Nat, cmd : Cmd]) /\ BroadcastInv'
  BY <1>1 DEF TypeOK, BroadcastInv, PublishedIsDurable
<1> QED
  BY <1>3, <1>4, SettleKeeps

(* Refresh as a change of the copy, to r, and of its head, to i.           *)
Refreshes(s, j, phase, r, i) ==
  /\ r.jobs = s.jobs /\ r.events = s.events
  /\ r.generation = s.generation /\ r.reloads = s.reloads
  /\ i.cmd = j.cmd /\ i.kind = j.kind /\ i.phase = phase /\ i.taken = j.taken
  /\ i.cancelled = j.cancelled /\ i.timedOut = j.timedOut /\ i.failure = j.failure
  /\ Refresh(Goto(s, j), phase) = Goto(r, i)

LEMMA RefreshForm ==
  ASSUME NEW s \in SlotState, s.jobs # <<>>, NEW j \in Job,
         NEW phase \in {"refresh", "reconcile"}
  PROVE  \E r \in SlotState, i \in Job : Refreshes(s, j, phase, r, i)
<1> DEFINE r == [s EXCEPT !.stale = s.events # <<>>]
           i == [j EXCEPT !.phase = phase, !.generation = s.generation]
           t == Goto(s, j)
<1>1. /\ r \in SlotState /\ r.jobs = s.jobs /\ r.events = s.events
      /\ r.generation = s.generation /\ r.reloads = s.reloads
  BY DEF SlotState
<1>2. s.generation \in Nat
  BY DEF SlotState
<1>3. /\ i \in Job
      /\ i.cmd = j.cmd /\ i.kind = j.kind /\ i.phase = phase /\ i.taken = j.taken
      /\ i.cancelled = j.cancelled /\ i.timedOut = j.timedOut /\ i.failure = j.failure
  BY <1>2 DEF Job
<1>4. t \in SlotState /\ t.jobs[1] = j /\ t = [s EXCEPT !.jobs = t.jobs]
  BY HeadReplaced
<1>5. t.generation = s.generation /\ t.events = s.events /\ t.jobs = [s.jobs EXCEPT ![1] = j]
  BY <1>4 DEF SlotState, Goto
<1>6. Refresh(t, phase) = [Goto(t, i) EXCEPT !.stale = s.events # <<>>]
  BY <1>4, <1>5 DEF Refresh, Goto
<1>7. [t.jobs EXCEPT ![1] = i] = [s.jobs EXCEPT ![1] = i]
  BY <1>5
<1>8. Goto(t, i) = [s EXCEPT !.jobs = [s.jobs EXCEPT ![1] = i]]
  <2>1. Goto(t, i) = [t EXCEPT !.jobs = [t.jobs EXCEPT ![1] = i]]
    BY DEF Goto
  <2> QED
    BY <1>4, <1>7, <2>1 DEF SlotState
<1>9. Goto(r, i) = [r EXCEPT !.jobs = [s.jobs EXCEPT ![1] = i]]
  BY <1>1 DEF Goto
<1>10. [[s EXCEPT !.jobs = [s.jobs EXCEPT ![1] = i]] EXCEPT !.stale = s.events # <<>>]
         = [r EXCEPT !.jobs = [s.jobs EXCEPT ![1] = i]]
  BY DEF SlotState
<1>11. Refreshes(s, j, phase, r, i)
  BY <1>1, <1>3, <1>6, <1>8, <1>9, <1>10 DEF Refreshes
<1> HIDE DEF r, i
<1> QED
  BY <1>1, <1>3, <1>11

LEMMA StartApplyKeeps ==
  ASSUME Assumptions, IInv, NEW k \in Slot, StartApply(k)
  PROVE  IInv' /\ Promised
<1>0. slot[k].jobs # <<>>
  BY DEF StartApply, Waits
<1>h. PICK s \in SlotState, j \in Job : s = slot[k] /\ j = Head1(k)
  BY <1>0, HeadFacts
<1>1. /\ s = slot[k] /\ j = Head1(k) /\ slot[k].jobs # <<>> /\ j.kind = "apply" /\ j.phase = "queued"
      /\ UNCHANGED <<log, txn, lifecycle, captured, published, evicted>>
  BY <1>h DEF StartApply, Waits, storeVars
<1>2. /\ s \in SlotState /\ SlotInv(s) /\ j = s.jobs[1] /\ j \in Job
      /\ JobShape(s, 1) /\ JobTruth(j) /\ HeadTruth(s) /\ j.cmd \in Cmd /\ j.cmd # NoCmd
  BY <1>1, HeadFacts
<1>3. /\ txn[j.cmd].phase = "none" /\ ~j.taken /\ s.reloads \in Nat
      /\ txn' \in [Cmd -> Txn] /\ IsPrefix(s.events, log)
      /\ s.events # <<>> => Current(s.events)
      /\ \A c \in evicted : txn'[c].phase = "none"
      /\ StoreInv /\ AnswersInv
  BY <1>1, <1>2 DEF JobTruth, JobShape, SlotInv, SlotState, IInv, TypeOK, LifecycleInv
<1>4. CASE Settle(k, s, "unchanged")
  <2>1. s.reloads = slot[k].reloads - (IF s.jobs[1].kind = "reload" THEN 1 ELSE 0)
    BY <1>1, <1>2, <1>3
  <2> QED
    BY <1>1, <1>2, <1>3, <1>4, <2>1, SettleQuietly
<1>5. CASE /\ ~j.cancelled /\ s.events # <<>> /\ UNCHANGED outcome
           /\ Put(k, IF s.stale THEN Refresh(s, "refresh")
                     ELSE Goto(s, [j EXCEPT !.phase = "admission"]))
  <2>1. StoreInv' /\ AnswersInv'
    BY <1>1, <1>3, <1>5 DEF StoreInv, AnswersInv
  <2>2. CASE s.stale
    <3>1. Goto(s, j) = s
      BY <1>2, LenProperties DEF Goto, SlotState
    <3>2. PICK r \in SlotState, i \in Job : Refreshes(s, j, "refresh", r, i)
      BY <1>1, RefreshForm
    <3>3. /\ r.jobs = s.jobs /\ r.events = s.events
          /\ r.generation = s.generation /\ r.reloads = s.reloads
          /\ i.cmd = j.cmd /\ i.kind = j.kind /\ i.phase = "refresh" /\ ~i.taken
          /\ i.cancelled = j.cancelled /\ i.timedOut = j.timedOut /\ i.failure = j.failure
          /\ Refresh(s, "refresh") = Goto(r, i)
      BY <1>3, <3>1, <3>2 DEF Refreshes
    <3>4. JobTruth(i)'
      BY <1>1, <1>2, <1>3, <1>5, <3>3 DEF JobTruth
    <3> QED
      BY <1>1, <1>2, <1>3, <1>5, <2>1, <2>2, <3>3, <3>4, HeadKeeps
  <2>3. CASE ~s.stale
    <3> DEFINE i == [j EXCEPT !.phase = "admission"]
    <3>1. /\ i \in Job /\ i.cmd = j.cmd /\ i.kind = j.kind /\ i.phase = "admission" /\ ~i.taken
          /\ i.cancelled = j.cancelled /\ i.timedOut = j.timedOut /\ i.failure = j.failure
      BY <1>2, <1>3 DEF Job
    <3>2. JobTruth(i)'
      BY <1>1, <1>2, <1>3, <1>5, <3>1 DEF JobTruth
    <3> QED
      BY <1>1, <1>2, <1>3, <1>5, <2>1, <2>3, <3>1, <3>2, HeadKeeps
  <2> QED
    BY <2>2, <2>3
<1> QED
  BY <1>1, <1>4, <1>5 DEF StartApply

(* A write opens its append: the store has not seen the command yet.       *)
LEMMA OpenKeeps ==
  ASSUME Assumptions, IInv, NEW k \in Slot, slot[k].jobs # <<>>,
         Head1(k).kind \in {"apply", "create"}, ~Head1(k).cancelled,
         Head1(k).phase \in {"queued", "admission"},
         Put(k, Goto(slot[k], [Head1(k) EXCEPT !.phase = "append"])),
         txn' = [txn EXCEPT ![Head1(k).cmd] = [phase |-> "open", head |-> Len(slot[k].events)]],
         Head1(k).cmd \in Creation <=> slot[k].events = <<>>,
         Head1(k).cmd \notin evicted,
         UNCHANGED <<log, lifecycle, captured, outcome, published, evicted>>
  PROVE  IInv' /\ Promised
<1>h. PICK s \in SlotState, j \in Job : s = slot[k] /\ j = Head1(k)
  BY HeadFacts
<1> DEFINE c == j.cmd
           i == [j EXCEPT !.phase = "append"]
<1>1. /\ s = slot[k] /\ j = Head1(k) /\ s \in SlotState /\ SlotInv(s) /\ j = s.jobs[1] /\ j \in Job
      /\ JobShape(s, 1) /\ JobTruth(j) /\ c \in Cmd /\ c # NoCmd
  BY <1>h, HeadFacts
<1>2. /\ txn[c].phase = "none" /\ ~j.taken /\ outcome[c] \in {"unknown", "waiting"}
      /\ j.failure # "rejected"
  BY <1>1 DEF JobTruth, JobShape
<1>3. /\ s.events \in Seq(Event) /\ Len(s.events) \in Nat /\ (Len(s.events) = 0 <=> s.events = <<>>)
      /\ s.reloads \in Nat /\ IsPrefix(s.events, log) /\ (s.events # <<>> => Current(s.events))
  BY <1>1, LenProperties, EmptySeq DEF SlotState, SlotInv
<1>4. /\ txn' \in [Cmd -> Txn] /\ txn'[c] = [phase |-> "open", head |-> Len(s.events)]
      /\ \A d \in Cmd : d # c => txn'[d] = txn[d]
  BY <1>1, <1>3 DEF IInv, TypeOK, Txn
<1>5. /\ i \in Job /\ i.cmd = c /\ i.kind = j.kind /\ i.phase = "append" /\ ~i.taken
      /\ i.cancelled = j.cancelled /\ i.timedOut = j.timedOut /\ i.failure = j.failure
  BY <1>1, <1>2 DEF Job
<1>6. JobTruth(i)'
  BY <1>1, <1>2, <1>4, <1>5 DEF JobTruth
<1>7. StoreInv'
  BY <1>2, <1>3, <1>4 DEF IInv, StoreInv
<1>8. AnswersInv'
  BY <1>2, <1>4 DEF IInv, AnswersInv
<1>9. \A d \in evicted : txn'[d].phase = "none"
  BY <1>4 DEF IInv, TypeOK, LifecycleInv
<1> QED
  BY <1>1, <1>3, <1>4, <1>5, <1>6, <1>7, <1>8, <1>9, HeadKeeps

LEMMA AdmitKeeps ==
  ASSUME Assumptions, IInv, NEW k \in Slot, Admit(k)
  PROVE  IInv' /\ Promised
<1>0. slot[k].jobs # <<>>
  BY DEF Admit, Waits
<1>h. PICK s \in SlotState, j \in Job : s = slot[k] /\ j = Head1(k)
  BY <1>0, HeadFacts
<1>1. /\ s = slot[k] /\ j = Head1(k) /\ slot[k].jobs # <<>> /\ j.kind = "apply" /\ j.phase = "admission"
      /\ UNCHANGED <<log, lifecycle, captured, published, evicted>>
  BY <1>h DEF Admit, Waits
<1>2. /\ s \in SlotState /\ SlotInv(s) /\ j = s.jobs[1] /\ j \in Job /\ k = cur
      /\ JobShape(s, 1) /\ JobTruth(j) /\ j.cmd \in Cmd /\ j.cmd # NoCmd
  BY <1>1, HeadFacts
<1>3. CASE Settle(k, s, "unchanged") /\ UNCHANGED txn
  <2>1. /\ txn[j.cmd].phase = "none" /\ IsPrefix(s.events, log)
        /\ (s.events # <<>> => Current(s.events)) /\ s.reloads \in Nat
    BY <1>1, <1>2 DEF JobTruth, SlotInv, SlotState
  <2>2. s.reloads = slot[k].reloads - (IF s.jobs[1].kind = "reload" THEN 1 ELSE 0)
    BY <1>1, <1>2, <2>1
  <2> QED
    BY <1>1, <1>2, <1>3, <2>1, <2>2, SettleQuietly
<1>4. CASE /\ AdmissionHolds(k)
           /\ Put(k, Goto(s, [j EXCEPT !.phase = "append"]))
           /\ txn' = [txn EXCEPT ![j.cmd] = [phase |-> "open", head |-> Len(s.events)]]
           /\ UNCHANGED outcome
  <2>1. j.cmd \notin Creation /\ s.events # <<>> /\ ~j.cancelled
    BY <1>1, <1>2, <1>4 DEF JobShape, JobTruth, AdmissionHolds
  <2>2. j.cmd \notin evicted
    BY <1>1, <1>2, <1>4 DEF AdmissionHolds, LifecycleHolds, IsLifecycleCurrent, IInv, LifecycleInv
  <2> QED
    BY <1>1, <1>4, <2>1, <2>2, OpenKeeps
<1> QED
  BY <1>1, <1>3, <1>4 DEF Admit

LEMMA StartCreateKeeps ==
  ASSUME Assumptions, IInv, NEW k \in Slot, StartCreate(k)
  PROVE  IInv' /\ Promised
<1>0. slot[k].jobs # <<>>
  BY DEF StartCreate, Waits
<1>h. PICK s \in SlotState, j \in Job : s = slot[k] /\ j = Head1(k)
  BY <1>0, HeadFacts
<1>1. /\ s = slot[k] /\ j = Head1(k) /\ slot[k].jobs # <<>> /\ j.kind = "create" /\ j.phase = "queued"
      /\ UNCHANGED <<log, lifecycle, captured, published, evicted>>
  BY <1>h DEF StartCreate, Waits
<1>2. /\ s \in SlotState /\ SlotInv(s) /\ j = s.jobs[1] /\ j \in Job
      /\ JobShape(s, 1) /\ JobTruth(j) /\ j.cmd \in Cmd /\ j.cmd # NoCmd
  BY <1>1, HeadFacts
<1>3. CASE Settle(k, s, "unchanged") /\ UNCHANGED txn
  <2>1. /\ txn[j.cmd].phase = "none" /\ IsPrefix(s.events, log)
        /\ (s.events # <<>> => Current(s.events)) /\ s.reloads \in Nat
    BY <1>1, <1>2 DEF JobTruth, SlotInv, SlotState
  <2>2. s.reloads = slot[k].reloads - (IF s.jobs[1].kind = "reload" THEN 1 ELSE 0)
    BY <1>1, <1>2, <2>1
  <2> QED
    BY <1>1, <1>2, <1>3, <2>1, <2>2, SettleQuietly
<1>4. CASE /\ ~j.cancelled /\ s.events = <<>>
           /\ Put(k, Goto(s, [j EXCEPT !.phase = "append"]))
           /\ txn' = [txn EXCEPT ![j.cmd] = [phase |-> "open", head |-> 0]]
           /\ UNCHANGED outcome
  <2>1. j.cmd \in Creation /\ Len(s.events) = 0
    BY <1>1, <1>2, <1>4, EmptySeq DEF JobShape
  <2>2. j.cmd \notin evicted
    BY <1>2, <2>1 DEF IInv, LifecycleInv
  <2> QED
    BY <1>1, <1>4, <2>1, <2>2, OpenKeeps
<1> QED
  BY <1>1, <1>3, <1>4 DEF StartCreate

\* The copy without the reload its head stands for.
LEMMA PaidReload ==
  ASSUME Assumptions, IInv, NEW k \in Slot, slot[k].jobs # <<>>,
         NEW s \in SlotState, s.jobs = slot[k].jobs, s.reloads = slot[k].reloads
  PROVE  /\ PayReload(s) \in SlotState
         /\ PayReload(s).jobs = s.jobs /\ PayReload(s).events = s.events
         /\ PayReload(s).generation = s.generation
         /\ PayReload(s).reloads
              = slot[k].reloads - (IF s.jobs[1].kind = "reload" THEN 1 ELSE 0)
<1>1. slot[k] \in SlotState /\ slot[k].reloads = Reloads(slot[k].jobs)
  BY HeadFacts DEF SlotInv
<1>2. s.jobs[1].kind = "reload" => s.reloads - 1 \in Nat
  BY <1>1, ReloadsOfTail
<1>3. CASE s.jobs[1].kind = "reload"
  BY <1>2, <1>3 DEF PayReload, SlotState
<1>4. CASE s.jobs[1].kind # "reload"
  BY <1>1, <1>4 DEF PayReload, SlotState
<1> QED
  BY <1>3, <1>4

LEMMA StartLoadKeeps ==
  ASSUME Assumptions, IInv, NEW k \in Slot, StartLoad(k)
  PROVE  IInv' /\ Promised
<1>0. slot[k].jobs # <<>>
  BY DEF StartLoad, Waits
<1>h. PICK s \in SlotState, j \in Job : s = slot[k] /\ j = Head1(k)
  BY <1>0, HeadFacts
<1>1. /\ s = slot[k] /\ j = Head1(k) /\ slot[k].jobs # <<>> /\ j.kind \in {"load", "reload"} /\ j.phase = "queued"
      /\ UNCHANGED <<log, txn, lifecycle, captured, published, evicted>>
  BY <1>h DEF StartLoad, Waits, storeVars
<1>2. /\ s \in SlotState /\ SlotInv(s) /\ j = s.jobs[1] /\ j \in Job
      /\ JobShape(s, 1) /\ j.cmd = NoCmd
  BY <1>1, HeadFacts
<1>3. /\ IsPrefix(s.events, log) /\ (s.events # <<>> => Current(s.events))
      /\ ~j.taken /\ txn' \in [Cmd -> Txn]
      /\ \A c \in evicted : txn'[c].phase = "none"
      /\ StoreInv /\ AnswersInv
  BY <1>1, <1>2 DEF JobShape, SlotInv, IInv, TypeOK, LifecycleInv
<1>4. CASE Settle(k, PayReload(s), "unchanged")
  BY <1>1, <1>2, <1>3, <1>4, PaidReload, SettleQuietly
<1>5. CASE Put(k, Refresh(s, "refresh")) /\ UNCHANGED outcome
  <2>1. Goto(s, j) = s
    BY <1>2, LenProperties DEF Goto, SlotState
  <2>2. PICK r \in SlotState, i \in Job : Refreshes(s, j, "refresh", r, i)
    BY <1>1, RefreshForm
  <2>3. /\ r.jobs = s.jobs /\ r.events = s.events
        /\ r.generation = s.generation /\ r.reloads = s.reloads
        /\ i.cmd = NoCmd /\ i.kind = j.kind /\ i.phase = "refresh" /\ ~i.taken
        /\ Refresh(s, "refresh") = Goto(r, i)
    BY <1>2, <1>3, <2>1, <2>2 DEF Refreshes
  <2>4. JobTruth(i)'
    BY <2>3 DEF JobTruth
  <2>5. StoreInv' /\ AnswersInv'
    BY <1>1, <1>3, <1>5 DEF StoreInv, AnswersInv
  <2> QED
    BY <1>1, <1>2, <1>3, <1>5, <2>3, <2>4, <2>5, HeadKeeps
<1> QED
  BY <1>1, <1>4, <1>5 DEF StartLoad

\* What installing a read makes of a copy.
LEMMA InstalledForm ==
  ASSUME NEW s \in SlotState, NEW j \in Job, NEW revive \in BOOLEAN
  PROVE  /\ Installed(s, j, revive) \in SlotState
         /\ Installed(s, j, revive).events = j.snapshot
         /\ Installed(s, j, revive).jobs = s.jobs
         /\ Installed(s, j, revive).generation = s.generation
         /\ Installed(s, j, revive).reloads = s.reloads
<1> DEFINE u == [s EXCEPT !.events = j.snapshot]
           v == [u EXCEPT !.stale = FALSE]
           w == [v EXCEPT !.dispose = s.dispose /\ ~(revive /\ j.snapshot # <<>>)]
<1>1. j.snapshot \in Seq(Event)
  BY DEF Job
<1>2. /\ u \in SlotState /\ u.events = j.snapshot /\ u.jobs = s.jobs
      /\ u.generation = s.generation /\ u.reloads = s.reloads /\ u.dispose = s.dispose
  BY <1>1 DEF SlotState
<1> HIDE DEF u
<1>3. /\ v \in SlotState /\ v.events = u.events /\ v.jobs = u.jobs
      /\ v.generation = u.generation /\ v.reloads = u.reloads /\ v.dispose = u.dispose
  BY <1>2 DEF SlotState
<1> HIDE DEF v
<1>4. /\ w \in SlotState /\ w.events = v.events /\ w.jobs = v.jobs
      /\ w.generation = v.generation /\ w.reloads = v.reloads
  BY <1>3 DEF SlotState
<1>5. Installed(s, j, revive) = w
  BY <1>2, <1>3 DEF Installed, u, v
<1> HIDE DEF w
<1> QED
  BY <1>2, <1>3, <1>4, <1>5

LEMMA LoadReplyKeeps ==
  ASSUME Assumptions, IInv, NEW k \in Slot, LoadReply(k)
  PROVE  IInv' /\ Promised
<1>0. slot[k].jobs # <<>>
  BY DEF LoadReply, Waits
<1>h. PICK o \in SlotState, j \in Job : o = slot[k] /\ j = Head1(k)
  BY <1>0, HeadFacts
<1>i. PICK s \in SlotState : s = IF Installs(k, j) THEN Installed(o, j, TRUE) ELSE o
  BY InstalledForm
<1>1. /\ o = slot[k] /\ j = Head1(k) /\ slot[k].jobs # <<>> /\ j.kind \in {"load", "reload"} /\ j.taken
      /\ Settle(k, PayReload(s), "unchanged")
      /\ UNCHANGED <<log, txn, lifecycle, captured, published, evicted>>
  BY <1>h, <1>i DEF LoadReply, Waits, storeVars
<1>2. /\ slot[k] \in SlotState /\ SlotInv(slot[k]) /\ j = slot[k].jobs[1] /\ j \in Job
      /\ HeadTruth(slot[k]) /\ j.cmd = NoCmd
  BY <1>1, HeadFacts
<1>3. /\ s \in SlotState /\ s.jobs = slot[k].jobs /\ s.reloads = slot[k].reloads
      /\ s.generation = slot[k].generation
      /\ s.events = j.snapshot \/ s.events = slot[k].events
  BY <1>h, <1>i, <1>2, InstalledForm
<1>4. IsPrefix(s.events, log) /\ (s.events # <<>> => Current(s.events))
  BY <1>1, <1>2, <1>3 DEF HeadTruth, SlotInv
<1>5. /\ PayReload(s) \in SlotState
      /\ PayReload(s).jobs = slot[k].jobs /\ PayReload(s).events = s.events
      /\ PayReload(s).generation = slot[k].generation
      /\ PayReload(s).reloads
           = slot[k].reloads - (IF PayReload(s).jobs[1].kind = "reload" THEN 1 ELSE 0)
  BY <1>1, <1>3, PaidReload
<1> QED
  BY <1>1, <1>2, <1>4, <1>5, SettleQuietly

LEMMA RefreshReplyKeeps ==
  ASSUME Assumptions, IInv, NEW k \in Slot, RefreshReply(k)
  PROVE  IInv' /\ Promised
<1>0. slot[k].jobs # <<>>
  BY DEF RefreshReply, Waits
<1>h. PICK o \in SlotState, j \in Job : o = slot[k] /\ j = Head1(k)
  BY <1>0, HeadFacts
<1>i. PICK s \in SlotState : s = IF Installs(k, j) THEN Installed(o, j, FALSE) ELSE o
  BY InstalledForm
<1> DEFINE i == [j EXCEPT !.phase = "admission", !.taken = FALSE, !.snapshot = <<>>]
<1>1. /\ o = slot[k] /\ j = Head1(k) /\ slot[k].jobs # <<>> /\ j.kind = "apply" /\ j.phase = "refresh" /\ j.taken
      /\ UNCHANGED <<log, txn, lifecycle, captured, published, evicted>>
  BY <1>h DEF RefreshReply, Waits, storeVars
<1>2. /\ slot[k] \in SlotState /\ SlotInv(slot[k]) /\ j = slot[k].jobs[1] /\ j \in Job
      /\ HeadTruth(slot[k]) /\ JobTruth(j) /\ j.cmd \in Cmd /\ j.cmd # NoCmd
  BY <1>1, HeadFacts
<1>3. /\ s \in SlotState /\ s.jobs = slot[k].jobs /\ s.reloads = slot[k].reloads
      /\ s.generation = slot[k].generation /\ s.reloads \in Nat
      /\ s.events = j.snapshot \/ s.events = slot[k].events
  <2>1. /\ s.jobs = o.jobs /\ s.reloads = o.reloads /\ s.generation = o.generation
        /\ s.events = j.snapshot \/ s.events = o.events
    BY <1>i, InstalledForm
  <2>2. s.reloads \in Nat
    BY DEF SlotState
  <2> QED
    BY <1>h, <2>1, <2>2
<1>4. /\ IsPrefix(s.events, log) /\ (s.events # <<>> => Current(s.events))
      /\ txn[j.cmd].phase = "none" /\ ~j.cancelled
  BY <1>1, <1>2, <1>3 DEF HeadTruth, SlotInv, JobTruth
<1>5. CASE Settle(k, s, "unchanged")
  <2>1. s.reloads = slot[k].reloads - (IF s.jobs[1].kind = "reload" THEN 1 ELSE 0)
    BY <1>1, <1>2, <1>3
  <2> QED
    BY <1>1, <1>2, <1>3, <1>4, <1>5, <2>1, SettleQuietly
<1>6. CASE Put(k, Goto(s, i)) /\ UNCHANGED outcome
  <2>1. /\ i \in Job /\ i.cmd = j.cmd /\ i.kind = j.kind /\ i.phase = "admission" /\ ~i.taken
        /\ i.cancelled = j.cancelled /\ i.timedOut = j.timedOut /\ i.failure = j.failure
    BY <1>2, EmptySeq DEF Job
  <2>2. JobTruth(i)'
    BY <1>1, <1>2, <1>4, <1>6, <2>1 DEF JobTruth
  <2>3. /\ txn' \in [Cmd -> Txn] /\ \A c \in evicted : txn'[c].phase = "none"
        /\ StoreInv' /\ AnswersInv'
    BY <1>1, <1>6 DEF IInv, TypeOK, LifecycleInv, StoreInv, AnswersInv
  <2> HIDE DEF i
  <2> QED
    BY <1>1, <1>2, <1>3, <1>4, <1>6, <2>1, <2>2, <2>3, HeadKeeps
<1> QED
  BY <1>1, <1>i, <1>5, <1>6 DEF RefreshReply

LEMMA ReadFailsKeeps ==
  ASSUME Assumptions, IInv, NEW k \in Slot, ReadFails(k)
  PROVE  IInv' /\ Promised
<1>1. /\ slot[k].jobs # <<>> /\ Head1(k).phase = "refresh"
      /\ Settle(k, PayReload(slot[k]), "unchanged")
      /\ UNCHANGED <<log, txn, lifecycle, captured, published, evicted>>
  BY DEF ReadFails, Waits, storeVars
<1>2. /\ slot[k] \in SlotState /\ SlotInv(slot[k]) /\ Head1(k) = slot[k].jobs[1]
      /\ JobTruth(Head1(k))
  BY <1>1, HeadFacts
<1>3. /\ IsPrefix(slot[k].events, log) /\ (slot[k].events # <<>> => Current(slot[k].events))
      /\ Head1(k).cmd # NoCmd => txn[Head1(k).cmd].phase = "none"
  BY <1>1, <1>2 DEF SlotInv, JobTruth
<1> QED
  BY <1>1, <1>2, <1>3, PaidReload, SettleQuietly

-----------------------------------------------------------------------------
(* Durable writes. *)

LEMMA LiftedForm ==
  ASSUME NEW s \in SlotState, NEW j \in Job
  PROVE  /\ Lifted(s, j) \in SlotState
         /\ Lifted(s, j).events = s.events /\ Lifted(s, j).jobs = s.jobs
         /\ Lifted(s, j).generation = s.generation /\ Lifted(s, j).reloads = s.reloads
BY DEF Lifted, SlotState

LEMMA AppendOkKeeps ==
  ASSUME Assumptions, IInv, NEW k \in Slot, AppendOk(k)
  PROVE  IInv' /\ Promised
<1>0. slot[k].jobs # <<>>
  BY DEF AppendOk, Waits
<1>h. PICK s \in SlotState, j \in Job : s = slot[k] /\ j = Head1(k)
  BY <1>0, HeadFacts
<1> DEFINE c == j.cmd
           ev == Append(s.events, c)
<1>1. /\ s = slot[k] /\ j = Head1(k) /\ slot[k].jobs # <<>> /\ j.kind \in {"apply", "create"} /\ j.phase = "append"
      /\ txn[c].phase = "committed"
      /\ UNCHANGED <<log, txn, lifecycle, captured, evicted>>
  BY <1>h DEF AppendOk, Waits, storeVars
<1>2. /\ s \in SlotState /\ SlotInv(s) /\ j = s.jobs[1] /\ j \in Job
      /\ JobShape(s, 1) /\ JobTruth(j) /\ HeadTruth(s) /\ c \in Cmd /\ c # NoCmd
  BY <1>1, HeadFacts
<1>3. /\ s.events \in Seq(Event) /\ IsPrefix(s.events, log) /\ log \in Seq(Event)
      /\ Len(s.events) = txn[c].head /\ Current(s.events) /\ s.reloads \in Nat
      /\ Len(s.events) < Len(log) /\ log[Len(s.events) + 1] = c
      /\ c \in Creation <=> Len(s.events) = 0
      /\ outcome \in [Cmd -> Outcomes]
      /\ published \in Seq([revision : Nat, cmd : Cmd]) /\ BroadcastInv
  <2>1. s.events \in Seq(Event) /\ s.reloads \in Nat
    BY DEF SlotState
  <2>2. /\ log \in Seq(Event) /\ outcome \in [Cmd -> Outcomes]
        /\ published \in Seq([revision : Nat, cmd : Cmd]) /\ BroadcastInv
    BY DEF IInv, TypeOK
  <2>3. IsPrefix(s.events, log)
    BY <1>2 DEF SlotInv
  <2>4. Len(s.events) = txn[c].head /\ Current(s.events)
    BY <1>1, <1>2 DEF HeadTruth
  <2>5. /\ txn[c].head < Len(log) /\ log[txn[c].head + 1] = c
        /\ c \in Creation <=> txn[c].head = 0
    BY <1>1, <1>2 DEF IInv, StoreInv
  <2> QED
    BY <2>1, <2>2, <2>3, <2>4, <2>5
<1>4. /\ ev \in Seq(Event) /\ Len(ev) = Len(s.events) + 1 /\ Len(s.events) \in Nat
      /\ ToSet(ev) = ToSet(s.events) \cup {c}
      /\ IsPrefix(ev, log)
  BY <1>2, <1>3, AppendProperties, LenProperties, RangeOfAppend, PrefixExtends DEF Event
<1>5. /\ Lifted(s, j) \in SlotState
      /\ Lifted(s, j).events = s.events /\ Lifted(s, j).jobs = s.jobs
      /\ Lifted(s, j).generation = s.generation /\ Lifted(s, j).reloads = s.reloads
  BY <1>2, LiftedForm
<1>6. ASSUME NEW d \in Cmd, outcome'[d] = "confirmed",
             outcome' = [outcome EXCEPT ![c] = IF @ = "waiting" THEN "confirmed" ELSE @]
      PROVE  d \in ToSet(ev)
  BY <1>2, <1>3, <1>4, <1>6 DEF Current
<1>7. CASE j.kind = "create"
  <2> DEFINE t == [Lifted(s, j) EXCEPT !.events = <<c>>, !.stale = FALSE, !.dispose = FALSE]
  <2>1. s.events = <<>> /\ ev = <<c>>
    <3>1. c \in Creation
      BY <1>2, <1>7 DEF JobShape
    <3>2. s.events = <<>>
      BY <1>3, <3>1, EmptySeq
    <3> QED
      BY <3>2
  <2>2. /\ t \in SlotState /\ t.events = ev /\ t.jobs = s.jobs
        /\ t.generation = s.generation /\ t.reloads = s.reloads
    BY <1>4, <1>5, <2>1 DEF SlotState
  <2>3. Settle(k, t, "confirmed") /\ UNCHANGED published
    BY <1>1, <1>7 DEF AppendOk
  <2>4. outcome' = [outcome EXCEPT ![c] = IF @ = "waiting" THEN "confirmed" ELSE @]
    BY <1>2, <2>2, <2>3 DEF Settle, Answer
  <2>5. Current(ev)'
    <3>1. \A n \in DOMAIN published : published[n].revision <= Len(ev)
      <4>1. ASSUME NEW n \in DOMAIN published PROVE published[n].revision <= Len(ev)
        <5>1. published[n].revision <= Len(s.events)
          BY <1>3 DEF Current
        <5>2. published[n].revision \in Nat
          <6>1. published[n] \in [revision : Nat, cmd : Cmd]
            BY <1>3, LenProperties, ElementOfSeq
          <6> QED
            BY <6>1
        <5> QED
          BY <1>4, <5>1, <5>2
      <4> QED
        BY <4>1
    <3> QED
      BY <1>6, <2>3, <2>4, <3>1 DEF Current
  <2>6. published' \in Seq([revision : Nat, cmd : Cmd]) /\ BroadcastInv'
    BY <1>1, <1>3, <2>3 DEF BroadcastInv, PublishedIsDurable
  <2>7. t.reloads = slot[k].reloads - (IF t.jobs[1].kind = "reload" THEN 1 ELSE 0)
    BY <1>1, <1>2, <1>3, <1>7, <2>2
  <2> HIDE DEF t
  <2> QED
    BY <1>1, <1>2, <1>4, <2>2, <2>3, <2>5, <2>6, <2>7, SettleKeeps
<1>8. CASE j.kind = "apply"
  <2> DEFINE t == [Lifted(s, j) EXCEPT !.events = ev,
                                       !.stale = Lifted(s, j).stale /\ ~j.timedOut]
             b == [revision |-> Len(s.events) + 1, cmd |-> c]
  <2>1. /\ t \in SlotState /\ t.events = ev /\ t.jobs = s.jobs
        /\ t.generation = s.generation /\ t.reloads = s.reloads
    BY <1>4, <1>5 DEF SlotState
  <2>2. Settle(k, t, "confirmed") /\ published' = Append(published, b)
    BY <1>1, <1>2, <1>5, <1>8 DEF AppendOk, Broadcast
  <2>3. outcome' = [outcome EXCEPT ![c] = IF @ = "waiting" THEN "confirmed" ELSE @]
    BY <1>2, <2>1, <2>2 DEF Settle, Answer
  <2>4. /\ b \in [revision : Nat, cmd : Cmd] /\ Len(published) \in Nat
        /\ DOMAIN published = 1..Len(published)
        /\ published' \in Seq([revision : Nat, cmd : Cmd])
        /\ DOMAIN published' = 1..(Len(published) + 1)
        /\ \A n \in 1..Len(published) : published'[n] = published[n]
        /\ published'[Len(published) + 1] = b
    <3>1. b \in [revision : Nat, cmd : Cmd]
      BY <1>2, <1>4
    <3> QED
      BY <1>3, <2>2, <3>1, AppendProperties, LenProperties
  <2>5. \A n \in 1..Len(published) :
          /\ published[n].revision \in Nat \ {0} /\ published[n].revision <= Len(s.events)
          /\ published[n].revision <= Len(log)
          /\ log[published[n].revision] = published[n].cmd
    <3>1. ASSUME NEW n \in 1..Len(published)
          PROVE  /\ published[n].revision \in Nat \ {0} /\ published[n].revision <= Len(s.events)
                 /\ published[n].revision <= Len(log)
                 /\ log[published[n].revision] = published[n].cmd
      <4>1. published[n].revision \in Nat
        <5>1. published[n] \in [revision : Nat, cmd : Cmd]
          BY <1>3, <2>4, ElementOfSeq
        <5> QED
          BY <5>1
      <4>2. n \in DOMAIN published
        BY <2>4
      <4>3. published[n].revision <= Len(s.events)
        BY <1>3, <4>2 DEF Current
      <4>4. /\ published[n].revision > 0 /\ published[n].revision <= Len(log)
            /\ log[published[n].revision] = published[n].cmd
        BY <1>3, <4>2 DEF BroadcastInv, PublishedIsDurable
      <4> QED
        BY <4>1, <4>3, <4>4
    <3> QED
      BY <3>1
  <2>6. Current(ev)'
    <3>1. \A n \in DOMAIN published' : published'[n].revision <= Len(ev)
      BY <1>4, <2>4, <2>5
    <3> QED
      BY <1>6, <2>3, <3>1 DEF Current
  <2>7. BroadcastInv'
    <3>1. ASSUME NEW n \in DOMAIN published'
          PROVE  /\ published'[n].revision > 0 /\ published'[n].revision <= Len(log)
                 /\ log[published'[n].revision] = published'[n].cmd
      <4>1. CASE n = Len(published) + 1
        <5>1. Len(log) \in Nat
          BY <1>3, LenProperties
        <5> QED
          BY <1>3, <1>4, <2>4, <4>1, <5>1
      <4>2. CASE n \in 1..Len(published)
        BY <2>4, <2>5, <4>2
      <4> QED
        BY <2>4, <4>1, <4>2
    <3>2. ASSUME NEW m \in DOMAIN published', NEW n \in DOMAIN published', m < n
          PROVE  published'[m].revision < published'[n].revision
      <4>1. m \in 1..Len(published) /\ published'[m] = published[m]
        BY <2>4, <3>2
      <4>2. CASE n = Len(published) + 1
        BY <1>4, <2>4, <2>5, <4>1, <4>2
      <4>3. CASE n \in 1..Len(published)
        BY <1>3, <2>4, <3>2, <4>1, <4>3 DEF BroadcastInv, PublishedIsDurable
      <4> QED
        BY <2>4, <4>2, <4>3
    <3> QED
      BY <1>1, <3>1, <3>2 DEF BroadcastInv, PublishedIsDurable
  <2>8. t.reloads = slot[k].reloads - (IF t.jobs[1].kind = "reload" THEN 1 ELSE 0)
    BY <1>1, <1>2, <1>3, <1>8, <2>1
  <2>9. published' \in Seq([revision : Nat, cmd : Cmd])
    BY <2>4
  <2> HIDE DEF t, ev, b
  <2> QED
    BY <1>1, <1>2, <1>4, <2>1, <2>2, <2>6, <2>7, <2>8, <2>9, SettleKeeps
<1> QED
  BY <1>1, <1>7, <1>8

LEMMA AppendFailsKeeps ==
  ASSUME Assumptions, IInv, NEW k \in Slot, AppendFails(k)
  PROVE  IInv' /\ Promised
<1>0. slot[k].jobs # <<>>
  BY DEF AppendFails, Waits
<1>h. PICK s \in SlotState, j \in Job : s = slot[k] /\ j = Head1(k)
  BY <1>0, HeadFacts
<1> DEFINE c == j.cmd
<1>1. /\ s = slot[k] /\ j = Head1(k) /\ slot[k].jobs # <<>> /\ j.kind \in {"apply", "create"} /\ j.phase = "append"
      /\ UNCHANGED <<log, txn, lifecycle, captured, published, evicted>>
  BY <1>h DEF AppendFails, Waits, storeVars
<1>2. PICK failure \in {"rejected", "error"} :
        /\ failure = "rejected" => txn[c].phase = "rejected"
        /\ IF j.kind = "create"
           THEN Settle(k, Lifted(s, j), FailureAnswer(failure))
           ELSE /\ Put(k, Refresh(Goto(s, [j EXCEPT !.failure = failure]), "reconcile"))
                /\ UNCHANGED outcome
  BY <1>1 DEF AppendFails
<1>3. /\ s \in SlotState /\ SlotInv(s) /\ j = s.jobs[1] /\ j \in Job
      /\ JobShape(s, 1) /\ JobTruth(j) /\ HeadTruth(s) /\ c \in Cmd /\ c # NoCmd
  BY <1>1, HeadFacts
<1>4. /\ IsPrefix(s.events, log) /\ (s.events # <<>> => Current(s.events)) /\ s.reloads \in Nat
      /\ ~j.taken /\ txn[c].phase # "none" /\ ~j.cancelled
  BY <1>1, <1>3 DEF SlotInv, SlotState, JobShape, JobTruth
<1>5. CASE j.kind = "create"
  <2>1. /\ Lifted(s, j) \in SlotState
        /\ Lifted(s, j).events = s.events /\ Lifted(s, j).jobs = s.jobs
        /\ Lifted(s, j).generation = s.generation /\ Lifted(s, j).reloads = s.reloads
    BY <1>3, LiftedForm
  <2>2. /\ FailureAnswer(failure) \in {"unchanged", "unknown"}
        /\ FailureAnswer(failure) = "unchanged" => txn[c].phase = "rejected"
    BY <1>2 DEF FailureAnswer
  <2>3. Lifted(s, j).reloads
          = slot[k].reloads - (IF Lifted(s, j).jobs[1].kind = "reload" THEN 1 ELSE 0)
    BY <1>1, <1>3, <1>4, <1>5, <2>1
  <2> QED
    BY <1>1, <1>2, <1>3, <1>4, <1>5, <2>1, <2>2, <2>3, SettleQuietly
<1>6. CASE j.kind = "apply"
  <2> DEFINE f == [j EXCEPT !.failure = failure]
  <2>1. /\ f \in Job /\ f.cmd = c /\ f.kind = j.kind /\ ~f.taken
        /\ f.cancelled = j.cancelled /\ f.timedOut = j.timedOut /\ f.failure = failure
    BY <1>3, <1>4 DEF Job
  <2> HIDE DEF f
  <2>2. PICK r \in SlotState, i \in Job : Refreshes(s, f, "reconcile", r, i)
    BY <1>1, <2>1, RefreshForm
  <2>3. /\ r.jobs = s.jobs /\ r.events = s.events
        /\ r.generation = s.generation /\ r.reloads = s.reloads
        /\ i.cmd = c /\ i.kind = j.kind /\ i.phase = "reconcile" /\ ~i.taken
        /\ i.cancelled = j.cancelled /\ i.timedOut = j.timedOut /\ i.failure = failure
        /\ Refresh(Goto(s, f), "reconcile") = Goto(r, i)
    BY <2>1, <2>2 DEF Refreshes
  <2>4. UNCHANGED outcome /\ Put(k, Goto(r, i))
    BY <1>2, <1>6, <2>3 DEF f
  <2>5. JobTruth(i)'
    BY <1>1, <1>2, <1>3, <1>4, <2>3, <2>4 DEF JobTruth
  <2>6. /\ txn' \in [Cmd -> Txn] /\ \A d \in evicted : txn'[d].phase = "none"
        /\ StoreInv' /\ AnswersInv'
    BY <1>1, <2>4 DEF IInv, TypeOK, LifecycleInv, StoreInv, AnswersInv
  <2> QED
    BY <1>1, <1>3, <1>4, <2>3, <2>4, <2>5, <2>6, HeadKeeps
<1> QED
  BY <1>1, <1>5, <1>6

LEMMA ReconciledKeeps ==
  ASSUME Assumptions, IInv, NEW k \in Slot, Reconciled(k)
  PROVE  IInv' /\ Promised
<1>0. slot[k].jobs # <<>>
  BY DEF Reconciled, Waits
<1>h. PICK s \in SlotState, j \in Job : s = slot[k] /\ j = Head1(k)
  BY <1>0, HeadFacts
<1> DEFINE a == FailureAnswer(j.failure)
<1>1. /\ s = slot[k] /\ j = Head1(k) /\ slot[k].jobs # <<>> /\ j.kind = "apply" /\ j.phase = "reconcile"
      /\ UNCHANGED <<log, txn, lifecycle, captured, published, evicted>>
  BY <1>h DEF Reconciled, Waits, storeVars
<1>2. /\ s \in SlotState /\ SlotInv(s) /\ j = s.jobs[1] /\ j \in Job
      /\ JobTruth(j) /\ HeadTruth(s) /\ j.cmd \in Cmd /\ j.cmd # NoCmd
  BY <1>1, HeadFacts
<1>3. /\ IsPrefix(s.events, log) /\ (s.events # <<>> => Current(s.events)) /\ s.reloads \in Nat
      /\ a \in {"unchanged", "unknown"} /\ (a = "unchanged" => txn[j.cmd].phase = "rejected")
  BY <1>1, <1>2 DEF SlotInv, SlotState, JobTruth, FailureAnswer
<1>4. CASE Settle(k, Lifted(s, j), a)
  <2>1. /\ Lifted(s, j) \in SlotState
        /\ Lifted(s, j).events = s.events /\ Lifted(s, j).jobs = s.jobs
        /\ Lifted(s, j).generation = s.generation /\ Lifted(s, j).reloads = s.reloads
    BY <1>2, LiftedForm
  <2>2. Lifted(s, j).reloads
          = slot[k].reloads - (IF Lifted(s, j).jobs[1].kind = "reload" THEN 1 ELSE 0)
    BY <1>1, <1>2, <1>3, <2>1
  <2> QED
    BY <1>1, <1>2, <1>3, <1>4, <2>1, <2>2, SettleQuietly
<1>5. CASE j.taken /\ Settle(k, Lifted(Installed(s, j, FALSE), j), a)
  <2>1. PICK t \in SlotState :
          /\ t = Lifted(Installed(s, j, FALSE), j)
          /\ t.events = j.snapshot /\ t.jobs = s.jobs
        /\ t.generation = s.generation /\ t.reloads = s.reloads
    <3>1. PICK u \in SlotState : u = Installed(s, j, FALSE)
      BY InstalledForm
    <3>2. /\ u.events = j.snapshot /\ u.jobs = s.jobs
          /\ u.generation = s.generation /\ u.reloads = s.reloads
      BY <3>1, InstalledForm
    <3>3. /\ Lifted(u, j) \in SlotState
          /\ Lifted(u, j).events = u.events /\ Lifted(u, j).jobs = u.jobs
          /\ Lifted(u, j).generation = u.generation /\ Lifted(u, j).reloads = u.reloads
      BY LiftedForm
    <3> QED
      BY <3>1, <3>2, <3>3
  <2>2. IsPrefix(t.events, log) /\ Current(t.events)
    BY <1>2, <1>5, <2>1 DEF HeadTruth
  <2>3. t.reloads = slot[k].reloads - (IF t.jobs[1].kind = "reload" THEN 1 ELSE 0)
    <3>1. t.jobs[1].kind = "apply" /\ t.reloads = slot[k].reloads /\ t.reloads \in Nat
      BY <1>1, <1>2, <1>3, <2>1
    <3> QED
      BY <3>1
  <2> QED
    BY <1>1, <1>2, <1>3, <1>5, <2>1, <2>2, <2>3, SettleQuietly
<1> QED
  BY <1>1, <1>4, <1>5 DEF Reconciled

LEMMA WriteDeadlineKeeps ==
  ASSUME Assumptions, IInv, NEW k \in Slot, WriteDeadline(k)
  PROVE  IInv' /\ Promised
<1>0. slot[k].jobs # <<>>
  BY DEF WriteDeadline, Waits
<1>h. PICK s \in SlotState, j \in Job : s = slot[k] /\ j = Head1(k)
  BY <1>0, HeadFacts
<1> DEFINE d == j.cmd
           q0 == [i \in DOMAIN s.jobs |->
                  [s.jobs[i] EXCEPT !.timedOut = @ \/ i = 1,
                                    !.cancelled = @ \/ s.jobs[i].cmd \in Unstarted(s)]]
           t0 == [s EXCEPT !.stalled = TRUE, !.stale = @ \/ j.kind = "apply", !.jobs = q0]
<1>1. /\ s = slot[k] /\ j = Head1(k) /\ s.jobs # <<>> /\ j.kind \in {"apply", "create"}
      /\ j.phase \in {"append", "reconcile"} /\ ~j.timedOut
      /\ slot' = [slot EXCEPT ![k] = t0] /\ UNCHANGED cur
      /\ outcome' = [c \in Cmd |->
                       IF outcome[c] # "waiting" THEN outcome[c]
                       ELSE IF c = d THEN "unknown"
                       ELSE IF c \in Unstarted(s) THEN "unchanged" ELSE outcome[c]]
      /\ UNCHANGED <<log, txn, lifecycle, captured, published, evicted>>
  BY <1>h DEF WriteDeadline, Waits, Put, storeVars, DeadlineAnswer
<1>2. /\ k = cur /\ cur # NoSlot /\ s \in SlotState /\ SlotInv(s) /\ j = s.jobs[1]
      /\ j \in Job /\ JobTruth(j) /\ d \in Cmd /\ d # NoCmd
      /\ TypeOK /\ Exclusive /\ StoreInv /\ AnswersInv
  BY <1>1, HeadFacts DEF IInv, Assumptions
<1>3. /\ s.jobs \in Seq(Job) /\ Len(s.jobs) \in Nat \ {0} /\ DOMAIN s.jobs = 1..Len(s.jobs)
      /\ \A i \in DOMAIN s.jobs : s.jobs[i] \in Job
  BY <1>1, <1>2, EmptySeq, LenProperties, ElementOfSeq DEF SlotState
<1>4. \A i \in DOMAIN s.jobs :
        /\ q0[i] \in Job /\ q0[i].kind = s.jobs[i].kind /\ q0[i].cmd = s.jobs[i].cmd
        /\ q0[i].phase = s.jobs[i].phase /\ q0[i].taken = s.jobs[i].taken
        /\ q0[i].failure = s.jobs[i].failure /\ q0[i].snapshot = s.jobs[i].snapshot
        /\ q0[i].timedOut <=> (s.jobs[i].timedOut \/ i = 1)
        /\ q0[i].cancelled <=> (s.jobs[i].cancelled \/ s.jobs[i].cmd \in Unstarted(s))
  <2>1. SUFFICES ASSUME NEW i \in DOMAIN s.jobs
        PROVE  LET b == q0[i] IN
               /\ b \in Job /\ b.kind = s.jobs[i].kind /\ b.cmd = s.jobs[i].cmd
               /\ b.phase = s.jobs[i].phase /\ b.taken = s.jobs[i].taken
               /\ b.failure = s.jobs[i].failure /\ b.snapshot = s.jobs[i].snapshot
               /\ b.timedOut <=> (s.jobs[i].timedOut \/ i = 1)
               /\ b.cancelled <=> (s.jobs[i].cancelled \/ s.jobs[i].cmd \in Unstarted(s))
    BY Zenon
  <2> DEFINE a == s.jobs[i]
             u == [a EXCEPT !.timedOut = a.timedOut \/ i = 1]
             v == [u EXCEPT !.cancelled = a.cancelled \/ a.cmd \in Unstarted(s)]
  <2>2. a \in Job /\ q0[i] = v
    BY <1>3
  <2> HIDE DEF a, q0
  <2>3. /\ u \in Job /\ u.kind = a.kind /\ u.cmd = a.cmd /\ u.phase = a.phase
        /\ u.taken = a.taken /\ u.failure = a.failure /\ u.snapshot = a.snapshot
        /\ u.timedOut <=> (a.timedOut \/ i = 1)
        /\ u.cancelled = a.cancelled
    BY <2>2 DEF Job
  <2> HIDE DEF u
  <2>4. /\ v \in Job /\ v.kind = u.kind /\ v.cmd = u.cmd /\ v.phase = u.phase
        /\ v.taken = u.taken /\ v.failure = u.failure /\ v.snapshot = u.snapshot
        /\ v.timedOut = u.timedOut
        /\ v.cancelled <=> (a.cancelled \/ a.cmd \in Unstarted(s))
    BY <2>3 DEF Job
  <2> HIDE DEF v
  <2> QED
    BY <2>2, <2>3, <2>4 DEF a
<1>5. q0 \in Seq(Job) /\ Len(q0) = Len(s.jobs) /\ DOMAIN q0 = DOMAIN s.jobs
  <2>1. q0 \in [1..Len(s.jobs) -> Job] /\ DOMAIN q0 = 1..Len(s.jobs)
    BY <1>3, <1>4
  <2> HIDE DEF q0
  <2>2. q0 \in Seq(Job)
    BY <1>3, <2>1, SeqDef
  <2>3. DOMAIN q0 = 1..Len(q0) /\ Len(q0) \in Nat
    BY <2>2, LenProperties
  <2> QED
    BY <1>3, <2>1, <2>2, <2>3
<1>6. /\ t0 \in SlotState /\ t0.jobs = q0 /\ t0.events = s.events
      /\ t0.generation = s.generation /\ t0.reloads = s.reloads
  BY <1>2, <1>5 DEF SlotState
<1> HIDE DEF q0, t0
<1>q. PICK q \in Seq(Job), t \in SlotState : q = q0 /\ t = t0
  BY <1>5, <1>6
<1>t. /\ slot' = [slot EXCEPT ![k] = t] /\ DOMAIN q = DOMAIN s.jobs
      /\ t.jobs = q /\ t.events = s.events
      /\ t.generation = s.generation /\ t.reloads = s.reloads
      /\ \A i \in DOMAIN s.jobs :
           /\ q[i] \in Job /\ q[i].kind = s.jobs[i].kind /\ q[i].cmd = s.jobs[i].cmd
           /\ q[i].phase = s.jobs[i].phase /\ q[i].taken = s.jobs[i].taken
           /\ q[i].failure = s.jobs[i].failure /\ q[i].snapshot = s.jobs[i].snapshot
           /\ q[i].timedOut <=> (s.jobs[i].timedOut \/ i = 1)
           /\ q[i].cancelled <=> (s.jobs[i].cancelled \/ s.jobs[i].cmd \in Unstarted(s))
  BY <1>1, <1>4, <1>5, <1>6, <1>q
<1>7. \A i \in DOMAIN s.jobs : JobShape(s, i) /\ JobTruth(s.jobs[i])
  BY <1>2 DEF SlotInv
<1>8. /\ ~j.cancelled /\ outcome[d] = "waiting" /\ txn[d].phase # "none"
      /\ d \notin Unstarted(s)
  <2>1. ~j.cancelled /\ outcome[d] = "waiting" /\ txn[d].phase # "none"
    BY <1>1, <1>2 DEF JobTruth
  <2>2. \A i \in 2..Len(s.jobs) : s.jobs[i].cmd # d
    BY <1>2, <1>3, <1>7 DEF JobShape
  <2> QED
    BY <2>1, <2>2 DEF Unstarted
<1>9. ASSUME NEW i \in DOMAIN s.jobs, i # 1, s.jobs[i].cmd # NoCmd
      PROVE  /\ s.jobs[i].cmd \in Unstarted(s) /\ s.jobs[i].cmd \in Cmd /\ s.jobs[i].cmd # d
             /\ s.jobs[i].phase = "queued" /\ txn[s.jobs[i].cmd].phase = "none"
             /\ s.jobs[i].failure # "rejected"
             /\ outcome'[s.jobs[i].cmd] = IF outcome[s.jobs[i].cmd] = "waiting" THEN "unchanged"
                                          ELSE outcome[s.jobs[i].cmd]
  <2>1. s.jobs[i].cmd \in Unstarted(s) /\ s.jobs[i].cmd \in Cmd
    BY <1>3, <1>9 DEF Unstarted, Job
  <2>2. s.jobs[i].phase = "queued" /\ txn[s.jobs[i].cmd].phase = "none" /\ s.jobs[i].failure # "rejected"
    BY <1>7, <1>9 DEF JobShape, JobTruth
  <2> QED
    BY <1>1, <1>8, <2>1, <2>2
<1>10. ASSUME NEW c \in Cmd, outcome'[c] # outcome[c]
       PROVE  /\ outcome[c] = "waiting"
              /\ \/ c = d /\ outcome'[c] = "unknown"
                 \/ outcome'[c] = "unchanged" /\ txn[c].phase = "none"
  <2>1. /\ outcome[c] = "waiting"
        /\ \/ c = d /\ outcome'[c] = "unknown"
           \/ outcome'[c] = "unchanged" /\ c \in Unstarted(s)
    BY <1>1, <1>10
  <2>2. ASSUME c \in Unstarted(s) PROVE txn[c].phase = "none"
    <3>1. PICK i \in 2..Len(s.jobs) : s.jobs[i].cmd = c /\ c # NoCmd
      BY <2>2 DEF Unstarted
    <3>2. i \in DOMAIN s.jobs /\ i # 1
      BY <1>3, <3>1
    <3> QED
      BY <1>9, <3>1, <3>2
  <2> QED
    BY <2>1, <2>2
<1>11. outcome' \in [Cmd -> Outcomes]
  BY <1>1, <1>2 DEF TypeOK, Outcomes
<1>12. \A ev \in Seq(Event) : Current(ev) => Current(ev)'
  BY <1>1, <1>10 DEF Current
<1>13. ASSUME NEW i \in DOMAIN q PROVE JobShape(t, i)' /\ JobTruth(q[i])'
  <2>1. JobShape(s, i) /\ JobTruth(s.jobs[i]) /\ i \in DOMAIN s.jobs
    BY <1>7, <1>t
  <2>2. JobShape(t, i)'
    BY <2>1, <1>t DEF JobShape
  <2>3. CASE i = 1
    <3>1. q[1].cmd = d /\ q[1].timedOut /\ ~q[1].cancelled /\ q[1].phase = j.phase
          /\ q[1].failure = j.failure
      BY <1>2, <1>8, <2>1, <2>3, <1>t
    <3>2. outcome'[d] = "unknown"
      BY <1>1, <1>2, <1>8
    <3> QED
      BY <1>1, <1>2, <1>8, <2>2, <2>3, <3>1, <3>2 DEF JobTruth
  <2>4. CASE i # 1
    <3>1. CASE q[i].cmd = NoCmd
      BY <2>2, <3>1 DEF JobTruth
    <3>2. CASE q[i].cmd # NoCmd
      <4>1. /\ q[i].cmd = s.jobs[i].cmd /\ q[i].cancelled /\ q[i].phase = "queued"
            /\ q[i].failure # "rejected"
        BY <1>9, <2>1, <2>4, <3>2, <1>t
      <4>2. ~s.jobs[i].timedOut
        BY <2>1, <2>4 DEF JobShape
      <4>3. outcome[s.jobs[i].cmd] \in {"waiting", "unchanged"}
        BY <2>1, <3>2, <4>1, <4>2 DEF JobTruth
      <4>4. outcome'[q[i].cmd] = "unchanged" /\ txn'[q[i].cmd].phase = "none"
        <5>1. s.jobs[i].cmd # NoCmd
          BY <3>2, <4>1
        <5>2. /\ txn[s.jobs[i].cmd].phase = "none"
              /\ outcome'[s.jobs[i].cmd] = IF outcome[s.jobs[i].cmd] = "waiting" THEN "unchanged"
                                           ELSE outcome[s.jobs[i].cmd]
          BY <1>9, <2>1, <2>4, <5>1
        <5> QED
          BY <1>1, <4>1, <4>3, <5>2
      <4> QED
        BY <2>2, <4>1, <4>4 DEF JobTruth
    <3> QED
      BY <3>1, <3>2
  <2> QED
    BY <2>3, <2>4
<1>14. HeadTruth(t)'
  <2>1. 1 \in DOMAIN s.jobs /\ HeadTruth(s)
    BY <1>1, <1>2, <1>3 DEF SlotInv
  <2>2. /\ t.jobs[1].taken = s.jobs[1].taken /\ t.jobs[1].phase = s.jobs[1].phase
        /\ t.jobs[1].cmd = s.jobs[1].cmd /\ t.jobs[1].snapshot = s.jobs[1].snapshot
        /\ s.jobs[1].snapshot \in Seq(Event) /\ s.events \in Seq(Event)
    BY <1>2, <1>3, <2>1, <1>t DEF SlotState, Job
  <2> QED
    BY <1>1, <1>12, <2>1, <2>2, <1>t DEF HeadTruth
<1>15. SlotInv(t)'
  <2>1. IsPrefix(t.events, log)' /\ (t.events # <<>> => Current(t.events)')
    BY <1>1, <1>2, <1>12, <1>t DEF SlotInv, SlotState
  <2>2. t.reloads = Reloads(t.jobs)
    <3>1. {i \in DOMAIN q : q[i].kind = "reload"} = {i \in DOMAIN s.jobs : s.jobs[i].kind = "reload"}
      BY <1>t
    <3> QED
      BY <1>2, <3>1, <1>t DEF SlotInv, Reloads
  <2> QED
    BY <1>13, <1>14, <2>1, <2>2, <1>t DEF SlotInv
<1>16. /\ slot' \in [Slot -> SlotState] /\ cur' \in Slot \cup {NoSlot}
       /\ slot'[k] = t /\ Exclusive' /\ \A n \in Slot : SlotInv(slot[n])'
  <2>1. log' \in Seq(Event) /\ cur' = k
    BY <1>1, <1>2 DEF TypeOK
  <2> QED
    BY <1>1, <1>2, <1>15, <2>1, <1>t, OneSlot
<1>17. TypeOK' /\ StoreInv' /\ BroadcastInv'
  BY <1>1, <1>2, <1>11, <1>16 DEF TypeOK, IInv, StoreInv, BroadcastInv, PublishedIsDurable
<1>18. AnswersInv'
  BY <1>1, <1>2, <1>10, <1>11 DEF AnswersInv, Outcomes
<1>19. LifecycleInv'
  <2>1. LifecycleInv /\ \A c \in evicted : txn'[c].phase = "none"
    BY <1>1 DEF IInv, LifecycleInv
  <2> QED
    BY <1>1, <1>2, <1>16, <2>1, <1>t, LifecycleStays
<1>20. Promised
  <2>1. \A c \in Cmd : outcome'[c] = outcome[c] \/ Promise!MayBecome(c, outcome'[c])
    BY <1>2, <1>10 DEF Promise!MayBecome, Promise!ToSet, ToSet, StoreInv
  <2> QED
    BY <1>1, <1>11, <2>1 DEF Promised, Promise!Next, Promise!Answer, Promise!Outcomes, Outcomes
<1> QED
  BY <1>16, <1>17, <1>18, <1>19, <1>20 DEF IInv

-----------------------------------------------------------------------------
(* The durable log. *)

(* The log itself is a current copy.                                       *)
LEMMA LogIsCurrent ==
  ASSUME IInv
  PROVE  Current(log)
BY DEF IInv, AnswersInv, StoreInv, BroadcastInv, PublishedIsDurable, Current

LEMMA StoreReadKeeps ==
  ASSUME Assumptions, IInv, NEW k \in Slot, StoreRead(k)
  PROVE  IInv' /\ Promised
<1>0. slot[k].jobs # <<>> /\ log \in Seq(Event)
  BY DEF StoreRead, IInv, TypeOK
<1>h. PICK s \in SlotState, j \in Job, ev \in Seq(Event) : s = slot[k] /\ j = Head1(k) /\ ev = log
  BY <1>0, HeadFacts
<1> DEFINE i == [j EXCEPT !.taken = TRUE, !.snapshot = ev]
<1>1. /\ s = slot[k] /\ j = Head1(k) /\ ev = log /\ s.jobs # <<>> /\ j.phase \in {"refresh", "reconcile"}
      /\ slot' = [slot EXCEPT ![k].jobs[1].taken = TRUE, ![k].jobs[1].snapshot = log]
      /\ UNCHANGED <<log, txn, cur, lifecycle, captured, outcome, published, evicted>>
  BY <1>h DEF StoreRead, storeVars, callVars
<1>2. /\ s \in SlotState /\ SlotInv(s) /\ j = s.jobs[1] /\ j \in Job /\ JobTruth(j)
      /\ JobShape(s, 1) /\ log \in Seq(Event) /\ txn' \in [Cmd -> Txn]
  BY <1>1, HeadFacts DEF IInv, TypeOK
<1>3. /\ i \in Job /\ i.cmd = j.cmd /\ i.kind = j.kind /\ i.phase = j.phase /\ i.taken
      /\ i.snapshot = ev /\ i.cancelled = j.cancelled /\ i.timedOut = j.timedOut
      /\ i.failure = j.failure
  BY <1>2 DEF Job
<1>4. Put(k, Goto(s, i))
  <2>1. slot' = [slot EXCEPT ![k] = [s EXCEPT !.jobs = [s.jobs EXCEPT ![1] = i]]]
    <3>1. slot \in [Slot -> SlotState] /\ s.jobs \in Seq(Job) /\ 1 \in DOMAIN s.jobs
      BY <1>1, <1>2, HeadLeft DEF IInv, TypeOK, SlotState
    <3> QED
      BY <1>1, <1>2, <3>1 DEF SlotState
  <2> QED
    BY <1>1, <2>1 DEF Put, Goto
<1>5. IsPrefix(ev, log) /\ Current(ev)
  BY <1>1, <1>2, LogIsCurrent, PrefixEnds
<1>6. JobTruth(i)'
  BY <1>1, <1>2, <1>3 DEF JobTruth
<1>7. /\ StoreInv' /\ AnswersInv' /\ \A c \in evicted : txn'[c].phase = "none"
  BY <1>1 DEF IInv, StoreInv, AnswersInv, LifecycleInv
<1>8. /\ IsPrefix(s.events, log) /\ (s.events # <<>> => Current(s.events))
      /\ i.phase = "reconcile" => i.failure # "none"
  BY <1>2, <1>3 DEF SlotInv, JobShape
<1> HIDE DEF i
<1> QED
  BY <1>1, <1>2, <1>3, <1>4, <1>5, <1>6, <1>7, <1>8, HeadKeeps

(* An entry is appended: what stands in the log stays, and broadcasts keep *)
(* being of it.                                                            *)
LEMMA LogGrows ==
  ASSUME Assumptions, IInv, NEW e \in Event, log' = Append(log, e)
  PROVE  /\ log' \in Seq(Event) /\ Len(log') = Len(log) + 1 /\ Len(log) \in Nat
         /\ ToSet(log') = ToSet(log) \cup {e}
         /\ \A i \in 1..Len(log) : log'[i] = log[i]
         /\ log'[Len(log) + 1] = e
         /\ \A s \in Seq(Event) : IsPrefix(s, log) => IsPrefix(s, log')
<1>1. log \in Seq(Event)
  BY DEF IInv, TypeOK
<1>2. ASSUME NEW s \in Seq(Event), IsPrefix(s, log) PROVE IsPrefix(s, log')
  BY <1>1, <1>2, PrefixGrows
<1> QED
  BY <1>1, <1>2, AppendProperties, LenProperties, RangeOfAppend

LEMMA BroadcastsStay ==
  ASSUME Assumptions, IInv, NEW e \in Event, log' = Append(log, e), published' = published
  PROVE  BroadcastInv'
<1>1. /\ Len(log') = Len(log) + 1 /\ Len(log) \in Nat
      /\ \A i \in 1..Len(log) : log'[i] = log[i]
  BY LogGrows
<1>2. \A i \in DOMAIN published : published[i].revision \in Nat
  <2>1. published \in Seq([revision : Nat, cmd : Cmd])
    BY DEF IInv, TypeOK
  <2>2. \A i \in DOMAIN published : published[i] \in [revision : Nat, cmd : Cmd]
    BY <2>1, ElementOfSeq, LenProperties
  <2> QED
    BY <2>2
<1> QED
  BY <1>1, <1>2 DEF IInv, BroadcastInv, PublishedIsDurable

LEMMA StoreAppendKeeps ==
  ASSUME Assumptions, IInv, NEW c \in Cmd, StoreAppend(c)
  PROVE  IInv' /\ Promised
<1>1. /\ txn[c].phase = "open"
      /\ UNCHANGED <<slot, cur, lifecycle, captured, outcome, published, evicted>>
      /\ TypeOK /\ StoreInv /\ AnswersInv
  BY DEF StoreAppend, callVars, IInv
<1>2. txn \in [Cmd -> Txn] /\ outcome[c] \in {"waiting", "unknown"} /\ c \notin ToSet(log)
      /\ (c \in Creation <=> txn[c].head = 0) /\ txn[c].head \in Nat
  <2>1. txn \in [Cmd -> Txn] /\ outcome[c] \in Outcomes
    BY <1>1 DEF TypeOK
  <2>2. outcome[c] \in {"waiting", "unknown"}
    BY <1>1, <2>1 DEF Outcomes, AnswersInv
  <2>3. c \notin ToSet(log) /\ (c \in Creation <=> txn[c].head = 0)
    BY <1>1 DEF StoreInv
  <2>4. txn[c].head \in Nat
    BY <2>1 DEF Txn
  <2> QED
    BY <2>1, <2>2, <2>3, <2>4
<1>3. PICK p \in {"committed", "rejected"} :
        /\ txn' = [txn EXCEPT ![c].phase = p]
        /\ IF p = "committed" THEN Len(log) = txn[c].head /\ log' = Append(log, c)
           ELSE log' = log
  BY DEF StoreAppend
<1>4. /\ txn' \in [Cmd -> Txn] /\ txn'[c].phase = p
      /\ \A d \in Cmd : txn'[d].head = txn[d].head /\ (d # c => txn'[d] = txn[d])
  BY <1>2, <1>3 DEF Txn
<1>5. /\ log' \in Seq(Event) /\ c \in Event
      /\ \A s \in Seq(Event) : IsPrefix(s, log) => IsPrefix(s, log')
  BY <1>1, <1>3, LogGrows DEF Event, TypeOK
<1>6. \A ev : Current(ev) => Current(ev)'
  BY <1>1 DEF Current
<1>7. ASSUME NEW k \in Slot PROVE SlotInv(slot[k])'
  <2>s. PICK s \in SlotState : s = slot[k]
    BY <1>1 DEF TypeOK
  <2>1. s = slot[k] /\ s = slot'[k] /\ SlotInv(s) /\ s.events \in Seq(Event)
    BY <1>1, <2>s DEF IInv, SlotState
  <2>2. ASSUME NEW i \in DOMAIN s.jobs PROVE JobShape(s, i)' /\ JobTruth(s.jobs[i])'
    <3>1. JobShape(s, i) /\ JobTruth(s.jobs[i]) /\ s.jobs[i] \in Job
      BY <2>1, LenProperties, ElementOfSeq DEF SlotInv, SlotState
    <3>2. s.jobs[i].cmd = NoCmd \/ s.jobs[i].cmd \in Cmd
      BY <3>1 DEF Job
    <3>3. JobTruth(s.jobs[i])'
      BY <1>1, <1>3, <1>4, <2>1, <3>1, <3>2 DEF JobTruth
    <3> QED
      BY <1>1, <3>1, <3>3 DEF JobShape
  <2>3. s.jobs # <<>> => HeadTruth(s)'
    <3>1. SUFFICES ASSUME s.jobs # <<>> PROVE HeadTruth(s)'
      OBVIOUS
    <3>2. HeadTruth(s) /\ s.jobs[1] \in Job
      BY <2>1, <3>1, HeadLeft DEF SlotInv
    <3>3. s.jobs[1].taken => IsPrefix(s.jobs[1].snapshot, log') /\ Current(s.jobs[1].snapshot)'
      BY <1>5, <1>6, <3>2 DEF HeadTruth, Job
    <3>4. ASSUME s.jobs[1].phase = "append", s.jobs[1].cmd # NoCmd
          PROVE  /\ Len(s.events) = txn'[s.jobs[1].cmd].head
                 /\ txn'[s.jobs[1].cmd].phase = "committed" => Current(s.events)'
      <4>1. s.jobs[1].cmd \in Cmd /\ Len(s.events) = txn[s.jobs[1].cmd].head
        BY <3>2, <3>4 DEF Job, HeadTruth
      <4>2. CASE s.jobs[1].cmd # c
        BY <1>4, <1>6, <3>2, <3>4, <4>1, <4>2 DEF HeadTruth
      <4>3. CASE s.jobs[1].cmd = c /\ p = "committed"
        <5>1. Len(s.events) = Len(log) /\ IsPrefix(s.events, log) /\ log \in Seq(Event)
          BY <1>1, <1>3, <2>1, <4>1, <4>3 DEF SlotInv, TypeOK
        <5>2. s.events = log
          BY <2>1, <5>1, PrefixEnds
        <5>3. Current(s.events)
          BY <5>2, LogIsCurrent
        <5> QED
          BY <1>4, <1>6, <4>1, <5>3
      <4>4. CASE s.jobs[1].cmd = c /\ p = "rejected"
        BY <1>4, <4>1, <4>4
      <4> QED
        BY <4>2, <4>3, <4>4
    <3> QED
      BY <1>1, <3>3, <3>4 DEF HeadTruth
  <2>4. SlotInv(s)'
    BY <1>1, <1>5, <1>6, <2>1, <2>2, <2>3 DEF SlotInv
  <2>5. SlotInv(slot[k])' <=> SlotInv(s)'
    BY <2>1 DEF SlotInv, JobShape, JobTruth, HeadTruth, Current
  <2> QED
    BY <2>4, <2>5
<1>8. StoreInv'
  <2>1. CASE p = "rejected"
    BY <1>1, <1>2, <1>3, <1>4, <2>1 DEF StoreInv
  <2>2. CASE p = "committed"
    <3>1. /\ Len(log') = Len(log) + 1 /\ Len(log) \in Nat
          /\ ToSet(log') = ToSet(log) \cup {c}
          /\ \A i \in 1..Len(log) : log'[i] = log[i]
          /\ log'[Len(log) + 1] = c /\ Len(log) = txn[c].head
      BY <1>3, <1>5, <2>2, LogGrows
    <3>2. ASSUME NEW d \in Cmd
          PROVE  /\ d \in ToSet(log') <=> txn'[d].phase = "committed"
                 /\ txn'[d].phase = "committed"
                      => txn'[d].head < Len(log') /\ log'[txn'[d].head + 1] = d
                 /\ txn'[d].phase \in {"open", "committed"} => (d \in Creation <=> txn'[d].head = 0)
      <4>1. CASE d = c
        BY <1>2, <1>4, <2>2, <3>1, <4>1
      <4>2. CASE d # c
        <5>1. txn'[d] = txn[d] /\ txn[d].head \in Nat
          BY <1>2, <1>4, <4>2 DEF Txn
        <5>2. d \in ToSet(log') <=> txn'[d].phase = "committed"
          BY <1>1, <3>1, <4>2, <5>1 DEF StoreInv
        <5>3. ASSUME txn[d].phase = "committed"
              PROVE  txn[d].head < Len(log') /\ log'[txn[d].head + 1] = d
          <6>1. txn[d].head < Len(log) /\ log[txn[d].head + 1] = d
            BY <1>1, <5>3 DEF StoreInv
          <6>2. txn[d].head + 1 \in 1..Len(log)
            BY <3>1, <5>1, <6>1
          <6> QED
            BY <3>1, <5>1, <6>1, <6>2
        <5>4. txn[d].phase \in {"open", "committed"} => (d \in Creation <=> txn[d].head = 0)
          BY <1>1 DEF StoreInv
        <5> QED
          BY <5>1, <5>2, <5>3, <5>4
      <4> QED
        BY <4>1, <4>2
    <3> QED
      BY <3>2 DEF StoreInv
  <2> QED
    BY <2>1, <2>2
<1>9. AnswersInv'
  BY <1>1, <1>2, <1>4 DEF AnswersInv
<1>10. BroadcastInv'
  <2>1. CASE p = "rejected"
    BY <1>1, <1>3, <2>1 DEF IInv, BroadcastInv, PublishedIsDurable
  <2>2. CASE p = "committed"
    BY <1>1, <1>3, <1>5, <2>2, BroadcastsStay
  <2> QED
    BY <2>1, <2>2
<1>11. LifecycleInv'
  <2>1. LifecycleInv /\ evicted \subseteq Cmd
    BY DEF IInv, TypeOK
  <2>2. c \notin evicted
    BY <1>1, <2>1 DEF LifecycleInv
  <2> QED
    BY <1>1, <1>4, <2>1, <2>2 DEF LifecycleInv
<1>12. TypeOK' /\ Exclusive'
  BY <1>1, <1>4, <1>5 DEF TypeOK, IInv, Exclusive
<1>13. Promised
  <2>1. CASE p = "rejected"
    BY <1>1, <1>3, <2>1 DEF Promised
  <2>2. CASE p = "committed"
    <3>1. c \in Creation <=> log = <<>>
      BY <1>1, <1>2, <1>3, <2>2, EmptySeq DEF TypeOK
    <3>2. Promise!Commit(c)
      BY <1>1, <1>2, <1>3, <2>2, <3>1 DEF Promise!Commit, Promise!ToSet, ToSet
    <3> QED
      BY <3>2 DEF Promised, Promise!Next
  <2> QED
    BY <2>1, <2>2
<1> QED
  BY <1>7, <1>8, <1>9, <1>10, <1>11, <1>12, <1>13 DEF IInv

LEMMA ForeignAppendKeeps ==
  ASSUME Assumptions, IInv, ForeignAppend
  PROVE  IInv' /\ Promised
<1>1. /\ log' = Append(log, Foreign) /\ Foreign \in Event /\ Foreign \notin Cmd
      /\ UNCHANGED <<txn, slot, cur, lifecycle, captured, outcome, published, evicted>>
      /\ TypeOK /\ StoreInv
  BY DEF ForeignAppend, callVars, IInv, Event, Assumptions
<1>2. /\ log' \in Seq(Event) /\ Len(log') = Len(log) + 1 /\ Len(log) \in Nat
      /\ ToSet(log') = ToSet(log) \cup {Foreign}
      /\ \A i \in 1..Len(log) : log'[i] = log[i]
      /\ \A s \in Seq(Event) : IsPrefix(s, log) => IsPrefix(s, log')
  BY <1>1, LogGrows
<1>3. ASSUME NEW k \in Slot PROVE SlotInv(slot[k])'
  <2> DEFINE s == slot[k]
  <2>1. s \in SlotState /\ SlotInv(s) /\ s.events \in Seq(Event) /\ UNCHANGED s
    BY <1>1 DEF IInv, TypeOK, SlotState
  <2>2. \A i \in DOMAIN s.jobs : JobShape(s, i)' /\ JobTruth(s.jobs[i])'
    BY <1>1, <2>1 DEF SlotInv, JobShape, JobTruth
  <2>3. s.jobs # <<>> => HeadTruth(s)'
    <3>1. SUFFICES ASSUME s.jobs # <<>> PROVE HeadTruth(s)'
      OBVIOUS
    <3>2. HeadTruth(s) /\ s.jobs[1] \in Job
      BY <2>1, <3>1, HeadLeft DEF SlotInv
    <3> QED
      BY <1>1, <1>2, <3>2 DEF HeadTruth, Job, Current
  <2> QED
    BY <1>1, <1>2, <2>1, <2>2, <2>3 DEF SlotInv, Current
<1>4. StoreInv'
  <2>1. \A d \in Cmd : txn[d].head \in Nat
    BY <1>1 DEF TypeOK, Txn
  <2> QED
    BY <1>1, <1>2, <2>1 DEF StoreInv
<1>5. BroadcastInv'
  BY <1>1, BroadcastsStay
<1>6. TypeOK' /\ Exclusive' /\ AnswersInv' /\ LifecycleInv'
  BY <1>1, <1>2 DEF IInv, TypeOK, Exclusive, AnswersInv, LifecycleInv
<1>7. Promised
  BY <1>1 DEF Promised, Promise!Next, Promise!ForeignAppend
<1> QED
  BY <1>3, <1>4, <1>5, <1>6, <1>7 DEF IInv

-----------------------------------------------------------------------------
(* The theorems. *)

LEMMA InitInv ==
  ASSUME Assumptions, Init
  PROVE  IInv
<1>1. log = <<>> /\ <<>> \in Seq(Event) /\ published = <<>> /\ DOMAIN published = {}
  BY EmptySeq DEF Init
<1>2. TypeOK
  <2>1. <<>> \in Seq([revision : Nat, cmd : Cmd])
    BY EmptySeq
  <2> QED
    BY <1>1, <2>1, UnusedFacts DEF Init, TypeOK, Txn, Outcomes
<1>3. ToSet(log) = {}
  BY <1>1 DEF ToSet
<1>4. ASSUME NEW k \in Slot PROVE SlotInv(slot[k])
  <2>1. slot[k] = Unused /\ DOMAIN Unused.jobs = {} /\ Unused.reloads = 0
    BY DEF Init, Unused
  <2>2. Reloads(Unused.jobs) = 0
    <3>1. {i \in DOMAIN Unused.jobs : Unused.jobs[i].kind = "reload"} = {}
      BY <2>1
    <3> QED
      BY <3>1, FS_EmptySet DEF Reloads
  <2>3. IsPrefix(<<>>, log)
    BY <1>1, PrefixEnds
  <2> QED
    BY <2>1, <2>2, <2>3, UnusedFacts DEF SlotInv
<1> QED
  BY <1>1, <1>2, <1>3, <1>4
  DEF Init, IInv, Exclusive, StoreInv, AnswersInv, BroadcastInv, PublishedIsDurable, LifecycleInv, Txn

LEMMA StepInv ==
  ASSUME Assumptions, IInv, [Next]_vars
  PROVE  IInv' /\ Promised
<1>1. CASE UNCHANGED vars
  BY <1>1
  DEF vars, IInv, TypeOK, Exclusive, SlotInv, JobShape, JobTruth, HeadTruth, Current,
      StoreInv, AnswersInv, BroadcastInv, PublishedIsDurable, LifecycleInv, Promised
<1>2. CASE Call
  BY <1>2, CaptureKeeps, ApplyKeeps, CreateGameKeeps, ReloadKeeps, EnsureLoadedKeeps, EvictKeeps
  DEF Call
<1>3. ASSUME NEW k \in Slot, Work(k) PROVE IInv' /\ Promised
  BY <1>3, StartApplyKeeps, StartCreateKeeps, StartLoadKeeps, LoadReplyKeeps, RefreshReplyKeeps,
     ReadFailsKeeps, AdmitKeeps, ReconciledKeeps
  DEF Work
<1>4. ASSUME NEW k \in Slot, StoreAnswers(k) PROVE IInv' /\ Promised
  BY <1>4, AppendOkKeeps, AppendFailsKeeps DEF StoreAnswers
<1> QED
  BY <1>1, <1>2, <1>3, <1>4, WriteDeadlineKeeps, StoreReadKeeps, StoreAppendKeeps,
     ForeignAppendKeeps
  DEF Next

(* IInv holds of every reachable state.                                    *)
THEOREM Invariance ==
  ASSUME Assumptions
  PROVE  Spec => []IInv
<1>1. Init => IInv
  BY InitInv
<1>2. IInv /\ [Next]_vars => IInv'
  BY StepInv
<1> QED
  BY <1>1, <1>2, PTL DEF Spec

(* Every variable keeps its type (Authority: the slot, its queue, the log). *)
THEOREM TypeCorrect ==
  ASSUME Assumptions
  PROVE  Spec => []TypeOK
<1>1. IInv => TypeOK
  BY DEF IInv
<1> QED
  BY <1>1, Invariance, PTL

(* Work of a game is never queued in two slots, whatever was evicted and   *)
(* created again while it waited (authority.ts: enqueue, releaseSlot).     *)
THEOREM QueueSafety ==
  ASSUME Assumptions
  PROVE  Spec => []OneQueue
<1>1. IInv => OneQueue
  BY WorkIsCurrent DEF OneQueue
<1> QED
  BY <1>1, Invariance, PTL

(* The resident copy is a state the log has been in (authority.ts: commit, *)
(* refreshSlot, loadSlot).                                                 *)
THEOREM RecordSafety ==
  ASSUME Assumptions
  PROVE  Spec => []RecordIsLogPrefix
<1>1. IInv => RecordIsLogPrefix
  BY DEF IInv, SlotInv, RecordIsLogPrefix
<1> QED
  BY <1>1, Invariance, PTL

(* Broadcasts are durable and in order, and a copy an edge read may serve  *)
(* has everything that was confirmed (authority.ts: commit, hasFresh).     *)
THEOREM ViewSafety ==
  ASSUME Assumptions
  PROVE  Spec => []OnlyTheLogIsShown
<1>1. ASSUME IInv PROVE OnlyTheLogIsShown
  <2>1. PublishedIsDurable
    BY <1>1 DEF IInv, BroadcastInv
  <2>2. ASSUME HasFresh PROVE Current(slot[cur].events)
    BY <1>1, <2>2 DEF IInv, TypeOK, SlotInv, HasFresh
  <2> QED
    BY <2>1, <2>2 DEF OnlyTheLogIsShown, FreshCopyCoversConfirmed, Current
<1> QED
  BY <1>1, Invariance, PTL

(* A command whose lifecycle was evicted before it wrote never writes      *)
(* (authority.ts: captureLifecycle, lifecycleHolds, evict).                *)
THEOREM EvictionSafety ==
  ASSUME Assumptions
  PROVE  Spec => []EvictionFences
<1>1. IInv => EvictionFences
  BY DEF IInv, LifecycleInv, EvictionFences
<1> QED
  BY <1>1, Invariance, PTL

(* The authority implements CommandLog: through every cache, timer and     *)
(* eviction, a command enters the log once, in its place, and its caller   *)
(* is told one answer that is true and stays true.                         *)
THEOREM Refinement ==
  ASSUME Assumptions
  PROVE  Spec => CallersArePromised
<1>1. Init => Promise!Init
  BY DEF Init, Promise!Init
<1>2. IInv /\ [Next]_vars => [Promise!Next]_(Promise!vars)
  BY StepInv DEF Promised, Promise!vars
<1> QED
  BY <1>1, <1>2, Invariance, PTL DEF Spec, CallersArePromised, Promise!Spec

=============================================================================

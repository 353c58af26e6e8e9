-------------------------- MODULE GatewayRouterProofs --------------------------
(***************************************************************************)
(* What GatewayRouter promises, for any number of commands, claims, lives  *)
(* of the slot, events, and reads and appends that fail.                   *)
(*                                                                         *)
(* The argument: of the appends that nobody here waits for at most one    *)
(* lands under a lease, since each was computed from the whole log and the *)
(* store takes no two such.  So what the head of the queue has read under  *)
(* the lease lacks that event at most, and what is then appended from it   *)
(* the store refuses.  A debt that a claim left is settled by a reload of  *)
(* that claim, whose read began after it.                                  *)
(***************************************************************************)
EXTENDS GatewayRouter, SequenceTheorems, TLAPS

-----------------------------------------------------------------------------
(* The inductive invariant. *)

Job == [kind : {"load", "reload", "apply"}, cmd : Cmd \cup {None}, life : Nat, claim : Nat, read : Nat,
        phase : {"queued", "reading", "loaded", "validated", "appending", "landed", "repairing"}]
Slot == [life : Nat, copy : Nat, stale : BOOLEAN, dispose : BOOLEAN, stalled : BOOLEAN, jobs : Seq(Job)]

\* How many events a copy may lack or have when it is vouched for: while an append
\* is on its way to this log, none are lacking.
Fit == {v \in Nat : base <= v /\ (v = log \/ (v + 1 = log /\ stray = {}))}

\* What an append may have been computed from: to the whole log only while nothing ended.
Live == {v \in Nat : v < log \/ (v = log /\ over = 0)}

\* Only the head has started; jobs of an evicted life come first, and while one
\* is there nothing has been loaded since; a reload was called by a past claim.
QueueShape(s, newest) ==
  /\ s \in Slot
  /\ \A i \in DOMAIN s.jobs :
       /\ i # 1 => s.jobs[i].phase = "queued"
       /\ s.jobs[i].life <= s.life
       /\ s.jobs[i].life # s.life => s.dispose
       /\ s.jobs[i].kind = "reload" => s.jobs[i].claim \in 1..newest
       /\ \A j \in DOMAIN s.jobs : i < j => s.jobs[i].life <= s.jobs[j].life

\* An append carries what the copy is, and what the head has read, or has made of
\* the log, fits if its copy could be vouched for with it.
HeadTruth(s, fit, live, owned, due) ==
  s.jobs # <<>> =>
    LET job == s.jobs[1]
    IN /\ job.phase = "reading" /\ job.kind # "apply" => s.stale \/ s.copy = 0
       /\ job.phase = "validated" => s.copy > 0
       /\ job.phase = "appending" => job.read = s.copy /\ job.read \in live
       /\ owned /\ (due = 0 \/ (job.kind = "reload" /\ job.claim = due)) =>
            /\ job.phase \in {"reading", "repairing"} => job.read \in fit
            /\ job.phase = "landed" => job.read + 1 \in fit

\* A fresh copy under a lease without debt fits.
CopyTruth(s, fit, owned, due) ==
  owned /\ due = 0 /\ s.copy > 0 /\ ~s.stale /\ ~s.dispose /\ ~Reloads(s) => s.copy \in fit

Good(s, newest, fit, live, owned, due) ==
  QueueShape(s, newest) /\ HeadTruth(s, fit, live, owned, due) /\ CopyTruth(s, fit, owned, due)

\* What is on its way is on its way to a game that goes on, and to the log of the claim.
StoreTruth ==
  /\ log \in Nat /\ over \in 0..log /\ stray \subseteq {"theirs", "ours"} /\ base \in 0..log
  /\ stray # {} => over = 0
  /\ "theirs" \in stray /\ lease => log = base

IInv == /\ StoreTruth /\ claims \in Nat /\ debt \in 0..claims
        /\ lease \in BOOLEAN /\ (lease => key = "me")
        /\ Good(slot, claims, Fit, Live, lease, debt)

-----------------------------------------------------------------------------
(* Lemmas about slots, of which t is what a step makes of s. *)

LEMMA JobTypes ==
  ASSUME NEW s \in Slot
  PROVE  /\ s.jobs \in Seq(Job) /\ Len(s.jobs) \in Nat /\ DOMAIN s.jobs = 1..Len(s.jobs)
         /\ s.life \in Nat /\ s.copy \in Nat
         /\ s.stale \in BOOLEAN /\ s.dispose \in BOOLEAN /\ s.stalled \in BOOLEAN
         /\ \A i \in DOMAIN s.jobs :
              /\ s.jobs[i] \in Job /\ s.jobs[i].life \in Nat /\ s.jobs[i].claim \in Nat /\ s.jobs[i].read \in Nat
              /\ s.jobs[i].kind \in {"load", "reload", "apply"} /\ i \in Nat
         /\ s.jobs # <<>> => 1 \in DOMAIN s.jobs /\ Head(s.jobs) = s.jobs[1]
<1>1. /\ s.jobs \in Seq(Job) /\ s.life \in Nat /\ s.copy \in Nat
      /\ s.stale \in BOOLEAN /\ s.dispose \in BOOLEAN /\ s.stalled \in BOOLEAN
  BY DEF Slot
<1>2. Len(s.jobs) \in Nat /\ DOMAIN s.jobs = 1..Len(s.jobs)
  BY <1>1, LenProperties
<1>3. \A i \in DOMAIN s.jobs : s.jobs[i] \in Job
  BY <1>1, <1>2, ElementOfSeq
<1>4. s.jobs # <<>> => Len(s.jobs) > 0
  BY <1>1, EmptySeq
<1>5. s.jobs # <<>> => Head(s.jobs) = s.jobs[1]
  BY <1>1
<1> QED
  BY <1>1, <1>2, <1>3, <1>4, <1>5 DEF Job

\* A slot with nothing in it vouches for nothing.
LEMMA EmptyIsGood ==
  ASSUME NEW life \in Nat, NEW newest, NEW fit, NEW live, NEW owned, NEW due
  PROVE  Good(EmptySlot(life), newest, fit, live, owned, due)
<1> DEFINE s == [life |-> life, copy |-> 0, stale |-> FALSE, dispose |-> FALSE, stalled |-> FALSE, jobs |-> <<>>]
<1>1. EmptySlot(life) = s
  BY DEF EmptySlot
<1>2. s \in Slot /\ s.jobs = <<>> /\ s.copy = 0
  BY EmptySeq DEF Slot
<1> HIDE DEF s
<1>3. DOMAIN s.jobs = {}
  BY <1>2
<1> QED
  BY <1>1, <1>2, <1>3 DEF Good, QueueShape, HeadTruth, CopyTruth

LEMMA SettledIsGood ==
  ASSUME NEW newest, NEW fit, NEW live, NEW owned, NEW due, NEW s, Good(s, newest, fit, live, owned, due)
  PROVE  Good(Settled(s), newest, fit, live, owned, due)
<1>1. CASE s.jobs = <<>> /\ (s.dispose \/ s.copy = 0)
  <2>1. s.life \in Nat
    BY JobTypes DEF Good, QueueShape
  <2>2. Settled(s) = EmptySlot(s.life + 1)
    BY <1>1 DEF Settled
  <2> QED
    BY <2>1, <2>2, EmptyIsGood
<1>2. CASE ~(s.jobs = <<>> /\ (s.dispose \/ s.copy = 0))
  <2>1. Settled(s) = s
    BY <1>2 DEF Settled
  <2> QED
    BY <2>1
<1> QED
  BY <1>1, <1>2

\* A job joins the queue.
LEMMA AppendedIsGood ==
  ASSUME NEW newest \in Nat, NEW fit, NEW live, NEW owned, NEW due, NEW s, Good(s, newest, fit, live, owned, due),
         NEW job \in Job, job.life = s.life, job.phase = "queued",
         job.kind = "reload" => job.claim \in 1..newest,
         NEW t \in Slot, t.jobs = Append(s.jobs, job),
         t.life = s.life /\ t.copy = s.copy /\ t.stale = s.stale /\ t.dispose = s.dispose
  PROVE  Good(t, newest, fit, live, owned, due) /\ (job.kind = "reload" => Reloads(t))
<1> DEFINE n == Len(s.jobs) + 1
<1>1. s \in Slot
  BY DEF Good, QueueShape
<1>2. /\ s.jobs \in Seq(Job) /\ Len(s.jobs) \in Nat /\ DOMAIN s.jobs = 1..Len(s.jobs)
      /\ s.life \in Nat /\ \A i \in DOMAIN s.jobs : s.jobs[i].life \in Nat
      /\ s.jobs # <<>> => 1 \in DOMAIN s.jobs
  BY <1>1, JobTypes
<1>3. /\ DOMAIN t.jobs = 1..n /\ t.jobs[n] = job
      /\ \A i \in DOMAIN s.jobs : t.jobs[i] = s.jobs[i]
  BY <1>2, AppendProperties, LenProperties
<1>4. \A i \in DOMAIN t.jobs : i = n \/ (i \in DOMAIN s.jobs /\ i < n)
  BY <1>2, <1>3
<1>5. /\ n \in Nat /\ n \in DOMAIN t.jobs /\ (s.jobs = <<>> => n = 1)
      /\ \A i \in DOMAIN s.jobs : i \in DOMAIN t.jobs
  BY <1>2, <1>3
<1> HIDE DEF n
<1>6. QueueShape(t, newest)
  <2>1. \A i \in DOMAIN t.jobs :
          /\ i # 1 => t.jobs[i].phase = "queued"
          /\ t.jobs[i].life <= t.life
          /\ t.jobs[i].life # t.life => t.dispose
          /\ t.jobs[i].kind = "reload" => t.jobs[i].claim \in 1..newest
    BY <1>2, <1>3, <1>4 DEF Good, QueueShape
  <2>2. \A i, j \in DOMAIN t.jobs : i < j => t.jobs[i].life <= t.jobs[j].life
    <3> TAKE i, j \in DOMAIN t.jobs
    <3> HAVE i < j
    <3>1. i \in DOMAIN s.jobs
      BY <1>2, <1>3, <1>4, <1>5
    <3>2. CASE j = n
      BY <1>3, <3>1, <3>2 DEF Good, QueueShape
    <3>3. CASE j \in DOMAIN s.jobs
      BY <1>3, <3>1, <3>3 DEF Good, QueueShape
    <3> QED
      BY <1>4, <3>2, <3>3
  <2> QED
    BY <2>1, <2>2 DEF QueueShape
<1>7. HeadTruth(t, fit, live, owned, due)
  <2>1. CASE s.jobs = <<>>
    BY <1>3, <1>5, <2>1 DEF HeadTruth
  <2>2. CASE s.jobs # <<>>
    BY <1>2, <1>3, <2>2 DEF Good, HeadTruth
  <2> QED
    BY <2>1, <2>2
<1>8. Reloads(s) => Reloads(t)
  <2> HAVE Reloads(s)
  <2>1. PICK i \in DOMAIN s.jobs : s.jobs[i].kind = "reload"
    BY DEF Reloads
  <2>2. i \in DOMAIN t.jobs /\ t.jobs[i].kind = "reload"
    BY <1>3, <1>5, <2>1
  <2> QED
    BY <2>2 DEF Reloads
<1>9. job.kind = "reload" => Reloads(t)
  BY <1>3, <1>5 DEF Reloads
<1>10. CopyTruth(t, fit, owned, due)
  BY <1>8 DEF Good, CopyTruth
<1> QED
  BY <1>6, <1>7, <1>9, <1>10 DEF Good

LEMMA EnqueuedIsGood ==
  ASSUME NEW newest \in Nat, NEW fit, NEW live, NEW owned, NEW due, NEW s, Good(s, newest, fit, live, owned, due),
         NEW kind \in {"load", "reload", "apply"}, NEW c \in Cmd \cup {None}, NEW claim \in Nat,
         kind = "reload" => claim \in 1..newest
  PROVE  /\ Good(Enqueued(s, kind, c, claim), newest, fit, live, owned, due)
         /\ kind = "reload" => Reloads(Enqueued(s, kind, c, claim))
<1>1. s \in Slot
  BY DEF Good, QueueShape
<1>2. s.jobs \in Seq(Job) /\ s.life \in Nat
  BY <1>1, JobTypes
<1> DEFINE job == [kind |-> kind, cmd |-> c, life |-> s.life, claim |-> claim, phase |-> "queued", read |-> 0]
           t == [s EXCEPT !.jobs = Append(s.jobs, job)]
<1>3. Enqueued(s, kind, c, claim) = t
  BY DEF Enqueued
<1>4. job \in Job /\ job.life = s.life /\ job.phase = "queued" /\ job.kind = kind /\ job.claim = claim
  BY <1>2 DEF Job
<1> HIDE DEF job
<1>5. Append(s.jobs, job) \in Seq(Job)
  BY <1>2, <1>4, AppendProperties
<1>6. /\ t \in Slot /\ t.jobs = Append(s.jobs, job)
      /\ t.life = s.life /\ t.copy = s.copy /\ t.stale = s.stale /\ t.dispose = s.dispose
  BY <1>1, <1>5 DEF Slot
<1> HIDE DEF t
<1>7. Good(t, newest, fit, live, owned, due) /\ (job.kind = "reload" => Reloads(t))
  BY <1>4, <1>6, AppendedIsGood
<1> QED
  BY <1>3, <1>4, <1>7

\* The head leaves, and what it leaves is the log if a copy may be vouched for.
LEMMA TailIsGood ==
  ASSUME NEW newest \in Nat, NEW fit, NEW live, NEW owned, NEW due, NEW s, QueueShape(s, newest), s.jobs # <<>>,
         \/ s.jobs[1].kind # "reload" /\ CopyTruth(s, fit, owned, due)
         \/ owned /\ due = 0 /\ s.copy > 0 /\ ~s.stale /\ ~s.dispose => s.copy \in fit
  PROVE  Good(Shifted(s), newest, fit, live, owned, due)
<1> DEFINE t == [s EXCEPT !.jobs = Tail(s.jobs)]
<1>1. s \in Slot
  BY DEF QueueShape
<1>2. s.jobs \in Seq(Job) /\ Len(s.jobs) \in Nat /\ DOMAIN s.jobs = 1..Len(s.jobs)
  BY <1>1, JobTypes
<1>3. /\ Tail(s.jobs) \in Seq(Job) /\ DOMAIN Tail(s.jobs) = 1..Len(s.jobs) - 1
      /\ \A i \in DOMAIN Tail(s.jobs) : Tail(s.jobs)[i] = s.jobs[i + 1]
  BY <1>2, HeadTailProperties, LenProperties
<1>4. /\ t \in Slot /\ t.jobs = Tail(s.jobs)
      /\ t.life = s.life /\ t.copy = s.copy /\ t.stale = s.stale /\ t.dispose = s.dispose
  BY <1>1, <1>3 DEF Slot
<1>5. Shifted(s) = Settled(t)
  BY DEF Shifted
<1> HIDE DEF t
<1>6. \A i \in DOMAIN t.jobs : i + 1 \in DOMAIN s.jobs /\ i + 1 # 1 /\ t.jobs[i] = s.jobs[i + 1] /\ i \in Nat
  BY <1>2, <1>3, <1>4
<1>7. \A i \in DOMAIN t.jobs : t.jobs[i].phase = "queued"
  BY <1>6 DEF QueueShape
<1>8. QueueShape(t, newest)
  <2>1. \A i \in DOMAIN t.jobs :
          /\ t.jobs[i].life <= t.life
          /\ t.jobs[i].life # t.life => t.dispose
          /\ t.jobs[i].kind = "reload" => t.jobs[i].claim \in 1..newest
    BY <1>4, <1>6 DEF QueueShape
  <2>2. \A i, j \in DOMAIN t.jobs : i < j => t.jobs[i].life <= t.jobs[j].life
    <3> TAKE i, j \in DOMAIN t.jobs
    <3> HAVE i < j
    <3>1. i + 1 < j + 1 /\ i + 1 \in DOMAIN s.jobs /\ j + 1 \in DOMAIN s.jobs
      BY <1>6
    <3>2. s.jobs[i + 1].life <= s.jobs[j + 1].life
      BY <3>1 DEF QueueShape
    <3> QED
      BY <1>6, <3>2
  <2> QED
    BY <1>4, <1>7, <2>1, <2>2 DEF QueueShape
<1>9. HeadTruth(t, fit, live, owned, due)
  <2>1. t.jobs # <<>> => 1 \in DOMAIN t.jobs
    BY <1>4, JobTypes
  <2> QED
    BY <1>7, <2>1 DEF HeadTruth
<1>10. CopyTruth(t, fit, owned, due)
  <2>1. CASE owned /\ due = 0 /\ s.copy > 0 /\ ~s.stale /\ ~s.dispose => s.copy \in fit
    BY <1>4, <2>1 DEF CopyTruth
  <2>2. CASE s.jobs[1].kind # "reload" /\ CopyTruth(s, fit, owned, due)
    <3>1. Reloads(s) => Reloads(t)
      <4> HAVE Reloads(s)
      <4>1. PICK i \in DOMAIN s.jobs : s.jobs[i].kind = "reload"
        BY DEF Reloads
      <4>2. i # 1 /\ i \in Nat
        BY <1>2, <2>2, <4>1
      <4>3. i - 1 \in DOMAIN t.jobs /\ (i - 1) + 1 = i
        BY <1>2, <1>3, <1>4, <4>2
      <4>4. t.jobs[i - 1] = s.jobs[(i - 1) + 1]
        BY <1>6, <4>3
      <4>5. t.jobs[i - 1].kind = "reload"
        BY <4>1, <4>3, <4>4
      <4> QED
        BY <4>3, <4>5 DEF Reloads
    <3> QED
      BY <1>4, <2>2, <3>1 DEF CopyTruth
  <2> QED
    BY <2>1, <2>2
<1>11. Good(t, newest, fit, live, owned, due)
  BY <1>8, <1>9, <1>10 DEF Good
<1> QED
  BY <1>5, <1>11, SettledIsGood

\* The head goes on under the job j, and the copy may be marked or read again.
LEMMA HeadIsGood ==
  ASSUME NEW newest, NEW fit, NEW live, NEW owned, NEW due, NEW s, QueueShape(s, newest), s.jobs # <<>>,
         NEW j \in Job, j.life = s.jobs[1].life, j.kind = s.jobs[1].kind, j.claim = s.jobs[1].claim,
         NEW t \in Slot, t.jobs = [s.jobs EXCEPT ![1] = j], t.life = s.life, t.dispose = s.dispose,
         j.phase = "reading" /\ j.kind # "apply" => t.stale \/ t.copy = 0,
         j.phase = "validated" => t.copy > 0,
         j.phase = "appending" => j.read = t.copy /\ j.read \in live,
         (owned /\ due = 0) \/ j.kind # "apply" =>
           /\ j.phase \in {"reading", "repairing"} => j.read \in fit
           /\ j.phase = "landed" => j.read + 1 \in fit,
         \/ t.stale \/ t.copy = 0
         \/ t.copy = s.copy /\ t.stale = s.stale /\ CopyTruth(s, fit, owned, due)
         \/ owned /\ due = 0 => t.copy \in fit
  PROVE  Good(t, newest, fit, live, owned, due)
<1>1. s \in Slot
  BY DEF QueueShape
<1>2. /\ s.jobs \in Seq(Job) /\ Len(s.jobs) \in Nat /\ DOMAIN s.jobs = 1..Len(s.jobs)
      /\ 1 \in DOMAIN s.jobs
  BY <1>1, JobTypes
<1>3. /\ DOMAIN t.jobs = DOMAIN s.jobs /\ t.jobs[1] = j
      /\ \A i \in DOMAIN s.jobs : i # 1 => t.jobs[i] = s.jobs[i]
  BY <1>2
<1>4. \A i \in DOMAIN s.jobs : /\ t.jobs[i].life = s.jobs[i].life /\ t.jobs[i].kind = s.jobs[i].kind
                               /\ t.jobs[i].claim = s.jobs[i].claim
  BY <1>3
<1>5. QueueShape(t, newest)
  BY <1>3, <1>4 DEF QueueShape
<1>6. HeadTruth(t, fit, live, owned, due)
  <2> SUFFICES ASSUME t.jobs # <<>> PROVE HeadTruth(t, fit, live, owned, due)
    BY DEF HeadTruth
  <2>1. j.kind = "reload" => j.kind # "apply"
    OBVIOUS
  <2> QED
    BY <1>3, <2>1 DEF HeadTruth
<1>7. Reloads(t) <=> Reloads(s)
  BY <1>3, <1>4 DEF Reloads
<1>8. CopyTruth(t, fit, owned, due)
  BY <1>7 DEF CopyTruth
<1> QED
  BY <1>5, <1>6, <1>8 DEF Good

\* Whose lease it is and what is owed can change as long as no copy can then be
\* vouched for that could not be before.
LEMMA OwnerIsGood ==
  ASSUME NEW newest \in Nat, NEW fit, NEW live, NEW owned, NEW due, NEW s, Good(s, newest, fit, live, owned, due),
         NEW later \in Nat, newest <= later, NEW fit2, NEW live2, NEW owned2, NEW due2,
         live \subseteq live2,
         owned2 => due2 \in Nat /\ due2 > newest
  PROVE  Good(s, later, fit2, live2, owned2, due2)
<1>1. s \in Slot
  BY DEF Good, QueueShape
<1>2. QueueShape(s, later)
  BY DEF Good, QueueShape
<1>3. HeadTruth(s, fit2, live2, owned2, due2)
  <2>1. s.jobs # <<>> => 1 \in DOMAIN s.jobs
    BY <1>1, JobTypes
  <2>2. s.jobs # <<>> /\ owned2 => ~(due2 = 0 \/ (s.jobs[1].kind = "reload" /\ s.jobs[1].claim = due2))
    BY <2>1 DEF Good, QueueShape
  <2> QED
    BY <2>2 DEF Good, HeadTruth
<1>4. CopyTruth(s, fit2, owned2, due2)
  BY DEF CopyTruth
<1> QED
  BY <1>2, <1>3, <1>4 DEF Good

\* More fits, and no less may have been sent: an append has landed, or is on its way.
LEMMA MoreIsGood ==
  ASSUME NEW newest, NEW fit, NEW live, NEW owned, NEW due, NEW s, Good(s, newest, fit, live, owned, due),
         NEW fit2, NEW live2, live \subseteq live2, owned => fit \subseteq fit2
  PROVE  Good(s, newest, fit2, live2, owned, due)
<1>1. HeadTruth(s, fit2, live2, owned, due)
  BY DEF Good, HeadTruth
<1>2. CopyTruth(s, fit2, owned, due)
  BY DEF Good, CopyTruth
<1> QED
  BY <1>1, <1>2 DEF Good

-----------------------------------------------------------------------------
(* The initial state, and the steps that leave the slot alone. *)

Appending(s) == s.jobs # <<>> /\ s.jobs[1].phase = "appending"

\* What the append that is under way may carry; a step that sends none keeps to it.
UnderWay == {v \in Live : Appending(slot)}

LEMMA InitIsGood ==
  ASSUME Init
  PROVE  IInv
<1>1. Good(EmptySlot(1), claims, Fit, Live, lease, debt)
  BY EmptyIsGood
<1>2. slot = EmptySlot(1) /\ log = 1 /\ over = 0 /\ stray = {} /\ base = 0 /\ claims = 0 /\ debt = 0 /\ lease = FALSE
  BY DEF Init
<1>3. log \in Nat /\ over \in 0..log /\ base \in 0..log /\ claims \in Nat /\ debt \in 0..claims
  BY <1>2
<1>4. StoreTruth
  BY <1>2, <1>3 DEF StoreTruth
<1> QED
  BY <1>1, <1>2, <1>3, <1>4 DEF IInv

LEMMA Now ==
  ASSUME IInv
  PROVE  /\ Good(slot, claims, Fit, UnderWay, lease, debt) /\ slot \in Slot
         /\ log \in Nat /\ claims \in Nat /\ debt \in 0..claims
         /\ UnderWay \subseteq Live
<1>1. QueueShape(slot, claims) /\ HeadTruth(slot, Fit, Live, lease, debt) /\ CopyTruth(slot, Fit, lease, debt)
  BY DEF IInv, Good
<1>2. HeadTruth(slot, Fit, UnderWay, lease, debt)
  BY <1>1 DEF HeadTruth, UnderWay, Appending
<1>3. slot \in Slot
  BY <1>1 DEF QueueShape
<1> QED
  BY <1>1, <1>2, <1>3 DEF Good, IInv, StoreTruth, UnderWay

LEMMA NothingIsSent ==
  ASSUME IInv, NEW fit, NEW newest, NEW owned, NEW due, Good(slot', newest, fit, UnderWay, owned, due)
  PROVE  ~Sends
<1>1. slot'.jobs # <<>> /\ slot'.jobs[1].phase = "appending" => Appending(slot)
  BY DEF Good, HeadTruth, UnderWay
<1>2. slot.jobs # <<>> => Head(slot.jobs) = slot.jobs[1]
  BY Now, JobTypes
<1> QED
  BY <1>1, <1>2 DEF Sends, Running, Appending

\* Only the slot has changed, and a debt may have been settled.
LEMMA SlotIsGood ==
  ASSUME IInv, UNCHANGED <<store, owner>>, debt' \in {debt, 0}, Good(slot', claims, Fit, UnderWay, lease, debt')
  PROVE  IInv' /\ AppendsAreTheOwners
<1>1. /\ log' = log /\ over' = over /\ stray' = stray /\ base' = base
      /\ key' = key /\ lease' = lease /\ claims' = claims
  BY DEF store, owner
<1>2. Fit' = Fit /\ Live' = Live
  BY <1>1 DEF Fit, Live
<1>3. claims \in Nat /\ debt \in 0..claims /\ UnderWay \subseteq Live
  BY Now
<1>4. Good(slot', claims, Fit, Live, lease, debt')
  <2>1. Fit \subseteq Fit
    OBVIOUS
  <2> QED
    BY <1>3, <2>1, MoreIsGood
<1>5. debt' \in 0..claims
  BY <1>3
<1>6. StoreTruth'
  BY <1>1 DEF IInv, StoreTruth
<1>7. AppendsAreTheOwners
  BY <1>1, NothingIsSent DEF AppendsAreTheOwners
<1> QED
  BY <1>1, <1>2, <1>3, <1>4, <1>5, <1>6, <1>7 DEF IInv

\* Nothing is sent while the slot stays, and the log may stay.
LEMMA SameSlotSendsNothing ==
  ASSUME IInv, UNCHANGED slot
  PROVE  ~Sends
BY Now, NothingIsSent

\* Nothing that matters to the slot changes.
LEMMA QuietIsGood ==
  ASSUME IInv, UNCHANGED <<store, base, claims, debt, lease, slot>>, lease => key' = "me"
  PROVE  IInv' /\ AppendsAreTheOwners
<1>1. /\ log' = log /\ over' = over /\ stray' = stray /\ base' = base
      /\ lease' = lease /\ claims' = claims /\ debt' = debt /\ slot' = slot
  BY DEF store
<1>2. Fit' = Fit /\ Live' = Live
  BY <1>1 DEF Fit, Live
<1>3. StoreTruth'
  BY <1>1 DEF IInv, StoreTruth
<1>4. IInv'
  BY <1>1, <1>2, <1>3 DEF IInv
<1> QED
  BY <1>1, <1>4, SameSlotSendsNothing DEF AppendsAreTheOwners

LEMMA QuietSteps ==
  ASSUME IInv, NEW c, KeyLapses \/ RivalClaims \/ StartExpiry(c) \/ StartPlayer(c) \/ Capture(c)
  PROVE  IInv' /\ AppendsAreTheOwners
<1>1. UNCHANGED <<store, base, claims, debt, lease, slot>>
  BY DEF KeyLapses, RivalClaims, StartExpiry, StartPlayer, Capture, owner
<1>2. lease => key' = "me"
  BY DEF IInv, KeyLapses, RivalClaims, StartExpiry, StartPlayer, Capture, owner
<1> QED
  BY <1>1, <1>2, QuietIsGood

\* There is no lease, and nothing is vouched for.
LEMMA UnownedIsGood ==
  ASSUME IInv, UNCHANGED <<log, over, claims, slot>>, StoreTruth', debt' \in 0..claims, lease' = FALSE
  PROVE  IInv' /\ AppendsAreTheOwners
<1>1. Good(slot, claims, Fit, Live, lease, debt) /\ claims \in Nat
  BY DEF IInv
<1>2. claims <= claims /\ Live \subseteq Live'
  BY <1>1 DEF Live
<1>3. Good(slot, claims, Fit', Live', FALSE, debt')
  BY <1>1, <1>2, OwnerIsGood
<1>4. IInv'
  BY <1>1, <1>3 DEF IInv
<1> QED
  BY <1>4, SameSlotSendsNothing DEF AppendsAreTheOwners

\* A claim leaves a debt that no job in the queue can settle.
LEMMA ClaimIsGood ==
  ASSUME IInv, UNCHANGED <<store, slot>>, Claimed
  PROVE  IInv' /\ AppendsAreTheOwners
<1>1. Good(slot, claims, Fit, Live, lease, debt) /\ claims \in Nat /\ log \in Nat /\ StoreTruth
  BY DEF IInv, StoreTruth
<1> DEFINE later == claims + 1
<1>2. later \in Nat /\ claims <= later /\ later > claims /\ later \in 0..later
  BY <1>1
<1>3. lease' = TRUE /\ key' = "me" /\ claims' = later /\ debt' = later /\ base' = log
  BY DEF Claimed
<1> HIDE DEF later
<1>4. log' = log /\ over' = over /\ stray' = stray /\ slot' = slot
  BY DEF store
<1>5. Live \subseteq Live'
  BY <1>4 DEF Live
<1>6. Good(slot, later, Fit', Live', lease', later)
  <2>1. lease' => later \in Nat /\ later > claims
    BY <1>2
  <2> QED
    BY <1>1, <1>2, <1>5, <2>1, OwnerIsGood
<1>7. StoreTruth'
  <2>1. base' \in 0..log'
    BY <1>1, <1>3, <1>4
  <2> QED
    BY <1>1, <1>3, <1>4, <2>1 DEF StoreTruth
<1>8. IInv'
  BY <1>2, <1>3, <1>4, <1>6, <1>7 DEF IInv
<1> QED
  BY <1>4, <1>8, SameSlotSendsNothing DEF AppendsAreTheOwners

\* What landed was sent to the whole log, and the log takes nothing more.
LEMMA StrayLandsStep ==
  ASSUME IInv, StrayLands
  PROVE  IInv' /\ AppendsAreTheOwners
<1>1. /\ stray # {} /\ log' = log + 1 /\ stray' = {} /\ (over' = log + 1 \/ over' = over)
      /\ UNCHANGED <<key, lease, claims, base, debt, slot>>
  BY DEF StrayLands, Lands, owner
<1>2. /\ StoreTruth /\ log \in Nat /\ over \in 0..log /\ base \in 0..log /\ over = 0
      /\ stray \subseteq {"theirs", "ours"}
      /\ "theirs" \in stray /\ lease => log = base
  BY <1>1 DEF IInv, StoreTruth
<1>3. StoreTruth'
  <2>1. log' \in Nat /\ over' \in 0..log' /\ base' \in 0..log'
    BY <1>1, <1>2
  <2> QED
    BY <1>1, <2>1 DEF StoreTruth
<1>4. Live \subseteq Live' /\ Fit \subseteq Fit'
  <2>1. ASSUME NEW v \in Live
        PROVE  v \in Live'
    BY <1>1, <1>2, <2>1 DEF Live
  <2>2. ASSUME NEW v \in Fit
        PROVE  v \in Fit'
    <3>1. v \in Nat /\ base <= v /\ v = log
      BY <1>1, <2>2 DEF Fit
    <3> QED
      BY <1>1, <3>1 DEF Fit
  <2> QED
    BY <2>1, <2>2
<1>5. Good(slot, claims, Fit', Live', lease, debt)
  BY <1>4, MoreIsGood DEF IInv
<1>6. IInv'
  BY <1>1, <1>3, <1>5 DEF IInv
<1>7. lease => log = base \/ "ours" \in stray
  BY <1>1, <1>2
<1> QED
  BY <1>1, <1>2, <1>6, <1>7, SameSlotSendsNothing DEF AppendsAreTheOwners

LEMMA OwnerSteps ==
  ASSUME IInv, NEW c, Lapse \/ RenewalClaims \/ RivalSends \/ Route(c) \/ LetGo(c)
  PROVE  IInv' /\ AppendsAreTheOwners
<1>0. log \in Nat /\ claims \in Nat /\ debt \in 0..claims /\ StoreTruth
  BY DEF IInv, StoreTruth
<1>1. CASE Lapse
  <2>1. UNCHANGED <<claims, slot, store>> /\ lease' = FALSE /\ base' = 0 /\ debt' \in {debt, 0}
    BY <1>1 DEF Lapse
  <2>2. debt' \in 0..claims /\ 0 \in 0..log
    BY <1>0, <2>1
  <2>3. StoreTruth'
    BY <1>0, <2>1, <2>2 DEF StoreTruth, store
  <2> QED
    BY <2>1, <2>2, <2>3, UnownedIsGood DEF store
<1>2. CASE RenewalClaims
  BY <1>2, ClaimIsGood DEF RenewalClaims
<1>3. CASE RivalSends
  <2>1. /\ UNCHANGED <<log, over, base, claims, slot>> /\ key = "rival" /\ over = 0
        /\ stray' = stray \cup {"theirs"} /\ lease' = lease /\ debt' = debt
    BY <1>3 DEF RivalSends, owner
  <2>2. lease' = FALSE
    BY <2>1 DEF IInv
  <2>3. StoreTruth'
    BY <1>0, <2>1, <2>2 DEF StoreTruth
  <2> QED
    BY <1>0, <2>1, <2>2, <2>3, UnownedIsGood
<1>4. CASE Route(c)
  <2>1. UNCHANGED <<store, slot>>
    BY <1>4 DEF Route
  <2>2. CASE UNCHANGED <<owner, debt>>
    BY <2>1, <2>2, QuietIsGood DEF owner, IInv
  <2>3. CASE Claimed
    BY <2>1, <2>3, ClaimIsGood
  <2> QED
    BY <1>4, <2>2, <2>3 DEF Route
<1>5. CASE LetGo(c)
  <2>1. UNCHANGED <<store, slot>>
    BY <1>5 DEF LetGo
  <2>2. CASE lease' = FALSE /\ base' = 0 /\ debt' = 0 /\ UNCHANGED claims
    <3>1. debt' \in 0..claims /\ 0 \in 0..log
      BY <1>0, <2>2
    <3>2. StoreTruth'
      BY <1>0, <2>1, <2>2, <3>1 DEF StoreTruth, store
    <3> QED
      BY <2>1, <2>2, <3>1, <3>2, UnownedIsGood DEF store
  <2>3. CASE UNCHANGED <<owner, debt>>
    BY <2>1, <2>3, QuietIsGood DEF IInv, owner
  <2> QED
    BY <1>5, <2>2, <2>3 DEF LetGo
<1> QED
  BY <1>1, <1>2, <1>3, <1>4, <1>5

-----------------------------------------------------------------------------
(* Jobs that join the queue. *)

LEMMA EnqueueSteps ==
  ASSUME IInv, NEW c \in Cmd \cup {None}, Join \/ EnsureLoaded(c) \/ Submit(c)
  PROVE  IInv' /\ AppendsAreTheOwners
<1>1. Good(slot, claims, Fit, UnderWay, lease, debt) /\ claims \in Nat
  BY Now
<1>2. UNCHANGED <<store, owner, debt>>
  BY DEF Join, EnsureLoaded, Submit
<1>3. \/ slot' = slot
      \/ slot' = Enqueued(slot, "load", c, 0)
      \/ slot' = Enqueued(slot, "load", None, 0)
      \/ slot' = Enqueued(slot, "apply", c, 0)
  BY DEF Join, EnsureLoaded, Submit
<1>4. \A kind \in {"load", "apply"}, x \in Cmd \cup {None} : Good(Enqueued(slot, kind, x, 0), claims, Fit, UnderWay, lease, debt)
  <2> TAKE kind \in {"load", "apply"}, x \in Cmd \cup {None}
  <2>1. kind \in {"load", "reload", "apply"} /\ kind # "reload" /\ 0 \in Nat
    OBVIOUS
  <2> QED
    BY <1>1, <2>1, EnqueuedIsGood
<1>5. Good(slot', claims, Fit, UnderWay, lease, debt)
  BY <1>1, <1>3, <1>4
<1> QED
  BY <1>2, <1>5, SlotIsGood

\* The reload that is to settle a debt joins the queue, and what is resident is stale.
LEMMA SettleStep ==
  ASSUME IInv, NEW c, Settle(c)
  PROVE  IInv' /\ AppendsAreTheOwners
<1>1. Good(slot, claims, Fit, UnderWay, lease, debt) /\ claims \in Nat /\ debt \in 0..claims
  BY Now
<1>2. UNCHANGED <<store, owner, debt>>
  BY DEF Settle
<1>3. CASE slot' = slot
  BY <1>1, <1>2, <1>3, SlotIsGood
<1>4. CASE debt # 0 /\ slot' = [Enqueued(slot, "reload", None, debt) EXCEPT !.stale = slot.copy > 0]
  <2>1. "reload" \in {"load", "reload", "apply"} /\ None \in Cmd \cup {None} /\ debt \in Nat /\ debt \in 1..claims
    BY <1>1, <1>4
  <2> DEFINE q == Enqueued(slot, "reload", None, debt)
             mark == slot.copy > 0
             t == [q EXCEPT !.stale = mark]
  <2>2. Good(q, claims, Fit, UnderWay, lease, debt) /\ Reloads(q) /\ q.copy = slot.copy
    <3>1. \A kind \in {"load", "reload", "apply"}, x \in Cmd \cup {None} :
            /\ Good(Enqueued(slot, kind, x, debt), claims, Fit, UnderWay, lease, debt)
            /\ kind = "reload" => Reloads(Enqueued(slot, kind, x, debt))
      BY <1>1, <2>1, EnqueuedIsGood
    <3>2. slot \in Slot
      BY <1>1 DEF Good, QueueShape
    <3>3. q.copy = slot.copy
      BY <3>2 DEF Enqueued, Slot
    <3> QED
      BY <2>1, <3>1, <3>3
  <2>3. slot' = t
    BY <1>4
  <2> HIDE DEF q
  <2>4. q \in Slot /\ slot \in Slot
    BY <1>1, <2>2 DEF Good, QueueShape
  <2>5. slot.copy \in Nat
    BY <2>4, JobTypes
  <2>6. mark \in BOOLEAN /\ (mark \/ slot.copy = 0)
    BY <2>5
  <2> HIDE DEF mark
  <2>7. /\ t \in Slot /\ t.jobs = q.jobs /\ t.life = q.life /\ t.copy = q.copy /\ t.dispose = q.dispose
        /\ t.stale \/ t.copy = 0
    <3>1. t \in Slot /\ t.stale = mark
      BY <2>4, <2>6 DEF Slot
    <3>2. t.jobs = q.jobs /\ t.life = q.life /\ t.copy = q.copy /\ t.dispose = q.dispose
      BY <2>4 DEF Slot
    <3> QED
      BY <2>2, <2>6, <3>1, <3>2
  <2> HIDE DEF t
  <2>8. QueueShape(t, claims)
    BY <2>2, <2>7 DEF Good, QueueShape
  <2>9. HeadTruth(t, Fit, UnderWay, lease, debt)
    BY <2>2, <2>7 DEF Good, HeadTruth
  <2>10. CopyTruth(t, Fit, lease, debt)
    <3>1. Reloads(t)
      BY <2>2, <2>7 DEF Reloads
    <3> QED
      BY <3>1 DEF CopyTruth
  <2> QED
    BY <1>2, <2>3, <2>8, <2>9, <2>10, SlotIsGood DEF Good
<1> QED
  BY <1>3, <1>4 DEF Settle

-----------------------------------------------------------------------------
(* What the job at the head does to the slot. *)

LEMMA HeadTypes ==
  ASSUME IInv, NEW kinds, NEW phases, Running(kinds, phases)
  PROVE  /\ slot \in Slot /\ slot.jobs # <<>> /\ Head(slot.jobs) = slot.jobs[1] /\ slot.jobs \in Seq(Job)
         /\ 1 \in DOMAIN slot.jobs /\ slot.jobs[1] \in Job /\ slot.jobs[1].read \in Nat
         /\ slot.jobs[1].kind \in kinds /\ slot.jobs[1].phase \in phases
         /\ slot.copy \in Nat /\ slot.life \in Nat /\ slot.stale \in BOOLEAN /\ slot.dispose \in BOOLEAN
         /\ slot.jobs[1].life \in Nat /\ slot.jobs[1].life <= slot.life
         /\ (slot.jobs[1].life # slot.life => slot.dispose)
         /\ QueueShape(slot, claims) /\ HeadTruth(slot, Fit, Live, lease, debt) /\ CopyTruth(slot, Fit, lease, debt)
         /\ claims \in Nat /\ debt \in 0..claims
<1>1. QueueShape(slot, claims) /\ HeadTruth(slot, Fit, Live, lease, debt) /\ CopyTruth(slot, Fit, lease, debt)
  BY DEF IInv, Good
<1>2. slot \in Slot
  BY <1>1 DEF QueueShape
<1>3. slot.jobs # <<>>
  BY DEF Running
<1>4. /\ Head(slot.jobs) = slot.jobs[1] /\ slot.jobs \in Seq(Job) /\ 1 \in DOMAIN slot.jobs
      /\ slot.jobs[1] \in Job /\ slot.jobs[1].life \in Nat /\ slot.jobs[1].read \in Nat
      /\ slot.copy \in Nat /\ slot.life \in Nat /\ slot.stale \in BOOLEAN /\ slot.dispose \in BOOLEAN
  BY <1>2, <1>3, JobTypes
<1>5. slot.jobs[1].kind \in kinds /\ slot.jobs[1].phase \in phases
  BY <1>4 DEF Running
<1>6. slot.jobs[1].life <= slot.life /\ (slot.jobs[1].life # slot.life => slot.dispose)
  BY <1>1, <1>4 DEF QueueShape
<1>7. claims \in Nat /\ debt \in 0..claims
  BY DEF IInv
<1> QED
  BY <1>1, <1>2, <1>3, <1>4, <1>5, <1>6, <1>7

\* The log itself fits.
LEMMA LogFits ==
  ASSUME IInv
  PROVE  log \in Fit /\ log \in Nat
BY DEF IInv, StoreTruth, Fit

\* The head goes on as the job j, in a slot that is s otherwise.
Moved(s, t, j) ==
  /\ t \in Slot /\ t.jobs = [s.jobs EXCEPT ![1] = j] /\ t.life = s.life /\ t.dispose = s.dispose
  /\ t.copy = s.copy /\ t.stale = s.stale /\ t.stalled = s.stalled
  /\ t.jobs # <<>> /\ t.jobs[1] = j

LEMMA Advanced ==
  ASSUME NEW s \in Slot, s.jobs # <<>>, NEW phase, NEW read \in Nat, Advance(s, phase, read),
         phase \in {"queued", "reading", "loaded", "validated", "appending", "landed", "repairing"}
  PROVE  \E j \in Job : /\ j.life = s.jobs[1].life /\ j.kind = s.jobs[1].kind /\ j.claim = s.jobs[1].claim
                        /\ j.phase = phase /\ j.read = read
                        /\ Moved(s, slot', j)
<1> DEFINE job == s.jobs[1]
           p == [job EXCEPT !.phase = phase]
           j == [p EXCEPT !.read = read]
           first == [s.jobs EXCEPT ![1] = p]
           jobs == [s.jobs EXCEPT ![1] = j]
           q == [s EXCEPT !.jobs = first]
<1>1. s.jobs \in Seq(Job) /\ 1 \in DOMAIN s.jobs /\ 1 \in 1..Len(s.jobs) /\ job \in Job
  BY JobTypes
<1>2. /\ p \in Job /\ p.life = job.life /\ p.kind = job.kind /\ p.claim = job.claim /\ p.phase = phase
  BY <1>1 DEF Job
<1>3. /\ j \in Job /\ j.life = job.life /\ j.kind = job.kind /\ j.claim = job.claim
      /\ j.phase = phase /\ j.read = read
  <2> HIDE DEF p
  <2> QED
    BY <1>2 DEF Job
<1>4. slot' = [[s EXCEPT !.jobs[1].phase = phase] EXCEPT !.jobs[1].read = read]
  BY DEF Advance
<1>5. [s EXCEPT !.jobs[1].phase = phase] = q
  BY <1>1
<1>6. first \in Seq(Job) /\ jobs \in Seq(Job)
  <2> HIDE DEF p, j
  <2> QED
    BY <1>1, <1>2, <1>3, ExceptSeq
<1>7. first[1] = p /\ jobs = [first EXCEPT ![1] = j] /\ jobs[1] = j /\ jobs # <<>>
  <2> HIDE DEF p, j
  <2>1. first[1] = p /\ jobs = [first EXCEPT ![1] = j] /\ jobs[1] = j /\ 1 \in DOMAIN jobs
    BY <1>1
  <2>2. DOMAIN jobs = 1..Len(jobs) /\ Len(jobs) \in Nat
    BY <1>6, LenProperties
  <2> QED
    BY <1>6, <2>1, <2>2, EmptySeq
<1> HIDE DEF first, jobs
<1>8. q \in Slot /\ q.jobs = first
  BY <1>6 DEF Slot
<1>9. /\ q.life = s.life /\ q.dispose = s.dispose /\ q.copy = s.copy
      /\ q.stale = s.stale /\ q.stalled = s.stalled
  BY DEF Slot
<1> HIDE DEF q
<1>10. slot' = [q EXCEPT !.jobs = jobs]
  BY <1>4, <1>5, <1>7, <1>8
<1> HIDE DEF p, j
<1>11. /\ slot' \in Slot /\ slot'.jobs = jobs /\ slot'.life = q.life /\ slot'.dispose = q.dispose
       /\ slot'.copy = q.copy /\ slot'.stale = q.stale /\ slot'.stalled = q.stalled
  BY <1>6, <1>8, <1>10 DEF Slot
<1>12. Moved(s, slot', j)
  BY <1>7, <1>9, <1>11 DEF Moved, jobs
<1> QED
  BY <1>3, <1>12

\* The slot is s with another copy and other marks.
Remade(t, s, copy, mark, flag, stop) ==
  /\ t \in Slot /\ t.jobs = s.jobs /\ t.life = s.life
  /\ t.copy = copy /\ t.stale = mark /\ t.dispose = flag /\ t.stalled = stop

LEMMA Remakes ==
  ASSUME NEW s \in Slot, NEW copy \in Nat, NEW mark \in BOOLEAN, NEW flag \in BOOLEAN, NEW stop \in BOOLEAN
  PROVE  /\ Remade([s EXCEPT !.copy = copy, !.stale = mark, !.dispose = flag], s, copy, mark, flag, s.stalled)
         /\ Remade([s EXCEPT !.copy = copy, !.stale = mark], s, copy, mark, s.dispose, s.stalled)
         /\ Remade([s EXCEPT !.copy = copy, !.stale = mark, !.stalled = stop], s, copy, mark, s.dispose, stop)
         /\ Remade([s EXCEPT !.stalled = stop, !.stale = mark], s, s.copy, mark, s.dispose, stop)
         /\ Remade([s EXCEPT !.stale = mark], s, s.copy, mark, s.dispose, s.stalled)
         /\ Remade([s EXCEPT !.stalled = stop], s, s.copy, s.stale, s.dispose, stop)
<1> DEFINE a == [s EXCEPT !.copy = copy]
           b == [a EXCEPT !.stale = mark]
           c == [b EXCEPT !.dispose = flag]
           d == [b EXCEPT !.stalled = stop]
           e == [s EXCEPT !.stalled = stop]
           f == [e EXCEPT !.stale = mark]
           g == [s EXCEPT !.stale = mark]
<1>1. Remade(a, s, copy, s.stale, s.dispose, s.stalled)
  BY DEF Slot, Remade
<1>2. Remade(e, s, s.copy, s.stale, s.dispose, stop)
  BY DEF Slot, Remade
<1>3. Remade(g, s, s.copy, mark, s.dispose, s.stalled)
  BY DEF Slot, Remade
<1> HIDE DEF a, e
<1>4. Remade(b, s, copy, mark, s.dispose, s.stalled)
  BY <1>1 DEF Slot, Remade
<1>5. Remade(f, s, s.copy, mark, s.dispose, stop)
  BY <1>2 DEF Slot, Remade
<1> HIDE DEF b
<1>6. Remade(c, s, copy, mark, flag, s.stalled) /\ Remade(d, s, copy, mark, s.dispose, stop)
  BY <1>4 DEF Slot, Remade
<1> QED
  BY <1>2, <1>3, <1>4, <1>5, <1>6 DEF a, b, e

\* The jobs stay, in a slot whose copy and marks may be others.
LEMMA ShapeStays ==
  ASSUME NEW newest, NEW s, QueueShape(s, newest), NEW t \in Slot, t.jobs = s.jobs, t.life = s.life,
         \/ t.dispose = s.dispose
         \/ s.jobs # <<>> /\ s.jobs[1].life = s.life
  PROVE  QueueShape(t, newest)
<1>1. CASE t.dispose = s.dispose
  BY <1>1 DEF QueueShape
<1>2. CASE s.jobs # <<>> /\ s.jobs[1].life = s.life
  <2>1. s \in Slot
    BY DEF QueueShape
  <2>2. 1 \in DOMAIN s.jobs /\ s.life \in Nat /\ \A i \in DOMAIN s.jobs : s.jobs[i].life \in Nat
    BY <1>2, <2>1, JobTypes
  <2>3. \A i \in DOMAIN s.jobs : i \in Nat /\ (i = 1 \/ 1 < i)
    <3>1. DOMAIN s.jobs = 1..Len(s.jobs) /\ Len(s.jobs) \in Nat
      BY <2>1, JobTypes
    <3> QED
      BY <3>1
  <2>4. \A i \in DOMAIN s.jobs : s.jobs[i].life = s.life
    <3> TAKE i \in DOMAIN s.jobs
    <3>1. s.jobs[1].life <= s.jobs[i].life
      BY <2>2, <2>3 DEF QueueShape
    <3>2. s.jobs[i].life <= s.life
      BY DEF QueueShape
    <3> QED
      BY <1>2, <2>2, <3>1, <3>2
  <2> QED
    BY <2>4 DEF QueueShape
<1> QED
  BY <1>1, <1>2

-----------------------------------------------------------------------------
(* The steps of the reads of the log. *)

LEMMA StartReadStep ==
  ASSUME IInv, StartRead
  PROVE  IInv' /\ AppendsAreTheOwners
<1>1. Running({"load", "reload"}, {"queued"})
  BY DEF StartRead
<1> DEFINE job == slot.jobs[1]
           mark == slot.copy > 0
           s == [slot EXCEPT !.stale = mark]
<1>2. /\ slot \in Slot /\ slot.jobs # <<>> /\ Head(slot.jobs) = job /\ job \in Job /\ slot.copy \in Nat
      /\ slot.dispose \in BOOLEAN /\ slot.stale \in BOOLEAN
      /\ job.kind \in {"load", "reload"} /\ (job.life # slot.life => slot.dispose)
      /\ QueueShape(slot, claims) /\ CopyTruth(slot, Fit, lease, debt) /\ claims \in Nat
  BY <1>1, HeadTypes
<1>3. UNCHANGED <<store, owner>>
  BY DEF StartRead
<1>4. CASE job.life # slot.life /\ EndJob(slot, DebtAfter(job), FALSE)
  <2>1. slot' = Shifted(slot) /\ debt' \in {debt, 0}
    BY <1>4 DEF EndJob, DebtAfter
  <2>2. Good(Shifted(slot), claims, Fit, UnderWay, lease, debt')
    BY <1>2, <1>4, TailIsGood
  <2> QED
    BY <1>3, <2>1, <2>2, SlotIsGood
<1>5. CASE job.kind = "load" /\ EndJob(slot, DebtAfter(job), FALSE)
  <2>1. slot' = Shifted(slot) /\ debt' = debt
    BY <1>5 DEF EndJob, DebtAfter
  <2>2. Good(Shifted(slot), claims, Fit, UnderWay, lease, debt)
    BY <1>2, <1>5, TailIsGood
  <2> QED
    BY <1>3, <2>1, <2>2, SlotIsGood
<1>6. CASE Advance(s, "reading", log) /\ UNCHANGED debt
  <2>1. mark \in BOOLEAN /\ (mark \/ slot.copy = 0)
    BY <1>2
  <2> HIDE DEF mark
  <2>2. Remade(s, slot, slot.copy, mark, slot.dispose, slot.stalled)
    BY <1>2, <2>1, Remakes
  <2>3. Advance(s, "reading", log)
    BY <1>6
  <2> HIDE DEF s
  <2>4. s \in Slot /\ s.jobs = slot.jobs /\ s.life = slot.life /\ s.dispose = slot.dispose
        /\ s.copy = slot.copy /\ s.stale = mark
    BY <2>2 DEF Remade
  <2>5. log \in Fit /\ log \in Nat
    BY LogFits
  <2>6. PICK j \in Job : /\ j.life = job.life /\ j.kind = job.kind /\ j.claim = job.claim
                         /\ j.phase = "reading" /\ j.read = log
                         /\ Moved(s, slot', j)
    BY <1>2, <2>3, <2>4, <2>5, Advanced
  <2>7. /\ slot' \in Slot /\ slot'.jobs = [slot.jobs EXCEPT ![1] = j] /\ slot'.life = slot.life
        /\ slot'.dispose = slot.dispose /\ slot'.copy = slot.copy /\ slot'.stale = mark
    BY <2>4, <2>6 DEF Moved
  <2>8. (slot'.stale \/ slot'.copy = 0) /\ j.phase \notin {"validated", "appending", "landed"}
    BY <2>1, <2>6, <2>7
  <2>9. Good(slot', claims, Fit, UnderWay, lease, debt)
    BY <1>2, <2>5, <2>6, <2>7, <2>8, HeadIsGood
  <2> QED
    BY <1>3, <1>6, <2>9, SlotIsGood
<1> QED
  BY <1>2, <1>4, <1>5, <1>6 DEF StartRead

LEMMA InstallStep ==
  ASSUME IInv, Install
  PROVE  IInv' /\ AppendsAreTheOwners
<1>1. Running({"load", "reload"}, {"reading"})
  BY DEF Install
<1> DEFINE job == slot.jobs[1]
           read == job.read
           s == [slot EXCEPT !.copy = read, !.stale = FALSE, !.dispose = FALSE]
<1>2. /\ slot \in Slot /\ slot.jobs # <<>> /\ Head(slot.jobs) = job /\ job \in Job /\ job.read \in Nat
      /\ job.phase = "reading" /\ (job.life # slot.life => slot.dispose)
      /\ QueueShape(slot, claims) /\ HeadTruth(slot, Fit, Live, lease, debt)
      /\ claims \in Nat
  BY <1>1, HeadTypes
<1>3. UNCHANGED <<store, owner>>
  BY DEF Install
<1>4. debt' = DebtAfter(job) /\ debt' \in {debt, 0}
  BY <1>2 DEF Install, EndJob, DebtAfter
<1>5. CASE job.life # slot.life
  <2>1. slot' = Shifted(slot)
    BY <1>2, <1>5 DEF Install, EndJob
  <2>2. Good(Shifted(slot), claims, Fit, UnderWay, lease, debt')
    BY <1>2, <1>5, TailIsGood
  <2> QED
    BY <1>3, <1>4, <2>1, <2>2, SlotIsGood
<1>6. CASE job.life = slot.life
  <2>1. slot' = Shifted(s)
    BY <1>2, <1>6 DEF Install, EndJob
  <2>2. lease /\ debt' = 0 => read \in Fit
    BY <1>2, <1>4 DEF HeadTruth, DebtAfter
  <2>3. Remade(s, slot, read, FALSE, FALSE, slot.stalled)
    <3>1. read \in Nat
      BY <1>2
    <3> HIDE DEF read
    <3> QED
      BY <1>2, <3>1, Remakes
  <2> HIDE DEF s
  <2>4. s \in Slot /\ s.jobs = slot.jobs /\ s.life = slot.life /\ s.copy = read
    BY <2>3 DEF Remade
  <2>5. QueueShape(s, claims)
    BY <1>2, <1>6, <2>4, ShapeStays
  <2>6. lease /\ debt' = 0 /\ s.copy > 0 /\ ~s.stale /\ ~s.dispose => s.copy \in Fit
    BY <2>2, <2>4
  <2>7. s.jobs # <<>>
    BY <1>2, <2>4
  <2>8. Good(Shifted(s), claims, Fit, UnderWay, lease, debt')
    BY <1>2, <2>5, <2>6, <2>7, TailIsGood
  <2> QED
    BY <1>3, <1>4, <2>1, <2>8, SlotIsGood
<1> QED
  BY <1>5, <1>6

LEMMA ReadFailsStep ==
  ASSUME IInv, ReadFails
  PROVE  IInv' /\ AppendsAreTheOwners
<1>1. Running({"load", "reload"}, {"reading"})
  BY DEF ReadFails
<1>2. /\ slot.jobs # <<>> /\ slot.jobs[1].phase = "reading" /\ slot.jobs[1].kind # "apply" /\ slot.copy \in Nat
      /\ QueueShape(slot, claims) /\ HeadTruth(slot, Fit, Live, lease, debt) /\ claims \in Nat
  BY <1>1, HeadTypes
<1>3. UNCHANGED <<store, owner>> /\ slot' = Shifted(slot) /\ debt' = debt
  BY DEF ReadFails, EndJob
<1>4. slot.stale \/ ~(slot.copy > 0)
  BY <1>2 DEF HeadTruth
<1>5. Good(Shifted(slot), claims, Fit, UnderWay, lease, debt)
  BY <1>2, <1>4, TailIsGood
<1> QED
  BY <1>3, <1>5, SlotIsGood

-----------------------------------------------------------------------------
(* The steps of a command at the head. *)

\* The command leaves a slot that still vouches for nothing it should not.
LEMMA RefuseStep ==
  ASSUME IInv, UNCHANGED <<store, owner, debt>>, slot.jobs # <<>>, slot.jobs[1].kind = "apply",
         NEW s \in Slot, s.jobs = slot.jobs, s.life = slot.life, s.dispose = slot.dispose,
         \/ CopyTruth(s, Fit, lease, debt)
         \/ lease /\ debt = 0 /\ s.copy > 0 /\ ~s.stale /\ ~s.dispose => s.copy \in Fit,
         slot' = Shifted(s)
  PROVE  IInv' /\ AppendsAreTheOwners
<1>1. QueueShape(slot, claims) /\ claims \in Nat
  BY Now DEF Good
<1>2. QueueShape(s, claims)
  BY <1>1, ShapeStays
<1>3. Good(Shifted(s), claims, Fit, UnderWay, lease, debt)
  BY <1>1, <1>2, TailIsGood
<1> QED
  BY <1>3, SlotIsGood

LEMMA RefuseHere ==
  ASSUME IInv, UNCHANGED <<store, owner, debt>>, NEW phases, Running({"apply"}, phases), slot' = Shifted(slot)
  PROVE  IInv' /\ AppendsAreTheOwners
BY HeadTypes, RefuseStep

\* The head goes on, and sends nothing.
LEMMA GoesOn ==
  ASSUME IInv, UNCHANGED <<store, owner, debt>>, NEW phases, Running({"apply"}, phases),
         NEW s \in Slot, s.jobs = slot.jobs, s.life = slot.life, s.dispose = slot.dispose,
         NEW phase \in {"reading", "loaded", "validated"}, NEW read \in Nat, Advance(s, phase, read),
         phase = "reading" => read \in Fit,
         phase = "validated" => s.copy > 0,
         \/ s.copy = slot.copy /\ s.stale = slot.stale
         \/ lease /\ debt = 0 => s.copy \in Fit
  PROVE  IInv' /\ AppendsAreTheOwners
<1> DEFINE job == slot.jobs[1]
<1>1. /\ QueueShape(slot, claims) /\ CopyTruth(slot, Fit, lease, debt) /\ slot.jobs # <<>>
      /\ job.kind = "apply" /\ claims \in Nat
  BY HeadTypes
<1>2. PICK j \in Job : /\ j.life = job.life /\ j.kind = job.kind /\ j.claim = job.claim
                       /\ j.phase = phase /\ j.read = read
                       /\ Moved(s, slot', j)
  <2>1. phase \in {"queued", "reading", "loaded", "validated", "appending", "landed", "repairing"} /\ s.jobs # <<>>
    BY <1>1
  <2> QED
    BY <2>1, Advanced
<1>3. /\ slot' \in Slot /\ slot'.jobs = [slot.jobs EXCEPT ![1] = j] /\ slot'.life = slot.life
      /\ slot'.dispose = slot.dispose /\ slot'.copy = s.copy /\ slot'.stale = s.stale
  BY <1>2 DEF Moved
<1>4. Good(slot', claims, Fit, UnderWay, lease, debt)
  <2> HIDE DEF job
  <2>1. /\ j.phase = "reading" /\ j.kind # "apply" => slot'.stale \/ slot'.copy = 0
        /\ j.phase = "validated" => slot'.copy > 0
        /\ j.phase = "appending" => j.read = slot'.copy /\ j.read \in UnderWay
        /\ (lease /\ debt = 0) \/ j.kind # "apply" =>
             /\ j.phase \in {"reading", "repairing"} => j.read \in Fit
             /\ j.phase = "landed" => j.read + 1 \in Fit
    BY <1>1, <1>2, <1>3
  <2>2. \/ slot'.stale \/ slot'.copy = 0
        \/ slot'.copy = slot.copy /\ slot'.stale = slot.stale /\ CopyTruth(slot, Fit, lease, debt)
        \/ lease /\ debt = 0 => slot'.copy \in Fit
    BY <1>1, <1>3
  <2>3. j \in Job /\ j.life = slot.jobs[1].life /\ j.kind = slot.jobs[1].kind /\ j.claim = slot.jobs[1].claim
    BY <1>2 DEF job
  <2> QED
    BY <1>1, <1>3, <2>1, <2>2, <2>3, HeadIsGood
<1> QED
  BY <1>4, SlotIsGood

LEMMA RefreshStep ==
  ASSUME IInv, Refresh
  PROVE  IInv' /\ AppendsAreTheOwners
<1>1. UNCHANGED <<store, owner, debt>>
  BY DEF Refresh
<1>2. CASE Running({"apply"}, {"queued"}) /\ Advance(slot, "reading", log)
  <2>1. slot \in Slot
    BY Now
  <2> QED
    BY <1>1, <1>2, <2>1, LogFits, GoesOn
<1>3. CASE Running({"apply"}, {"reading"})
  <2> DEFINE job == slot.jobs[1]
             read == job.read
             s == [slot EXCEPT !.copy = read, !.stale = FALSE]
  <2>1. /\ slot \in Slot /\ Head(slot.jobs) = job /\ read \in Nat /\ job.phase = "reading" /\ slot.jobs # <<>>
        /\ slot.dispose \in BOOLEAN /\ HeadTruth(slot, Fit, Live, lease, debt)
    BY <1>3, HeadTypes
  <2>2. lease /\ debt = 0 => read \in Fit
    BY <2>1 DEF HeadTruth
  <2>3. CASE Advance(s, "loaded", 0)
    <3> HIDE DEF read
    <3>1. Remade(s, slot, read, FALSE, slot.dispose, slot.stalled)
      BY <2>1, Remakes
    <3>2. Advance(s, "loaded", 0)
      BY <2>3
    <3> HIDE DEF s
    <3>3. s \in Slot /\ s.jobs = slot.jobs /\ s.life = slot.life /\ s.dispose = slot.dispose /\ s.copy = read
      BY <3>1 DEF Remade
    <3>4. "loaded" \in {"reading", "loaded", "validated"} /\ 0 \in Nat
      OBVIOUS
    <3>5. lease /\ debt = 0 => s.copy \in Fit
      BY <2>2, <3>3
    <3> QED
      BY <1>1, <1>3, <3>2, <3>3, <3>4, <3>5, GoesOn
  <2>4. CASE Refuse(slot)
    BY <1>1, <1>3, <2>4, RefuseHere DEF Refuse
  <2>5. Advance(s, "loaded", 0) \/ Refuse(slot)
    <3>1. ~Running({"apply"}, {"queued"})
      BY <2>1 DEF Running
    <3> QED
      BY <2>1, <3>1 DEF Refresh
  <2> QED
    BY <2>3, <2>4, <2>5
<1> QED
  BY <1>2, <1>3 DEF Refresh

LEMMA ValidateStep ==
  ASSUME IInv, Validate
  PROVE  IInv' /\ AppendsAreTheOwners
<1>1. Running({"apply"}, {"queued", "loaded"}) /\ UNCHANGED <<store, owner, debt>>
  BY DEF Validate
<1>2. CASE slot.copy > 0 /\ Advance(slot, "validated", 0)
  <2>1. slot \in Slot /\ "validated" \in {"reading", "loaded", "validated"} /\ 0 \in Nat
    BY Now
  <2> QED
    BY <1>1, <1>2, <2>1, GoesOn
<1>3. CASE Refuse(slot)
  BY <1>1, <1>3, RefuseHere DEF Refuse
<1> QED
  BY <1>2, <1>3 DEF Validate

\* The one step that sends an append: from a fresh copy under a lease without debt.
LEMMA ExecuteStep ==
  ASSUME IInv, Execute
  PROVE  IInv' /\ AppendsAreTheOwners
<1>1. Running({"apply"}, {"validated"}) /\ UNCHANGED <<store, owner, debt>>
  BY DEF Execute
<1> DEFINE job == slot.jobs[1]
           c == Head(slot.jobs).cmd
<1>2. /\ slot \in Slot /\ slot.jobs # <<>> /\ job.kind = "apply" /\ job.phase = "validated"
      /\ slot.copy \in Nat /\ slot.stale \in BOOLEAN /\ slot.dispose \in BOOLEAN /\ claims \in Nat
      /\ QueueShape(slot, claims) /\ HeadTruth(slot, Fit, Live, lease, debt) /\ CopyTruth(slot, Fit, lease, debt)
  BY <1>1, HeadTypes
<1>3. CASE Refuse(slot)
  BY <1>1, <1>3, RefuseHere DEF Refuse
<1>4. CASE /\ Admits(c) /\ ~slot.stale /\ ~Reloads(slot) /\ (over = 0 \/ slot.copy < over)
           /\ Advance(slot, "appending", slot.copy)
  <2>1. lease /\ debt = 0 /\ ~slot.dispose /\ slot.copy > 0
    BY <1>2, <1>4 DEF Admits, LifeIsCurrent, HeadTruth
  <2>2. slot.copy \in Fit
    BY <1>2, <1>4, <2>1 DEF CopyTruth
  <2>3. key = "me" /\ log \in Nat /\ over \in 0..log
    BY <2>1 DEF IInv, StoreTruth
  <2>4. base <= slot.copy /\ log \in {slot.copy, slot.copy + 1}
    BY <2>2 DEF Fit
  <2>5. slot.copy \in Live
    BY <1>2, <1>4, <2>3, <2>4 DEF Live
  <2>6. PICK j \in Job : /\ j.life = job.life /\ j.kind = job.kind /\ j.claim = job.claim
                         /\ j.phase = "appending" /\ j.read = slot.copy
                         /\ Moved(slot, slot', j)
    BY <1>2, <1>4, Advanced
  <2>7. /\ slot' \in Slot /\ slot'.jobs = [slot.jobs EXCEPT ![1] = j] /\ slot'.life = slot.life
        /\ slot'.dispose = slot.dispose /\ slot'.copy = slot.copy /\ slot'.stale = slot.stale
    BY <2>6 DEF Moved
  <2>8. Good(slot', claims, Fit, Live, lease, debt)
    BY <1>2, <2>5, <2>6, <2>7, HeadIsGood
  <2>9. /\ log' = log /\ over' = over /\ stray' = stray /\ base' = base
        /\ key' = key /\ lease' = lease /\ claims' = claims /\ debt' = debt
    BY <1>1 DEF store, owner
  <2>10. Fit' = Fit /\ Live' = Live /\ StoreTruth'
    BY <2>9 DEF Fit, Live, IInv, StoreTruth
  <2>11. IInv'
    BY <2>8, <2>9, <2>10 DEF IInv
  <2>12. AppendsAreTheOwners
    BY <2>1, <2>3, <2>4, <2>9 DEF AppendsAreTheOwners
  <2> QED
    BY <2>11, <2>12
<1> QED
  BY <1>3, <1>4 DEF Execute

\* The append was sent from the whole log, which nothing has ended since: no other lands
\* beside it, and the copy that it came from lacks it alone.
LEMMA AppendLandsStep ==
  ASSUME IInv, AppendLands
  PROVE  IInv' /\ AppendsAreTheOwners
<1> DEFINE job == slot.jobs[1]
<1>1. Running({"apply"}, {"appending"}) /\ Head(slot.jobs).read = log /\ Advance(slot, "landed", log)
  BY DEF AppendLands
<1>2. /\ slot \in Slot /\ slot.jobs # <<>> /\ Head(slot.jobs) = job /\ job.kind = "apply" /\ job.phase = "appending"
      /\ slot.copy \in Nat /\ claims \in Nat
      /\ QueueShape(slot, claims) /\ HeadTruth(slot, Fit, Live, lease, debt)
  BY <1>1, HeadTypes
<1>3. StoreTruth /\ log \in Nat /\ base \in 0..log /\ over \in 0..log
  BY DEF IInv, StoreTruth
<1>4. slot.copy = log /\ over = 0
  BY <1>1, <1>2, <1>3 DEF HeadTruth, Live
<1>5. /\ log' = log + 1 /\ stray' = {} /\ (over' = log + 1 \/ over' = over)
      /\ key' = key /\ lease' = lease /\ claims' = claims /\ base' = base /\ debt' = debt
  BY DEF AppendLands, Lands, owner
<1>6. StoreTruth'
  <2>1. log' \in Nat /\ over' \in 0..log' /\ base' \in 0..log'
    BY <1>3, <1>5
  <2> QED
    BY <1>5, <2>1 DEF StoreTruth
<1>7. log \in Fit' /\ log + 1 \in Fit'
  BY <1>3, <1>5 DEF Fit
<1>8. PICK j \in Job : /\ j.life = job.life /\ j.kind = job.kind /\ j.claim = job.claim
                       /\ j.phase = "landed" /\ j.read = log
                       /\ Moved(slot, slot', j)
  BY <1>1, <1>2, <1>3, Advanced
<1>9. /\ slot' \in Slot /\ slot'.jobs = [slot.jobs EXCEPT ![1] = j] /\ slot'.life = slot.life
      /\ slot'.dispose = slot.dispose /\ slot'.copy = log
      /\ slot'.jobs # <<>> /\ slot'.jobs[1].phase = "landed"
  BY <1>4, <1>8 DEF Moved
<1>10. Good(slot', claims, Fit', Live', lease, debt)
  <2>1. /\ j.phase \notin {"reading", "validated", "appending", "repairing"}
        /\ j.read + 1 \in Fit' /\ slot'.copy \in Fit'
    BY <1>7, <1>8, <1>9
  <2> QED
    BY <1>2, <1>8, <1>9, <2>1, HeadIsGood
<1>11. IInv'
  BY <1>5, <1>6, <1>10 DEF IInv
<1>12. ItLands /\ ~Sends
  BY <1>1, <1>9 DEF ItLands, Sends
<1> QED
  BY <1>4, <1>11, <1>12 DEF AppendsAreTheOwners

\* A success is known: the copy is what it was with the event, whatever landed since.
LEMMA AppendConfirmedStep ==
  ASSUME IInv, AppendConfirmed
  PROVE  IInv' /\ AppendsAreTheOwners
<1> DEFINE job == slot.jobs[1]
           more == job.read + 1
           mark == slot.stale /\ ~slot.stalled
           s == [slot EXCEPT !.copy = more, !.stale = mark, !.stalled = FALSE]
<1>1. Running({"apply"}, {"landed"}) /\ UNCHANGED <<store, owner, debt>>
  BY DEF AppendConfirmed
<1>2. /\ slot \in Slot /\ Head(slot.jobs) = job /\ slot.jobs # <<>> /\ job.kind = "apply" /\ job.phase = "landed"
      /\ job.read \in Nat /\ slot.stale \in BOOLEAN /\ slot.dispose \in BOOLEAN
      /\ HeadTruth(slot, Fit, Live, lease, debt)
  BY <1>1, HeadTypes
<1>3. slot.stalled \in BOOLEAN
  BY <1>2, JobTypes
<1>4. more \in Nat /\ mark \in BOOLEAN
  BY <1>2, <1>3
<1>5. slot' = Shifted(s)
  BY <1>2 DEF AppendConfirmed
<1>6. lease /\ debt = 0 => more \in Fit
  BY <1>2 DEF HeadTruth
<1> HIDE DEF more, mark
<1>7. Remade(s, slot, more, mark, slot.dispose, FALSE)
  BY <1>2, <1>4, Remakes
<1> HIDE DEF s
<1>8. s \in Slot /\ s.jobs = slot.jobs /\ s.life = slot.life /\ s.dispose = slot.dispose /\ s.copy = more
  BY <1>7 DEF Remade
<1> QED
  BY <1>1, <1>2, <1>5, <1>6, <1>8, RefuseStep

\* An append that may yet land came from the whole log, which nothing has ended since.
LEMMA AppendFailsStep ==
  ASSUME IInv, AppendFails
  PROVE  IInv' /\ AppendsAreTheOwners
<1> DEFINE job == slot.jobs[1]
           s == [slot EXCEPT !.stale = TRUE]
<1>1. Running({"apply"}, {"appending", "landed"}) /\ Advance(s, "repairing", log)
  BY DEF AppendFails
<1>2. /\ slot \in Slot /\ slot.jobs # <<>> /\ Head(slot.jobs) = job /\ job.kind = "apply"
      /\ job.phase \in {"appending", "landed"} /\ slot.copy \in Nat /\ slot.dispose \in BOOLEAN /\ claims \in Nat
      /\ QueueShape(slot, claims) /\ HeadTruth(slot, Fit, Live, lease, debt)
  BY <1>1, HeadTypes
<1>3. StoreTruth /\ log \in Nat /\ base \in 0..log /\ over \in 0..log
  BY DEF IInv, StoreTruth
<1>4. /\ log' = log /\ over' = over
      /\ key' = key /\ lease' = lease /\ claims' = claims /\ base' = base /\ debt' = debt
  BY DEF AppendFails, owner
<1>5. stray' = stray \/ (stray' = stray \cup {"ours"} /\ over = 0)
  BY <1>2, <1>3 DEF AppendFails, HeadTruth, Live
<1>6. StoreTruth'
  BY <1>3, <1>4, <1>5 DEF StoreTruth
<1>7. log \in Fit' /\ Live' = Live
  BY <1>3, <1>4 DEF Fit, Live
<1>8. Remade(s, slot, slot.copy, TRUE, slot.dispose, slot.stalled)
  BY <1>2, Remakes
<1> HIDE DEF s
<1>9. s \in Slot /\ s.jobs = slot.jobs /\ s.life = slot.life /\ s.dispose = slot.dispose /\ s.stale = TRUE
  BY <1>8 DEF Remade
<1>10. PICK j \in Job : /\ j.life = job.life /\ j.kind = job.kind /\ j.claim = job.claim
                        /\ j.phase = "repairing" /\ j.read = log
                        /\ Moved(s, slot', j)
  BY <1>1, <1>2, <1>3, <1>9, Advanced
<1>11. /\ slot' \in Slot /\ slot'.jobs = [slot.jobs EXCEPT ![1] = j] /\ slot'.life = slot.life
       /\ slot'.dispose = slot.dispose /\ slot'.stale = TRUE /\ slot'.jobs # <<>> /\ slot'.jobs[1].phase = "repairing"
  BY <1>9, <1>10 DEF Moved
<1>12. Good(slot', claims, Fit', Live', lease, debt)
  <2>1. /\ j.phase \notin {"reading", "validated", "appending", "landed"}
        /\ j.read \in Fit'
    BY <1>7, <1>10
  <2> QED
    BY <1>2, <1>10, <1>11, <2>1, HeadIsGood
<1>13. IInv'
  BY <1>4, <1>6, <1>12 DEF IInv
<1>14. ~Sends
  BY <1>11 DEF Sends
<1> QED
  BY <1>4, <1>13, <1>14 DEF AppendsAreTheOwners

LEMMA RepairedStep ==
  ASSUME IInv, Repaired
  PROVE  IInv' /\ AppendsAreTheOwners
<1> DEFINE job == slot.jobs[1]
           read == job.read
           s == [slot EXCEPT !.stalled = FALSE]
           t == [s EXCEPT !.copy = read, !.stale = FALSE]
<1>1. Running({"apply"}, {"repairing"}) /\ UNCHANGED <<store, owner, debt>>
  BY DEF Repaired
<1>2. /\ slot \in Slot /\ Head(slot.jobs) = job /\ slot.jobs # <<>> /\ job.kind = "apply" /\ job.phase = "repairing"
      /\ job.read \in Nat /\ slot.copy \in Nat /\ slot.stale \in BOOLEAN /\ slot.dispose \in BOOLEAN
      /\ HeadTruth(slot, Fit, Live, lease, debt) /\ CopyTruth(slot, Fit, lease, debt)
  BY <1>1, HeadTypes
<1>3. slot' = Shifted(s) \/ slot' = Shifted(t)
  BY <1>2 DEF Repaired, Refuse
<1>4. lease /\ debt = 0 => read \in Fit
  BY <1>2 DEF HeadTruth
<1>5. read \in Nat
  BY <1>2
<1> HIDE DEF read
<1>6. Remade(s, slot, slot.copy, slot.stale, slot.dispose, FALSE)
  BY <1>2, Remakes
<1> HIDE DEF s
<1>7. s \in Slot /\ s.jobs = slot.jobs /\ s.life = slot.life /\ s.dispose = slot.dispose
      /\ s.copy = slot.copy /\ s.stale = slot.stale
  BY <1>6 DEF Remade
<1>8. Remade(t, s, read, FALSE, s.dispose, s.stalled)
  <2>1. s.dispose \in BOOLEAN /\ s.stalled \in BOOLEAN
    BY <1>7, JobTypes
  <2> QED
    BY <1>5, <1>7, <2>1, Remakes
<1> HIDE DEF t
<1>9. t \in Slot /\ t.jobs = slot.jobs /\ t.life = slot.life /\ t.dispose = slot.dispose /\ t.copy = read
  BY <1>7, <1>8 DEF Remade
<1>10. CopyTruth(s, Fit, lease, debt)
  BY <1>2, <1>7 DEF CopyTruth, Reloads
<1>11. CASE slot' = Shifted(s)
  BY <1>1, <1>2, <1>7, <1>10, <1>11, RefuseStep
<1>12. CASE slot' = Shifted(t)
  BY <1>1, <1>2, <1>4, <1>9, <1>12, RefuseStep
<1> QED
  BY <1>3, <1>11, <1>12

LEMMA WriteDeadlineStep ==
  ASSUME IInv, WriteDeadline
  PROVE  IInv' /\ AppendsAreTheOwners
<1>1. UNCHANGED <<store, owner, debt>> /\ slot' = [slot EXCEPT !.stalled = TRUE, !.stale = TRUE]
  BY DEF WriteDeadline
<1>2. Good(slot, claims, Fit, UnderWay, lease, debt) /\ slot \in Slot
  BY Now
<1>3. Remade(slot', slot, slot.copy, TRUE, slot.dispose, TRUE)
  <2>1. slot.copy \in Nat /\ slot.dispose \in BOOLEAN
    BY <1>2, JobTypes
  <2> QED
    BY <1>1, <1>2, <2>1, Remakes
<1>4. /\ slot' \in Slot /\ slot'.jobs = slot.jobs /\ slot'.life = slot.life /\ slot'.dispose = slot.dispose
      /\ slot'.copy = slot.copy /\ slot'.stale = TRUE
  BY <1>3 DEF Remade
<1>5. QueueShape(slot', claims)
  BY <1>2, <1>4, ShapeStays DEF Good
<1>6. HeadTruth(slot', Fit, UnderWay, lease, debt)
  BY <1>2, <1>4 DEF Good, HeadTruth
<1>7. CopyTruth(slot', Fit, lease, debt)
  BY <1>4 DEF CopyTruth
<1> QED
  BY <1>1, <1>5, <1>6, <1>7, SlotIsGood DEF Good

LEMMA EvictStep ==
  ASSUME IInv, NEW c, EvictCopy(c)
  PROVE  IInv' /\ AppendsAreTheOwners
<1>1. Good(slot, claims, Fit, UnderWay, lease, debt) /\ claims \in Nat
  BY Now
<1>2. UNCHANGED <<store, owner, debt>>
  BY DEF EvictCopy
<1> DEFINE next == slot.life + 1
           a == [slot EXCEPT !.life = next]
           t == [a EXCEPT !.dispose = TRUE]
<1>3. slot' = slot \/ slot' = Settled(t)
  BY DEF EvictCopy, Evicted
<1>4. slot \in Slot /\ slot.life \in Nat
  BY <1>1, JobTypes DEF Good, QueueShape
<1>5. next \in Nat /\ slot.life <= next /\ \A n \in Nat : n <= slot.life => n <= next
  BY <1>4
<1> HIDE DEF next
<1>6. /\ t \in Slot /\ t.jobs = slot.jobs /\ t.life = next /\ t.dispose = TRUE
      /\ t.copy = slot.copy /\ t.stale = slot.stale
  <2>1. a \in Slot /\ a.jobs = slot.jobs /\ a.life = next /\ a.copy = slot.copy /\ a.stale = slot.stale
    BY <1>4, <1>5 DEF Slot
  <2> HIDE DEF a
  <2> QED
    BY <2>1 DEF Slot
<1> HIDE DEF t
<1>7. QueueShape(t, claims)
  <2>1. \A i \in DOMAIN slot.jobs : slot.jobs[i].life \in Nat
    BY <1>4, JobTypes
  <2>2. \A i \in DOMAIN slot.jobs : slot.jobs[i].life <= next
    BY <1>1, <1>5, <2>1 DEF Good, QueueShape
  <2> QED
    BY <1>1, <1>6, <2>2 DEF Good, QueueShape
<1>8. HeadTruth(t, Fit, UnderWay, lease, debt)
  BY <1>1, <1>6 DEF Good, HeadTruth
<1>9. CopyTruth(t, Fit, lease, debt)
  BY <1>6 DEF CopyTruth
<1>10. Good(Settled(t), claims, Fit, UnderWay, lease, debt)
  BY <1>7, <1>8, <1>9, SettledIsGood DEF Good
<1> QED
  BY <1>1, <1>2, <1>3, <1>10, SlotIsGood

-----------------------------------------------------------------------------
(* The theorems. *)

LEMMA StepIsGood ==
  ASSUME IInv, Next
  PROVE  IInv' /\ AppendsAreTheOwners
<1>1. CASE Lapse \/ RenewalClaims \/ RivalSends
  BY <1>1, OwnerSteps
<1>2. CASE KeyLapses \/ RivalClaims
  BY <1>2, QuietSteps
<1>3. CASE Join
  BY <1>3, EnqueueSteps
<1>4. CASE StartRead
  BY <1>4, StartReadStep
<1>5. CASE Install
  BY <1>5, InstallStep
<1>6. CASE ReadFails
  BY <1>6, ReadFailsStep
<1>7. CASE Refresh \/ Validate \/ Execute
  BY <1>7, RefreshStep, ValidateStep, ExecuteStep
<1>8. CASE AppendLands \/ AppendConfirmed \/ AppendFails \/ WriteDeadline \/ Repaired
  BY <1>8, AppendLandsStep, AppendConfirmedStep, AppendFailsStep, WriteDeadlineStep, RepairedStep
<1>9. CASE StrayLands
  BY <1>9, StrayLandsStep
<1>10. ASSUME NEW c \in Cmd, StartExpiry(c) \/ StartPlayer(c) \/ Capture(c)
       PROVE  IInv' /\ AppendsAreTheOwners
  BY <1>10, QuietSteps
<1>11. ASSUME NEW c \in Cmd, Route(c) \/ LetGo(c)
       PROVE  IInv' /\ AppendsAreTheOwners
  BY <1>11, OwnerSteps
<1>12. ASSUME NEW c \in Cmd, EnsureLoaded(c) \/ Submit(c)
       PROVE  IInv' /\ AppendsAreTheOwners
  BY <1>12, EnqueueSteps
<1>13. ASSUME NEW c \in Cmd, Settle(c)
       PROVE  IInv' /\ AppendsAreTheOwners
  BY <1>13, SettleStep
<1>14. ASSUME NEW c \in Cmd, EvictCopy(c)
       PROVE  IInv' /\ AppendsAreTheOwners
  BY <1>14, EvictStep
<1> QED
  BY <1>1, <1>2, <1>3, <1>4, <1>5, <1>6, <1>7, <1>8, <1>9, <1>10, <1>11, <1>12, <1>13, <1>14 DEF Next

LEMMA StutterIsGood ==
  ASSUME IInv, UNCHANGED vars
  PROVE  IInv'
<1>1. UNCHANGED <<store, base, claims, debt, lease, slot>> /\ key' = key
  BY DEF vars, store
<1> QED
  BY <1>1, QuietIsGood DEF IInv

(* The slot has its shape; an append that is on its way, from here or from *)
(* elsewhere, was computed from the whole log of a game that goes on; and  *)
(* what the head has read, like what a lease without debt may vouch for,   *)
(* has all that was there at the claim and lacks one event at most, in     *)
(* every reachable state, whatever lands when.                             *)
THEOREM Invariance == Spec => []IInv
<1>1. Init => IInv
  BY InitIsGood
<1>2. IInv /\ [Next]_vars => IInv'
  BY StepIsGood, StutterIsGood
<1> QED
  BY <1>1, <1>2, PTL DEF Spec

(* What this gateway vouches for has everything that was in the log at its *)
(* claim and lacks one event at most, whoever plays in between and however *)
(* late an append lands; it sends only as the owner, from such a copy; and *)
(* what lands beside its own appends was sent to the log of the claim, to  *)
(* a game that goes on.                                                    *)
THEOREM RoutingSafety == Spec => RoutingIsCurrent
<1>1. IInv => CopyHasTheClaim /\ CopyLacksOneAtMost
  BY DEF IInv, Good, CopyTruth, HasFresh, CopyHasTheClaim, CopyLacksOneAtMost, Fit, StoreTruth
<1>2. IInv /\ [Next]_vars => [AppendsAreTheOwners]_vars
  BY StepIsGood DEF vars
<1>3. Spec => [](CopyHasTheClaim /\ CopyLacksOneAtMost)
  BY <1>1, Invariance, PTL
<1>4. Spec => [][AppendsAreTheOwners]_vars
  BY <1>2, Invariance, PTL DEF Spec
<1> QED
  BY <1>3, <1>4, PTL DEF RoutingIsCurrent

=============================================================================

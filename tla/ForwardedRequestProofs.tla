------------------------ MODULE ForwardedRequestProofs ------------------------
(***************************************************************************)
(* What the gateways give a player.  ForwardedRequest: commands carried to *)
(* the game's owner, for any number of requests, gateways, consumer calls  *)
(* and copies in the list.  LiveFeed, the third of the Readers: the frames *)
(* a browser is sent and its screen, for a log of any length and any       *)
(* number of faults, retries and refresh attempts.                         *)
(***************************************************************************)
EXTENDS ForwardedRequest, Readers, SequenceTheorems, FiniteSetTheorems, WellFoundedInduction, TLAPS

-----------------------------------------------------------------------------
(* The inductive invariant. *)

\* A call that START_REQUEST admitted and that has not yet run the command.
Holds(e, r) == /\ task[e].state = "start" /\ task[e].reply = "admitted"
               /\ task[e].req = r

\* Not yet started by anybody: the forwarder has not queued it, or it waits.
Fresh(r) == phase[r] \in {"idle", "enqueue", "lost"} \/ status[r] = "queued"

\* Not run, and nobody is left who could.
Never(r) == ~Fresh(r) /\ runs[r] = 0 /\ \A e \in Executor : ~Holds(e, r)

\* A call that is busy works for a gateway on a request.
TaskShape ==
  \A e \in Executor :
    \/ task[e].state = "free" /\ task[e].node = NoNode /\ task[e].reply = "pending"
                              /\ task[e].response = "none"
    \/ task[e].state # "free" /\ task[e].node \in Node /\ task[e].req \in Req

\* What has not been queued has no record, so START_REQUEST cannot admit it.
Unqueued ==
  \A r \in Req : phase[r] \in {"idle", "enqueue", "lost"} => status[r] = "absent"

\* A command runs once: while it can be admitted, and while the call that was
\* admitted holds it, it has not run; and one call at most holds it.
Once ==
  \A r \in Req :
    /\ runs[r] <= 1
    /\ runs[r] = 0 => effect[r] = "none"
    /\ Fresh(r) => runs[r] = 0
    /\ \A e \in Executor : Holds(e, r) => ~Fresh(r) /\ runs[r] = 0
    /\ \A e, f \in Executor : Holds(e, r) /\ Holds(f, r) => e = f

\* Whoever says that a command expired or was refused speaks of one that
\* never runs, on every way from the record to the forwarder's caller.
Expired ==
  \A r \in Req :
    /\ status[r] = "expired" \/ result[r] = "expired" \/ resp[r] = "expired" => Never(r)
    /\ answer[r] \in {"expired", "refused"} => Never(r)
    /\ \A e \in Executor : task[e].req = r =>
         (task[e].reply = "expired" \/ task[e].response = "expired" => Never(r))

\* Whoever passes on the game's own answer passes on what the run produced.
Truth ==
  \A r \in Req :
    /\ result[r] = "ok" \/ resp[r] = "ok" \/ answer[r] = "ok" => effect[r] = "ok"
    /\ \A e \in Executor : task[e].req = r /\ task[e].response = "ok" => effect[r] = "ok"

\* A call that answers for the envelope it popped.
Keeper(e, r) == /\ task[e].req = r /\ task[e].state \in {"loading", "start", "settle"}
                /\ task[e].reply = "pending"

\* A live envelope is in the list, in such a call's hands or known as lost.
Kept ==
  \A r \in Req : Alive(r) =>
    r \in ToSet(list) \/ (\E e \in Executor : Keeper(e, r)) \/ r \in dropped

IInv == TypeOK /\ TaskShape /\ Unqueued /\ Once /\ Expired /\ Truth /\ Kept

-----------------------------------------------------------------------------
(* Lemmas about lists. *)

(* Every set of naturals that is not empty has a least element. *)
LEMMA LeastNatural ==
  ASSUME NEW T \in SUBSET Nat, T # {}
  PROVE  \E m \in T : \A n \in T : m <= n
<1> DEFINE R == OpToRel(<, Nat)
<1>1. IsWellFoundedOn(R, Nat)
  BY NatLessThanWellFounded, Zenon
<1>2. \A x, y \in Nat : x < y => <<x, y>> \in R
  BY Zenon DEF OpToRel
<1> HIDE DEF R
<1>3. PICK m \in T : \A n \in T : ~ (<<n, m>> \in R)
  BY <1>1, WFMin, Zenon
<1>4. \A n \in T : ~ (n < m)
  BY <1>2, <1>3
<1> QED
  BY <1>4

(* ENQUEUE_REQUEST keeps an end of the list, from its first live envelope. *)
LEMMA PurgedIsEnd ==
  ASSUME list \in Seq(Req)
  PROVE  /\ Purged \in Seq(Req)
         /\ Len(Purged) \in 0..Len(list)
         /\ \A k \in 1..Len(Purged) : Purged[k] = list[k + (Len(list) - Len(Purged))]
<1> USE LenProperties
<1>1. CASE \A i \in DOMAIN list : ~Alive(list[i])
  <2>1. Purged = <<>>
    BY <1>1 DEF Purged
  <2> QED
    BY <2>1, EmptySeq
<1>2. CASE ~ \A i \in DOMAIN list : ~Alive(list[i])
  <2> DEFINE live == {i \in DOMAIN list : Alive(list[i])}
             First(i) == Alive(list[i]) /\ \A j \in 1..(i - 1) : ~Alive(list[j])
             first == CHOOSE i \in DOMAIN list : First(i)
  <2>1. live \in SUBSET Nat /\ live # {}
    BY <1>2
  <2>2. PICK m \in live : \A i \in live : m <= i
    BY <2>1, LeastNatural
  <2>3. m \in DOMAIN list /\ First(m)
    BY <2>2
  <2>4. first \in DOMAIN list
    BY <2>3, Zenon
  <2>5. Purged = SubSeq(list, first, Len(list))
    BY <1>2 DEF Purged
  <2> HIDE DEF first
  <2>6. first \in 1..Len(list)
    BY <2>4
  <2>7. /\ SubSeq(list, first, Len(list)) \in Seq(Req)
        /\ Len(SubSeq(list, first, Len(list))) = Len(list) - first + 1
        /\ \A k \in 1..(Len(list) - first + 1) : SubSeq(list, first, Len(list))[k] = list[first + k - 1]
    BY <2>6, SubSeqProperties
  <2> QED
    BY <2>5, <2>6, <2>7
<1> QED
  BY <1>1, <1>2

(* LREM takes the copies of one request out of the list, and nothing else. *)
LEMMA WithoutProperties ==
  ASSUME list \in Seq(Req), NEW r \in Req
  PROVE  /\ Without(r) \in Seq(Req)
         /\ ToSet(Without(r)) = ToSet(list) \ {r}
<1> DEFINE kept == {i \in DOMAIN list : list[i] # r}
           Upto(i) == {j \in kept : j <= i}
           Place(i) == Cardinality(Upto(i))
           n == Cardinality(kept)
           place == [i \in kept |-> Place(i)]
           Source(k) == CHOOSE i \in kept : Place(i) = k
<1>1. Without(r) = [k \in 1..n |-> list[Source(k)]]
  BY Zenon DEF Without
<1>2. kept \in SUBSET (1..Len(list)) /\ Len(list) \in Nat
  BY LenProperties
<1>3. IsFiniteSet(kept) /\ n \in Nat
  <2>1. IsFiniteSet(1..Len(list))
    BY <1>2, FS_Interval
  <2> QED
    BY <1>2, <2>1, FS_Subset, FS_CardinalityType
<1>4. ASSUME NEW i \in kept
      PROVE  IsFiniteSet(Upto(i)) /\ Place(i) \in 1..n
  <2>1. Upto(i) \subseteq kept /\ i \in Upto(i)
    BY <1>2
  <2>2. IsFiniteSet(Upto(i)) /\ Place(i) <= n
    BY <1>3, <2>1, FS_Subset
  <2>3. Place(i) \in Nat /\ Place(i) # 0
    BY <2>1, <2>2, FS_CardinalityType, FS_EmptySet
  <2> QED
    BY <1>3, <2>2, <2>3
<1>5. ASSUME NEW i \in kept, NEW j \in kept, i < j
      PROVE  Place(i) < Place(j)
  <2>1. Upto(i) \subseteq Upto(j) /\ j \in Upto(j) /\ j \notin Upto(i)
    BY <1>2, <1>5
  <2>2. Place(i) <= Place(j) /\ (Place(i) = Place(j) => Upto(i) = Upto(j))
    BY <1>4, <2>1, FS_Subset
  <2>3. Place(i) \in 1..n /\ Place(j) \in 1..n
    BY <1>4
  <2>4. Place(i) # Place(j)
    BY <2>1, <2>2
  <2> HIDE DEF Place, n
  <2> QED
    BY <1>3, <2>2, <2>3, <2>4
<1>6. \A i, j \in kept : Place(i) = Place(j) => i = j
  <2>1. \A i \in kept : i \in Nat
    BY <1>2
  <2>2. \A i \in kept : Place(i) \in 1..n
    BY <1>4, Zenon
  <2> HIDE DEF Place, n, kept
  <2> QED
    BY <1>3, <1>5, <2>1, <2>2
<1>7. \A k \in 1..n : \E i \in kept : Place(i) = k
  <2> HIDE DEF Place, n, kept
  <2>1. place \in Injection(kept, 1..n)
    BY <1>4, <1>6 DEF Injection, IsInjective
  <2>2. IsFiniteSet(1..n) /\ Cardinality(1..n) = n
    BY <1>3, FS_Interval
  <2>3. Cardinality(kept) = n
    BY DEF n
  <2>4. place \in Surjection(kept, 1..n)
    BY <1>3, <2>1, <2>2, <2>3, FS_Injection
  <2> QED
    BY <2>4 DEF Surjection
<1>8. \A k \in 1..n : Source(k) \in kept /\ Place(Source(k)) = k
  <2> HIDE DEF Place, n, kept
  <2> QED
    BY <1>7, Zenon
<1>9. \A i \in kept : Source(Place(i)) = i
  <2> HIDE DEF Place, n, kept, Source
  <2> QED
    BY <1>4, <1>6, <1>8
<1>10. \A i \in kept : i \in 1..Len(list) /\ list[i] \in Req /\ list[i] # r
  BY <1>2, ElementOfSeq
<1>11. Without(r) \in Seq(Req)
  <2> HIDE DEF n, kept, Source
  <2>1. [k \in 1..n |-> list[Source(k)]] \in [1..n -> Req]
    BY <1>8, <1>10
  <2> HIDE DEF Source
  <2> QED
    BY <1>1, <1>3, <2>1, IsASeq
<1>12. DOMAIN Without(r) = 1..n /\ \A k \in 1..n : Without(r)[k] = list[Source(k)]
  <2> HIDE DEF n, kept, Source
  <2> QED
    BY <1>1
<1>13. ASSUME NEW q
       PROVE  q \in ToSet(Without(r)) <=> q \in ToSet(list) /\ q # r
  <2> HIDE DEF n, Source, Place
  <2>1. q \in ToSet(Without(r)) <=> \E k \in 1..n : q = list[Source(k)]
    BY <1>12 DEF ToSet
  <2>2. q \in ToSet(list) <=> \E i \in DOMAIN list : q = list[i]
    BY DEF ToSet
  <2>3. ASSUME NEW k \in 1..n, q = list[Source(k)]
        PROVE  q \in ToSet(list) /\ q # r
    BY <1>8, <2>2, <2>3
  <2>4. ASSUME NEW i \in DOMAIN list, q = list[i], q # r
        PROVE  \E k \in 1..n : q = list[Source(k)]
    <3>1. i \in kept
      BY <2>4
    <3> QED
      BY <1>4, <1>9, <2>4, <3>1
  <2> QED
    BY <2>1, <2>2, <2>3, <2>4
<1> QED
  BY <1>11, <1>13

(* An envelope at the end of a list. *)
LEMMA AppendedSet ==
  ASSUME NEW s \in Seq(Req), NEW r \in Req
  PROVE  Append(s, r) \in Seq(Req) /\ ToSet(Append(s, r)) = ToSet(s) \cup {r}
<1>1. /\ Append(s, r) \in Seq(Req) /\ DOMAIN Append(s, r) = 1..(Len(s) + 1)
      /\ \A i \in 1..Len(s) : Append(s, r)[i] = s[i]
      /\ Append(s, r)[Len(s) + 1] = r
  BY AppendProperties, LenProperties
<1>2. Len(s) \in Nat /\ DOMAIN s = 1..Len(s)
  BY LenProperties
<1>3. \A q : q \in ToSet(Append(s, r)) <=> q \in ToSet(s) \/ q = r
  BY <1>1, <1>2 DEF ToSet
<1> QED
  BY <1>1, <1>3

(* An envelope taken from the front of a list. *)
LEMMA PoppedSet ==
  ASSUME NEW s \in Seq(Req), s # <<>>
  PROVE  /\ Head(s) \in Req /\ Tail(s) \in Seq(Req)
         /\ ToSet(s) = {Head(s)} \cup ToSet(Tail(s))
<1>1. /\ Head(s) \in Req /\ Tail(s) \in Seq(Req) /\ Head(s) = s[1]
      /\ Len(Tail(s)) = Len(s) - 1
      /\ \A i \in 1..Len(Tail(s)) : Tail(s)[i] = s[i + 1]
  BY HeadTailProperties
<1>2. Len(s) \in Nat \ {0} /\ DOMAIN s = 1..Len(s) /\ DOMAIN Tail(s) = 1..Len(Tail(s))
  BY <1>1, LenProperties, EmptySeq
<1>3. ASSUME NEW q
      PROVE  q \in ToSet(s) <=> q = Head(s) \/ q \in ToSet(Tail(s))
  <2>1. q \in ToSet(s) <=> \E i \in 1..Len(s) : q = s[i]
    BY <1>2 DEF ToSet
  <2>2. q \in ToSet(Tail(s)) <=> \E i \in 1..(Len(s) - 1) : q = s[i + 1]
    BY <1>1, <1>2 DEF ToSet
  <2>3. ASSUME NEW i \in 1..Len(s), q = s[i]
        PROVE  q = Head(s) \/ q \in ToSet(Tail(s))
    <3>1. CASE i = 1
      BY <1>1, <2>3, <3>1
    <3>2. CASE i # 1
      <4>1. i - 1 \in 1..(Len(s) - 1) /\ q = s[(i - 1) + 1]
        BY <1>2, <2>3, <3>2
      <4> QED
        BY <2>2, <4>1
    <3> QED
      BY <3>1, <3>2
  <2>4. ASSUME NEW i \in 1..(Len(s) - 1), q = s[i + 1]
        PROVE  q \in ToSet(s)
    <3>1. i + 1 \in 1..Len(s)
      BY <1>2
    <3> QED
      BY <2>1, <2>4, <3>1
  <2>5. 1 \in 1..Len(s)
    BY <1>2
  <2> QED
    BY <1>1, <2>1, <2>2, <2>3, <2>4, <2>5
<1> QED
  BY <1>1, <1>3

-----------------------------------------------------------------------------
(* What the steps of a call do to its entry in task. *)

\* Call e is now as described, and the other calls are as before.
TaskIs(e, state, node, req, reply, response) ==
  /\ task' \in [Executor -> Tasks]
  /\ task'[e].state = state /\ task'[e].node = node /\ task'[e].req = req
  /\ task'[e].reply = reply /\ task'[e].response = response
  /\ \A f \in Executor : f # e => task'[f] = task[f]

LEMMA FieldTypes ==
  ASSUME TypeOK, NEW e \in Executor
  PROVE  /\ task[e] \in Tasks
         /\ task[e].state \in {"free", "loading", "start", "settle", "finish", "respond"}
         /\ task[e].node \in Node \cup {NoNode} /\ task[e].req \in Req \cup {NoReq}
         /\ task[e].reply \in Replies /\ task[e].response \in Results \cup {"none"}
<1>1. task[e] \in Tasks
  BY DEF TypeOK
<1> QED
  BY <1>1 DEF Tasks

LEMMA StepEffect ==
  ASSUME TypeOK, NEW e \in Executor,
         NEW state \in {"free", "loading", "start", "settle", "finish", "respond"},
         NEW response \in Results \cup {"none"}, Step(e, state, response)
  PROVE  TaskIs(e, state, task[e].node, task[e].req, "pending", response)
<1> DEFINE t == [task[e] EXCEPT !.state = state, !.response = response, !.reply = "pending"]
<1>1. task[e] \in Tasks /\ task \in [Executor -> Tasks]
  BY DEF TypeOK
<1>2. /\ t \in Tasks /\ t.state = state /\ t.node = task[e].node /\ t.req = task[e].req
      /\ t.reply = "pending" /\ t.response = response
  BY <1>1 DEF Tasks, Replies
<1>3. task' = [task EXCEPT ![e] = t]
  BY DEF Step, Become
<1> HIDE DEF t
<1> QED
  BY <1>1, <1>2, <1>3 DEF TaskIs

LEMMA ReplyEffect ==
  ASSUME TypeOK, NEW e \in Executor, NEW v \in Replies,
         Become(e, [task[e] EXCEPT !.reply = v])
  PROVE  TaskIs(e, task[e].state, task[e].node, task[e].req, v, task[e].response)
<1> DEFINE t == [task[e] EXCEPT !.reply = v]
<1>1. task[e] \in Tasks /\ task \in [Executor -> Tasks]
  BY DEF TypeOK
<1>2. /\ t \in Tasks /\ t.state = task[e].state /\ t.node = task[e].node
      /\ t.req = task[e].req /\ t.reply = v /\ t.response = task[e].response
  BY <1>1 DEF Tasks
<1>3. task' = [task EXCEPT ![e] = t]
  BY DEF Become
<1> HIDE DEF t
<1> QED
  BY <1>1, <1>2, <1>3 DEF TaskIs

LEMMA FreeIsTask ==
  /\ Free \in Tasks /\ Free.state = "free" /\ Free.node = NoNode /\ Free.req = NoReq
  /\ Free.reply = "pending" /\ Free.response = "none"
BY DEF Free, Tasks, Replies

LEMMA EndEffect ==
  ASSUME TypeOK, NEW e \in Executor, Ended(e)
  PROVE  TaskIs(e, "free", NoNode, NoReq, "pending", "none")
<1>1. task \in [Executor -> Tasks] /\ task' = [task EXCEPT ![e] = Free]
  BY DEF TypeOK, Ended, Become
<1> QED
  BY <1>1, FreeIsTask DEF TaskIs

-----------------------------------------------------------------------------
(* The steps that leave the requests alone. *)

\* What the invariant says of requests, apart from the calls.
requestVars == <<status, result, late, list, resp, phase, answer, runs, effect, dropped>>

\* No call gains an admission or tells more than it could before, and none
\* that answers for an envelope stops doing so.
CallsAreQuiet ==
  \A e \in Executor : \A r \in Req :
    /\ Holds(e, r)' => Holds(e, r)
    /\ Keeper(e, r) => Keeper(e, r)'
    /\ task'[e].req = r => task[e].req = r
    /\ task'[e].req = r /\ (task'[e].reply = "expired" \/ task'[e].response = "expired")
         => task[e].reply = "expired" \/ task[e].response = "expired"
    /\ task'[e].req = r /\ task'[e].response = "ok" => task[e].response = "ok"

LEMMA QuietStep ==
  ASSUME IInv, UNCHANGED requestVars, CallsAreQuiet, TypeOK', TaskShape'
  PROVE  IInv'
<1>1. UNCHANGED <<status, result, late, list, resp, phase, answer, runs, effect, dropped>>
  BY DEF requestVars
<1>2. ASSUME NEW r \in Req
      PROVE  (Fresh(r)' <=> Fresh(r)) /\ (Never(r) => Never(r)') /\ (Alive(r)' <=> Alive(r))
  BY <1>1 DEF Fresh, Never, Alive, CallsAreQuiet
<1>3. Unqueued'
  BY <1>1 DEF IInv, Unqueued
<1>4. Once'
  BY <1>1, <1>2 DEF IInv, Once, CallsAreQuiet
<1>5. Expired'
  BY <1>1, <1>2 DEF IInv, Expired, CallsAreQuiet
<1>6. Truth'
  BY <1>1 DEF IInv, Truth, CallsAreQuiet
<1>7. Kept'
  BY <1>1, <1>2 DEF IInv, Kept, CallsAreQuiet
<1> QED
  BY <1>3, <1>4, <1>5, <1>6, <1>7 DEF IInv

\* The variables that are typed one by one, without the calls.
LEMMA TypeKept ==
  ASSUME TypeOK, UNCHANGED requestVars, UNCHANGED admitted,
         key' \in Node \cup {NoNode}, owns' \in [Node -> BOOLEAN], loop' \in [Node -> BOOLEAN],
         task' \in [Executor -> Tasks]
  PROVE  TypeOK'
BY DEF TypeOK, requestVars

\* A call that is not admitted and answers for no envelope.
Idle(e) == \A r \in Req : ~Holds(e, r) /\ ~Keeper(e, r)

LEMMA QuietCall ==
  ASSUME IInv, NEW e \in Executor, NEW state, NEW response,
         UNCHANGED <<redisVars, key, owns, callVars, history>>, loop' \in [Node -> BOOLEAN],
         \/ TaskIs(e, "free", NoNode, NoReq, "pending", "none") /\ Idle(e)
         \/ /\ TaskIs(e, state, task[e].node, task[e].req, "pending", response)
            /\ state # "free" /\ task[e].state # "free"
            /\ \/ Idle(e)
               \/ task[e].reply = "pending" /\ state \in {"loading", "start", "settle"}
            /\ \/ response = "none"
               \/ response = "expired" /\ task[e].reply = "expired"
  PROVE  IInv'
<1>1. task' \in [Executor -> Tasks] /\ UNCHANGED requestVars /\ UNCHANGED admitted
  BY DEF TaskIs, redisVars, callVars, history, requestVars
<1>2. TypeOK'
  BY <1>1, TypeKept DEF IInv, TypeOK
<1>3. TaskShape'
  BY DEF IInv, TaskShape, TaskIs
<1>4. ASSUME NEW r \in Req
      PROVE  NoReq # r
  BY NameAssumption
<1>5. CallsAreQuiet
  BY <1>4 DEF CallsAreQuiet, TaskIs, Holds, Keeper, Idle, IInv
<1> QED
  BY <1>1, <1>2, <1>3, <1>5, QuietStep

LEMMA LoadedStep ==
  ASSUME IInv, NEW e \in Executor, Loaded(e)
  PROVE  IInv'
<1>1. task[e].state = "loading" /\ (task[e].reply = "pending" \/ Idle(e))
  BY DEF Loaded, Idle, Holds, Keeper
<1>2. UNCHANGED <<redisVars, key, owns, loop, callVars, history>> /\ loop \in [Node -> BOOLEAN]
  BY DEF Loaded, ownerVars, IInv, TypeOK
<1>3. PICK state \in {"start", "settle"} :
        TaskIs(e, state, task[e].node, task[e].req, "pending", "none")
  BY StepEffect DEF Loaded, IInv
<1> QED
  BY <1>1, <1>2, <1>3, QuietCall DEF Loaded

LEMMA NotOwnerStep ==
  ASSUME IInv, NEW e \in Executor, NotOwner(e)
  PROVE  IInv'
<1>1. Idle(e)
  BY DEF NotOwner, Started, Idle, Holds, Keeper
<1>2. TaskIs(e, "free", NoNode, NoReq, "pending", "none")
  BY EndEffect DEF NotOwner, IInv
<1>3. task[e].current \in BOOLEAN
  <2>1. task[e] \in Tasks
    BY DEF IInv, TypeOK
  <2> QED
    BY <2>1 DEF Tasks
<1>4. loop' \in [Node -> BOOLEAN]
  BY <1>3 DEF NotOwner, IInv, TypeOK
<1> QED
  BY <1>1, <1>2, <1>4, QuietCall DEF NotOwner

LEMMA EndedStep ==
  ASSUME IInv, NEW e \in Executor, Duplicate(e) \/ ResponseLost(e)
  PROVE  IInv'
<1>1. Idle(e)
  BY DEF Duplicate, ResponseLost, Started, Idle, Holds, Keeper
<1>2. TaskIs(e, "free", NoNode, NoReq, "pending", "none")
  BY EndEffect DEF Duplicate, ResponseLost, IInv
<1>3. UNCHANGED <<redisVars, key, owns, loop, callVars, history>> /\ loop \in [Node -> BOOLEAN]
  BY DEF Duplicate, ResponseLost, ownerVars, IInv, TypeOK
<1> QED
  BY <1>1, <1>2, <1>3, QuietCall

LEMMA ExpiredAtStartStep ==
  ASSUME IInv, NEW e \in Executor, ExpiredAtStart(e)
  PROVE  IInv'
<1>1. Idle(e) /\ task[e].reply = "expired" /\ task[e].state # "free"
  BY DEF ExpiredAtStart, Started, Idle, Holds, Keeper
<1>2. TaskIs(e, "respond", task[e].node, task[e].req, "pending", "expired")
  BY StepEffect DEF ExpiredAtStart, IInv, Results
<1>3. UNCHANGED <<redisVars, key, owns, loop, callVars, history>> /\ loop \in [Node -> BOOLEAN]
  BY DEF ExpiredAtStart, ownerVars, IInv, TypeOK
<1> QED
  BY <1>1, <1>2, <1>3, QuietCall

LEMMA StartUncertainStep ==
  ASSUME IInv, NEW e \in Executor, StartUncertain(e)
  PROVE  IInv'
<1>1. (Idle(e) \/ task[e].reply = "pending") /\ task[e].state # "free"
  BY DEF StartUncertain, Started, Idle, Holds, Keeper
<1>2. TaskIs(e, "settle", task[e].node, task[e].req, "pending", "none")
  BY StepEffect DEF StartUncertain, IInv
<1>3. UNCHANGED <<redisVars, key, owns, loop, callVars, history>> /\ loop \in [Node -> BOOLEAN]
  BY DEF StartUncertain, ownerVars, IInv, TypeOK
<1> QED
  BY <1>1, <1>2, <1>3, QuietCall

LEMMA OwnerStep ==
  ASSUME IInv, KeyExpires \/ \E n \in Node : Claim(n)
  PROVE  IInv'
<1>1. UNCHANGED requestVars /\ UNCHANGED <<admitted, task>>
  BY DEF KeyExpires, Claim, redisVars, callVars, history, requestVars
<1>2. /\ key' \in Node \cup {NoNode} /\ owns' \in [Node -> BOOLEAN] /\ loop' \in [Node -> BOOLEAN]
      /\ task' \in [Executor -> Tasks]
  BY <1>1 DEF KeyExpires, Claim, IInv, TypeOK
<1>3. TypeOK'
  BY <1>1, <1>2, TypeKept DEF IInv
<1>4. TaskShape' /\ CallsAreQuiet
  BY <1>1 DEF IInv, TaskShape, CallsAreQuiet, Holds, Keeper
<1> QED
  BY <1>1, <1>3, <1>4, QuietStep

LEMMA ForgetClaimStep ==
  ASSUME IInv, NEW n \in Node, ForgetClaim(n)
  PROVE  IInv'
<1>1. UNCHANGED requestVars /\ UNCHANGED admitted
  BY DEF ForgetClaim, redisVars, callVars, history, requestVars
<1>2. task' \in [Executor -> Tasks]
  <2>1. \A e \in Executor : task[e] \in Tasks
    BY DEF IInv, TypeOK
  <2>2. \A e \in Executor : [task[e] EXCEPT !.current = FALSE] \in Tasks
    BY <2>1 DEF Tasks
  <2> QED
    BY <2>1, <2>2 DEF ForgetClaim, StopConsumer
<1>3. \A e \in Executor : /\ task'[e].state = task[e].state /\ task'[e].node = task[e].node
                          /\ task'[e].req = task[e].req /\ task'[e].reply = task[e].reply
                          /\ task'[e].response = task[e].response
  <2>1. \A e \in Executor : task[e] \in Tasks
    BY DEF IInv, TypeOK
  <2> QED
    BY <2>1 DEF ForgetClaim, StopConsumer, Tasks
<1>4. key' \in Node \cup {NoNode} /\ owns' \in [Node -> BOOLEAN] /\ loop' \in [Node -> BOOLEAN]
  <2>1. key \in Node \cup {NoNode} /\ key' \in (IF key = n THEN {n, NoNode} ELSE {key})
    BY DEF IInv, TypeOK, ForgetClaim
  <2> QED
    BY <2>1 DEF ForgetClaim, StopConsumer, IInv, TypeOK
<1>5. TypeOK'
  BY <1>1, <1>2, <1>4, TypeKept DEF IInv
<1>6. TaskShape' /\ CallsAreQuiet
  BY <1>3 DEF IInv, TaskShape, CallsAreQuiet, Holds, Keeper
<1> QED
  BY <1>1, <1>5, <1>6, QuietStep

-----------------------------------------------------------------------------
(* The steps of the forwarder. *)

\* Only the forwarder's own record of r changes, and the response it has read.
LEMMA ForwarderStep ==
  ASSUME IInv, NEW r \in Req,
         NEW p \in {"enqueue", "lost", "wait", "settle", "end"},
         NEW a \in Results \cup {"none", "refused"},
         NEW b \in Results \cup {"none"},
         phase' = [phase EXCEPT ![r] = p], answer' = [answer EXCEPT ![r] = a],
         resp' = [resp EXCEPT ![r] = b],
         UNCHANGED <<status, admitted, result, late, list, ownerVars, task, history>>,
         phase[r] # "idle" => p # "enqueue",
         p \in {"enqueue", "lost"} => phase[r] \in {"idle", "enqueue"},
         b = resp[r] \/ b = "none",
         \/ a = answer[r] \/ a \in {"none", "unknown"}
         \/ a = resp[r]
         \/ a = "refused" /\ phase[r] = "idle" /\ p = "end"
  PROVE  IInv'
<1>1. UNCHANGED <<status, admitted, result, late, list, key, owns, loop, task, runs, effect, dropped>>
  BY DEF ownerVars, history
<1>2. TypeOK'
  BY <1>1 DEF IInv, TypeOK
<1>3. \A q \in Req : /\ phase'[q] = IF q = r THEN p ELSE phase[q]
                     /\ answer'[q] = IF q = r THEN a ELSE answer[q]
                     /\ resp'[q] = IF q = r THEN b ELSE resp[q]
  BY DEF IInv, TypeOK
<1>4. TaskShape'
  BY <1>1 DEF IInv, TaskShape
<1>5. Unqueued'
  BY <1>1, <1>3 DEF IInv, Unqueued
<1>6. ASSUME NEW q \in Req
      PROVE  (Fresh(q)' => Fresh(q)) /\ (Never(q) => Never(q)')
  BY <1>1, <1>3 DEF Fresh, Never, Holds
<1>7. Once'
  BY <1>1, <1>6 DEF IInv, Once, Holds
<1>8. Expired'
  <2>1. a = "refused" /\ phase[r] = "idle" /\ p = "end" => Never(r)'
    BY <1>1, <1>3 DEF IInv, Unqueued, Once, Fresh, Never, Holds
  <2>2. a \in {"expired", "refused"} => Never(r)'
    <3>1. resp[r] # "refused" /\ (Never(r) => Never(r)')
      BY <1>6 DEF IInv, TypeOK, Results
    <3> QED
      BY <2>1, <3>1 DEF IInv, Expired
  <2> QED
    BY <1>1, <1>3, <1>6, <2>2 DEF IInv, Expired
<1>9. Truth'
  BY <1>1, <1>3 DEF IInv, Truth
<1>10. Kept'
  BY <1>1 DEF IInv, Kept, Alive, Keeper
<1> QED
  BY <1>2, <1>4, <1>5, <1>7, <1>8, <1>9, <1>10 DEF IInv

\* What UNCHANGED says of a function that EXCEPT could have changed.
LEMMA SameAt ==
  ASSUME NEW f, NEW D, NEW R, f \in [D -> R], NEW r \in D
  PROVE  f = [f EXCEPT ![r] = f[r]]
OBVIOUS

LEMMA ForwarderSteps ==
  ASSUME IInv, NEW r \in Req, Dispatch(r) \/ EnqueueUnanswered(r) \/ TakeResponse(r) \/ GiveUp(r)
  PROVE  IInv'
<1>1. /\ phase[r] \in {"idle", "enqueue", "lost", "wait", "settle", "end"}
      /\ answer[r] \in Results \cup {"none", "refused"} /\ resp[r] \in Results \cup {"none"}
      /\ answer = [answer EXCEPT ![r] = answer[r]] /\ resp = [resp EXCEPT ![r] = resp[r]]
  BY SameAt DEF IInv, TypeOK
<1>2. CASE Dispatch(r)
  <2>1. CASE phase' = [phase EXCEPT ![r] = "enqueue"] /\ UNCHANGED answer
    <3>1. /\ answer' = [answer EXCEPT ![r] = answer[r]] /\ resp' = [resp EXCEPT ![r] = resp[r]]
          /\ UNCHANGED <<status, admitted, result, late, list, ownerVars, task, history>>
          /\ phase[r] = "idle"
      BY <1>1, <1>2, <2>1 DEF Dispatch, redisVars
    <3> QED
      BY <1>1, <2>1, <3>1, ForwarderStep
  <2>2. CASE /\ phase' = [phase EXCEPT ![r] = "end"]
             /\ answer' = [answer EXCEPT ![r] = "refused"]
    BY <1>1, <1>2, <2>2, ForwarderStep DEF Dispatch, redisVars, ownerVars, history
  <2> QED
    BY <1>2, <2>1, <2>2 DEF Dispatch
<1>3. CASE EnqueueUnanswered(r)
  <2>1. "unknown" \in Results
    BY DEF Results
  <2> QED
    BY <1>1, <1>3, <2>1, ForwarderStep DEF EnqueueUnanswered, redisVars, ownerVars, history
<1>4. CASE TakeResponse(r)
  BY <1>1, <1>4, ForwarderStep DEF TakeResponse, Answered
<1>5. CASE GiveUp(r)
  BY <1>1, <1>5, ForwarderStep DEF GiveUp
<1> QED
  BY <1>2, <1>3, <1>4, <1>5

\* SETTLE_REQUEST: a request that waited is expired, its envelopes are gone,
\* and the other requests keep theirs.
LEMMA SettleEffectFacts ==
  ASSUME IInv, NEW r \in Req, SettleEffect(r)
  PROVE  /\ status' \in [Req -> Statuses] /\ late' \in [Req -> BOOLEAN] /\ list' \in Seq(Req)
         /\ \A q \in Req : q # r => status'[q] = status[q]
         /\ status'[r] = IF status[r] = "queued" THEN "expired" ELSE status[r]
         /\ \A q \in Req : Alive(q)' => Alive(q) /\ q # r
         /\ \A q \in Req : q # r /\ q \in ToSet(list) => q \in ToSet(list')
<1>0. /\ status \in [Req -> Statuses] /\ late \in [Req -> BOOLEAN] /\ list \in Seq(Req)
  BY DEF IInv, TypeOK
<1>1. CASE Cancellable(r)
  <2>1. /\ status' = [status EXCEPT ![r] = "expired"] /\ late' = [late EXCEPT ![r] = FALSE]
        /\ list' = Without(r) /\ status[r] = "queued"
    BY <1>1 DEF SettleEffect, Cancellable
  <2>2. list' \in Seq(Req) /\ ToSet(list') = ToSet(list) \ {r}
    BY <1>0, <2>1, WithoutProperties
  <2>3. status' \in [Req -> Statuses] /\ late' \in [Req -> BOOLEAN]
    BY <1>0, <2>1 DEF Statuses
  <2>4. /\ \A q \in Req : q # r => status'[q] = status[q] /\ late'[q] = late[q]
        /\ status'[r] = "expired"
    BY <1>0, <2>1
  <2> QED
    BY <2>1, <2>2, <2>3, <2>4 DEF Alive
<1>2. CASE ~Cancellable(r)
  <2>1. UNCHANGED <<status, late, list>> /\ status[r] # "queued"
    BY <1>2 DEF SettleEffect, Cancellable
  <2> QED
    BY <1>0, <2>1 DEF Alive
<1> QED
  BY <1>1, <1>2

LEMMA SettleReplyType ==
  ASSUME IInv, NEW r \in Req
  PROVE  /\ SettleReply(r) \in Results \cup {"none"}
         /\ SettleReply(r) = "expired" =>
              \/ status[r] \in {"queued", "expired"}
              \/ result[r] = "expired"
         /\ SettleReply(r) = "ok" => result[r] = "ok"
BY DEF IInv, TypeOK, SettleReply, Results, Cancellable

\* A request whose record said expired before or says so now never runs.
LEMMA SettledNeverRuns ==
  ASSUME IInv, NEW r \in Req, SettleEffect(r), runs'[r] = runs[r],
         \A e \in Executor : Holds(e, r)' => Holds(e, r),
         phase[r] \notin {"idle", "enqueue", "lost"} => phase'[r] \notin {"idle", "enqueue", "lost"}
  PROVE  /\ status[r] \in {"queued", "expired"} => Never(r)'
         /\ Never(r) => Never(r)'
<1>1. status'[r] = IF status[r] = "queued" THEN "expired" ELSE status[r]
  BY SettleEffectFacts
<1>2. status[r] = "queued" => runs[r] = 0 /\ (\A e \in Executor : ~Holds(e, r))
                              /\ phase[r] \notin {"idle", "enqueue", "lost"}
  BY DEF IInv, Once, Unqueued, Fresh
<1>3. status[r] = "expired" => Never(r)
  BY DEF IInv, Expired
<1> QED
  BY <1>1, <1>2, <1>3 DEF Never, Fresh

LEMMA SettleStep ==
  ASSUME IInv, NEW r \in Req, Settle(r)
  PROVE  IInv'
<1>1. /\ phase[r] = "settle"
      /\ UNCHANGED <<admitted, result, resp, key, owns, loop, task, runs, effect, dropped>>
  BY DEF Settle, Settling, ownerVars, history
<1>2. phase' = [phase EXCEPT ![r] = "end"]
  BY DEF Settle, Answered
<1>3. CASE Answered(r, "unknown") /\ UNCHANGED <<status, late, list>>
  <2>1. /\ answer' = [answer EXCEPT ![r] = "unknown"] /\ "unknown" \in Results
        /\ resp = [resp EXCEPT ![r] = resp[r]] /\ resp[r] \in Results \cup {"none"}
    BY <1>3, SameAt DEF Answered, Results, IInv, TypeOK
  <2> QED
    BY <1>1, <1>2, <1>3, <2>1, ForwarderStep DEF ownerVars, history
<1>4. CASE SettleEffect(r) /\ (Answered(r, SettleReply(r)) \/ Answered(r, "unknown"))
  <2>1. PICK a \in {SettleReply(r), "unknown"} : answer' = [answer EXCEPT ![r] = a]
    BY <1>4 DEF Answered
  <2>2. a \in Results \cup {"none"}
    BY <2>1, SettleReplyType DEF Results
  <2>3. /\ status' \in [Req -> Statuses] /\ late' \in [Req -> BOOLEAN] /\ list' \in Seq(Req)
        /\ \A q \in Req : q # r => status'[q] = status[q]
        /\ status'[r] = IF status[r] = "queued" THEN "expired" ELSE status[r]
    BY <1>4, SettleEffectFacts
  <2>4. \A q \in Req : /\ phase'[q] = IF q = r THEN "end" ELSE phase[q]
                       /\ answer'[q] = IF q = r THEN a ELSE answer[q]
    BY <1>2, <2>1 DEF IInv, TypeOK
  <2>5. TypeOK'
    BY <1>1, <1>2, <2>1, <2>2, <2>3 DEF IInv, TypeOK
  <2>6. TaskShape'
    BY <1>1 DEF IInv, TaskShape
  <2>7. Unqueued'
    BY <2>3, <2>4 DEF IInv, Unqueued
  <2>8. ASSUME NEW q \in Req
        PROVE  (Fresh(q)' => Fresh(q)) /\ (Never(q) => Never(q)')
    BY <1>1, <2>3, <2>4 DEF Fresh, Never, Holds
  <2>9. Once'
    BY <1>1, <2>8 DEF IInv, Once, Holds
  <2>10. status[r] \in {"queued", "expired"} => Never(r)'
    <3>1. runs'[r] = runs[r] /\ \A e \in Executor : Holds(e, r)' => Holds(e, r)
      BY <1>1 DEF Holds
    <3>2. phase'[r] = "end"
      BY <2>4
    <3> QED
      BY <1>4, <3>1, <3>2, SettledNeverRuns
  <2>11. a \in {"expired", "refused"} => Never(r)'
    <3>1. a # "refused"
      BY <2>2 DEF Results
    <3>2. a = "expired" => status[r] \in {"queued", "expired"} \/ result[r] = "expired"
      BY <2>1, SettleReplyType
    <3>3. result[r] = "expired" => Never(r)'
      BY <2>8 DEF IInv, Expired
    <3> QED
      BY <2>10, <3>1, <3>2, <3>3
  <2>12. Expired'
    <3>1. status'[r] = "expired" => Never(r)'
      BY <2>3, <2>10
    <3> QED
      BY <1>1, <2>3, <2>4, <2>8, <2>11, <3>1 DEF IInv, Expired
  <2>13. Truth'
    <3>1. a = "ok" => result[r] = "ok"
      BY <2>1, SettleReplyType
    <3> QED
      BY <1>1, <2>4, <3>1 DEF IInv, Truth
  <2>14. Kept'
    <3>1. \A q \in Req : Alive(q)' => Alive(q) /\ q # r
      BY <1>4, SettleEffectFacts
    <3>2. \A q \in Req : q # r /\ q \in ToSet(list) => q \in ToSet(list')
      BY <1>4, SettleEffectFacts
    <3> QED
      BY <1>1, <3>1, <3>2 DEF IInv, Kept, Keeper
  <2> QED
    BY <2>5, <2>6, <2>7, <2>9, <2>12, <2>13, <2>14 DEF IInv
<1> QED
  BY <1>3, <1>4 DEF Settle

\* What ENQUEUE_REQUEST does to the records and to the list.
LEMMA EnqueueEffect ==
  ASSUME IInv, NEW r \in Req, RedisEnqueue(r)
  PROVE  /\ status' \in [Req -> Statuses] /\ late' \in [Req -> BOOLEAN] /\ list' \in Seq(Req)
         /\ status'[r] = "queued" /\ r \in ToSet(list')
         /\ \A q \in Req : q # r =>
              \/ status'[q] = status[q]
              \/ status[q] = "queued" /\ status'[q] = "expired"
         /\ \A q \in Req : q # r /\ Alive(q)' =>
              Alive(q) /\ (q \in ToSet(list) => q \in ToSet(list'))
<1> DEFINE cut == Len(list) - Len(Purged)
           purged == {list[i] : i \in 1..cut}
<1>1. /\ status \in [Req -> Statuses] /\ late \in [Req -> BOOLEAN] /\ list \in Seq(Req)
  BY DEF IInv, TypeOK
<1>2. /\ status' = [q \in Req |-> IF q = r THEN "queued"
                                  ELSE IF q \in purged THEN PurgedStatus(q) ELSE status[q]]
      /\ late' = [q \in Req |-> late[q] /\ q \notin purged]
      /\ list' = Append(Purged, r)
  BY DEF RedisEnqueue
<1>3. /\ Purged \in Seq(Req) /\ Len(Purged) \in 0..Len(list)
      /\ \A k \in 1..Len(Purged) : Purged[k] = list[k + cut]
  BY <1>1, PurgedIsEnd
<1>4. Len(list) \in Nat /\ DOMAIN list = 1..Len(list) /\ DOMAIN Purged = 1..Len(Purged)
  BY <1>1, <1>3, LenProperties
<1>5. cut \in 0..Len(list) /\ Len(Purged) = Len(list) - cut
  BY <1>3, <1>4
<1>6. list' \in Seq(Req) /\ ToSet(list') = ToSet(Purged) \cup {r}
  BY <1>2, <1>3, AppendedSet
<1>7. ASSUME NEW q \in ToSet(list), q \notin purged
      PROVE  q \in ToSet(Purged)
  <2>1. PICK i \in 1..Len(list) : q = list[i]
    BY <1>4 DEF ToSet
  <2>2. i \notin 1..cut
    BY <1>7, <2>1
  <2> HIDE DEF cut, purged
  <2>3. i - cut \in 1..Len(Purged) /\ (i - cut) + cut = i
    BY <1>4, <1>5, <2>1, <2>2
  <2>4. q = Purged[i - cut]
    BY <1>3, <2>1, <2>3
  <2> QED
    BY <1>4, <2>3, <2>4 DEF ToSet
<1> HIDE DEF purged, cut
<1>8. \A q \in Req : PurgedStatus(q) \in Statuses /\ (status[q] # "queued" => PurgedStatus(q) = status[q])
  BY <1>1 DEF PurgedStatus, Statuses
<1>9. status' \in [Req -> Statuses] /\ late' \in [Req -> BOOLEAN]
  BY <1>1, <1>2, <1>8 DEF Statuses
<1>10. \A q \in Req : /\ status'[q] = IF q = r THEN "queued"
                                      ELSE IF q \in purged THEN PurgedStatus(q) ELSE status[q]
                      /\ late'[q] <=> late[q] /\ q \notin purged
  BY <1>2, Zenon
<1>11. \A q \in Req : status[q] = "queued" => PurgedStatus(q) = "expired"
  BY DEF PurgedStatus
<1>12. \A q \in Req : q # r /\ Alive(q)' => Alive(q) /\ q \notin purged
  BY <1>10, <1>11, <1>8 DEF Alive
<1> QED
  BY <1>6, <1>7, <1>8, <1>9, <1>10, <1>11, <1>12

LEMMA EnqueueStep ==
  ASSUME IInv, NEW r \in Req, RedisEnqueue(r)
  PROVE  IInv'
<1>1. /\ status' \in [Req -> Statuses] /\ late' \in [Req -> BOOLEAN] /\ list' \in Seq(Req)
      /\ status'[r] = "queued" /\ r \in ToSet(list')
      /\ \A q \in Req : q # r =>
           \/ status'[q] = status[q]
           \/ status[q] = "queued" /\ status'[q] = "expired"
  BY EnqueueEffect
<1>2. /\ phase[r] \in {"enqueue", "lost"}
      /\ phase' = [phase EXCEPT ![r] = IF @ = "enqueue" THEN "wait" ELSE "end"]
      /\ UNCHANGED <<admitted, result, resp, key, owns, loop, task, answer, runs, effect, dropped>>
  BY DEF RedisEnqueue, ownerVars, history
<1>3. \A q \in Req : phase'[q] = IF q # r THEN phase[q]
                                 ELSE IF phase[r] = "enqueue" THEN "wait" ELSE "end"
  BY <1>2 DEF IInv, TypeOK
<1>4. TypeOK'
  <2>1. phase' \in [Req -> {"idle", "enqueue", "lost", "wait", "settle", "end"}]
    BY <1>2 DEF IInv, TypeOK
  <2> QED
    BY <1>1, <1>2, <2>1 DEF IInv, TypeOK
<1>5. TaskShape'
  BY <1>2 DEF IInv, TaskShape
<1>6. Unqueued'
  BY <1>1, <1>3 DEF IInv, Unqueued
<1>7. ASSUME NEW q \in Req
      PROVE  /\ Fresh(q)' => Fresh(q)
             /\ Never(q) => Never(q)'
             /\ status'[q] = "expired" => Never(q)'
  <2>1. status'[q] = "expired" => q # r /\ status[q] \in {"queued", "expired"}
    BY <1>1
  <2>2. Fresh(q)' => Fresh(q)
    BY <1>1, <1>2, <1>3 DEF Fresh
  <2>3. Never(q) => Never(q)'
    BY <1>2, <2>2 DEF Never, Holds
  <2>4. status[q] = "queued" /\ status'[q] = "expired" => Never(q)'
    BY <1>2, <1>3, <2>1 DEF IInv, Once, Unqueued, Fresh, Never, Holds
  <2>5. status[q] = "expired" => Never(q)
    BY DEF IInv, Expired
  <2> QED
    BY <2>1, <2>2, <2>3, <2>4, <2>5
<1>8. Once'
  BY <1>2, <1>7 DEF IInv, Once, Holds
<1>9. Expired'
  BY <1>2, <1>7 DEF IInv, Expired
<1>10. Truth'
  BY <1>2 DEF IInv, Truth
<1>11. Kept'
  <2>1. \A q \in Req : q # r /\ Alive(q)' =>
          Alive(q) /\ (q \in ToSet(list) => q \in ToSet(list'))
    BY EnqueueEffect
  <2> QED
    BY <1>1, <1>2, <2>1 DEF IInv, Kept, Keeper
<1> QED
  BY <1>4, <1>5, <1>6, <1>8, <1>9, <1>10, <1>11 DEF IInv

\* The deadline of a queued request passes, or its record is forgotten.
LEMMA RecordStep ==
  ASSUME IInv, NEW r \in Req, DeadlinePasses(r) \/ Forget(r)
  PROVE  IInv'
<1>1. UNCHANGED <<list, resp, key, owns, loop, task, phase, answer, runs, effect, dropped>>
  BY DEF DeadlinePasses, Forget, ownerVars, callVars, history
<1>2. /\ \A q \in Req : q # r => status'[q] = status[q] /\ (late'[q] <=> late[q])
      /\ \A q \in Req : result'[q] \in {result[q], "none"}
      /\ \/ status'[r] = "absent"
         \/ status'[r] = status[r] /\ late'[r]
      /\ result' \in [Req -> Results \cup {"none"}] /\ late' \in [Req -> BOOLEAN]
      /\ status' \in [Req -> Statuses] /\ admitted' \in [Req -> Executor \cup {NoExecutor}]
  <2>1. /\ status \in [Req -> Statuses] /\ late \in [Req -> BOOLEAN]
        /\ result \in [Req -> Results \cup {"none"}]
        /\ admitted \in [Req -> Executor \cup {NoExecutor}]
    BY DEF IInv, TypeOK
  <2>2. CASE DeadlinePasses(r)
    BY <2>1, <2>2 DEF DeadlinePasses
  <2>3. CASE Forget(r)
    BY <2>1, <2>3 DEF Forget, Statuses
  <2> QED
    BY <2>2, <2>3
<1>3. TypeOK'
  BY <1>1, <1>2 DEF IInv, TypeOK
<1>4. TaskShape'
  BY <1>1 DEF IInv, TaskShape
<1>5. Unqueued'
  BY <1>1, <1>2 DEF IInv, Unqueued
<1>6. ASSUME NEW q \in Req
      PROVE  (Fresh(q)' => Fresh(q)) /\ (Never(q) => Never(q)') /\ (Alive(q)' => Alive(q))
  BY <1>1, <1>2 DEF Fresh, Never, Holds, Alive
<1>7. Once'
  BY <1>1, <1>6 DEF IInv, Once, Holds
<1>8. Expired'
  BY <1>1, <1>2, <1>6 DEF IInv, Expired
<1>9. Truth'
  BY <1>1, <1>2 DEF IInv, Truth
<1>10. Kept'
  BY <1>1, <1>6 DEF IInv, Kept, Keeper
<1> QED
  BY <1>3, <1>4, <1>5, <1>7, <1>8, <1>9, <1>10 DEF IInv

-----------------------------------------------------------------------------
(* The steps of a call that change the requests. *)

LEMMA PopStep ==
  ASSUME IInv, NEW n \in Node, NEW e \in Executor, Pop(n, e)
  PROVE  IInv'
<1>0. PICK h \in Req : h = Head(list)
  BY PoppedSet DEF Pop, IInv, TypeOK
<1>1. list' \in Seq(Req) /\ ToSet(list) = {h} \cup ToSet(list')
  BY <1>0, PoppedSet DEF Pop, IInv, TypeOK
<1>2. /\ UNCHANGED <<status, admitted, result, late, resp, key, owns, loop, phase, answer, runs, effect>>
      /\ task[e].state = "free"
  BY DEF Pop, ownerVars, callVars
<1>3. /\ task' \in [Executor -> Tasks]
      /\ \A f \in Executor : f # e => task'[f] = task[f]
      /\ \/ task'[e] = task[e] /\ dropped' = dropped \cup {r \in {h} : Alive(r)}
         \/ /\ task'[e].state = "loading" /\ task'[e].node = n /\ task'[e].req = h
            /\ task'[e].reply = "pending" /\ task'[e].response = "none"
            /\ dropped' = dropped
  <2>1. task \in [Executor -> Tasks]
    BY DEF IInv, TypeOK
  <2>2. CASE UNCHANGED task /\ Lost({h})
    BY <2>1, <2>2 DEF Lost
  <2>3. CASE /\ Become(e, [Free EXCEPT !.state = "loading", !.node = n, !.current = TRUE,
                                       !.req = h])
             /\ UNCHANGED dropped
    <3> DEFINE t == [Free EXCEPT !.state = "loading", !.node = n, !.current = TRUE, !.req = h]
    <3>1. /\ t \in Tasks /\ t.state = "loading" /\ t.node = n /\ t.req = h
          /\ t.reply = "pending" /\ t.response = "none"
      BY <1>1 DEF Free, Tasks, Replies
    <3>2. task' = [task EXCEPT ![e] = t]
      BY <2>3 DEF Become
    <3> HIDE DEF t
    <3> QED
      BY <2>1, <2>3, <3>1, <3>2
  <2> QED
    BY <1>0, <2>2, <2>3 DEF Pop
<1>4. dropped' \in SUBSET Req /\ dropped \subseteq dropped'
  BY <1>1, <1>3 DEF IInv, TypeOK
<1>5. TypeOK'
  BY <1>1, <1>2, <1>3, <1>4 DEF IInv, TypeOK
<1>6. TaskShape'
  BY <1>1, <1>3 DEF IInv, TaskShape
<1>7. Unqueued'
  BY <1>2 DEF IInv, Unqueued
<1>8. ASSUME NEW q \in Req, NEW f \in Executor
      PROVE  (Holds(f, q)' => Holds(f, q)) /\ (Keeper(f, q) => Keeper(f, q)')
  BY <1>2, <1>3 DEF Holds, Keeper
<1>9. ASSUME NEW q \in Req
      PROVE  (Fresh(q)' => Fresh(q)) /\ (Never(q) => Never(q)') /\ (Alive(q)' <=> Alive(q))
  BY <1>2, <1>8 DEF Fresh, Never, Alive
<1>10. Once'
  BY <1>2, <1>8, <1>9 DEF IInv, Once
<1>11. Expired'
  BY <1>2, <1>3, <1>9 DEF IInv, Expired
<1>12. Truth'
  BY <1>2, <1>3 DEF IInv, Truth
<1>13. Kept'
  <2>1. Alive(h) => h \in dropped' \/ Keeper(e, h)'
    BY <1>3 DEF Keeper
  <2> QED
    BY <1>1, <1>4, <1>8, <1>9, <2>1 DEF IInv, Kept
<1> QED
  BY <1>5, <1>6, <1>7, <1>10, <1>11, <1>12, <1>13 DEF IInv

\* START_REQUEST: what it does to the records and the list, and its reply,
\* pending when it is lost.
LEMMA StartEffect ==
  ASSUME IInv, NEW e \in Executor, RedisStart(e)
  PROVE  LET r == task[e].req
         IN /\ r \in Req /\ task[e].state = "start" /\ task[e].reply = "pending"
            /\ status' \in [Req -> Statuses] /\ late' \in [Req -> BOOLEAN] /\ list' \in Seq(Req)
            /\ admitted' \in [Req -> Executor \cup {NoExecutor}]
            /\ \A q \in Req : q # r => status'[q] = status[q] /\ (late'[q] <=> late[q])
            /\ ToSet(list) \subseteq ToSet(list')
            /\ UNCHANGED <<result, resp, key, owns, loop, phase, answer, runs, effect, dropped>>
            /\ \E v \in Replies :
                 /\ TaskIs(e, "start", task[e].node, r, v, task[e].response) \/ UNCHANGED task
                 /\ \/ v = "missing" /\ status[r] = "absent" /\ status'[r] = status[r]
                    \/ v \in {"started", "done"} /\ status[r] \notin {"queued", "absent"} /\ status'[r] = status[r]
                    \/ v = "expired" /\ status[r] \in {"queued", "expired"} /\ status'[r] = "expired"
                    \/ v = "not_owner" /\ status'[r] = status[r] /\ r \in ToSet(list')
                    \/ v = "admitted" /\ status[r] = "queued" /\ status'[r] = "started"
<1> DEFINE r == task[e].req
<1>1. /\ status \in [Req -> Statuses] /\ late \in [Req -> BOOLEAN] /\ list \in Seq(Req)
      /\ admitted \in [Req -> Executor \cup {NoExecutor}]
  BY DEF IInv, TypeOK
<1>2. /\ task[e].state = "start" /\ task[e].reply = "pending"
      /\ UNCHANGED <<result, resp, key, owns, loop, phase, answer, runs, effect, dropped>>
  BY DEF RedisStart, ownerVars, callVars, history
<1>3. r \in Req
  BY <1>2 DEF IInv, TaskShape
<1>4. status[r] \in Statuses /\ (status[r] # "absent" => status[r] \in Replies)
  BY <1>1, <1>3 DEF Statuses, Replies
<1>5. ASSUME NEW v \in Replies, Become(e, [task[e] EXCEPT !.reply = v])
      PROVE  TaskIs(e, "start", task[e].node, r, v, task[e].response)
  BY <1>2, <1>5, ReplyEffect DEF IInv
<1> DEFINE Told(v) == Become(e, [task[e] EXCEPT !.reply = v]) \/ UNCHANGED task
<1>6. CASE /\ status[r] = "absent" /\ Told("missing")
           /\ UNCHANGED <<status, late, admitted, list>>
  BY <1>1, <1>2, <1>3, <1>5, <1>6 DEF Replies
<1>7. CASE /\ status[r] # "absent" /\ ~Startable(r) /\ Told(status[r])
           /\ UNCHANGED <<status, late, admitted, list>>
  <2>1. status[r] \in {"started", "done", "expired"}
    BY <1>4, <1>7 DEF Startable, Statuses
  <2> QED
    BY <1>1, <1>2, <1>3, <1>4, <1>5, <1>7, <2>1
<1>8. CASE /\ Startable(r) /\ Told("expired")
           /\ status' = [status EXCEPT ![r] = "expired"] /\ late' = [late EXCEPT ![r] = FALSE]
           /\ UNCHANGED <<admitted, list>>
  <2>1. /\ status' \in [Req -> Statuses] /\ late' \in [Req -> BOOLEAN] /\ status'[r] = "expired"
        /\ \A q \in Req : q # r => status'[q] = status[q] /\ (late'[q] <=> late[q])
    BY <1>1, <1>3, <1>8 DEF Statuses
  <2>2. status[r] = "queued" /\ "expired" \in Replies
    BY <1>8 DEF Startable, Replies
  <2> QED
    BY <1>1, <1>2, <1>3, <1>5, <1>8, <2>1, <2>2
<1>9. CASE /\ Startable(r) /\ Told("not_owner") /\ HandBack(r)
           /\ UNCHANGED <<status, late, admitted>>
  <2>1. list' \in Seq(Req) /\ ToSet(list') = ToSet(list) \cup {r}
    BY <1>1, <1>3, <1>9, AppendedSet DEF HandBack
  <2>2. "not_owner" \in Replies
    BY DEF Replies
  <2> QED
    BY <1>1, <1>2, <1>3, <1>5, <1>9, <2>1, <2>2
<1>10. CASE /\ Startable(r) /\ Told("admitted")
            /\ status' = [status EXCEPT ![r] = "started"]
            /\ admitted' = [admitted EXCEPT ![r] = e]
            /\ UNCHANGED <<late, list>>
  <2>1. /\ status' \in [Req -> Statuses] /\ status'[r] = "started"
        /\ admitted' \in [Req -> Executor \cup {NoExecutor}]
        /\ \A q \in Req : q # r => status'[q] = status[q]
    BY <1>1, <1>3, <1>10 DEF Statuses
  <2>2. status[r] = "queued" /\ "admitted" \in Replies
    BY <1>10 DEF Startable, Replies
  <2> QED
    BY <1>1, <1>2, <1>3, <1>5, <1>10, <2>1, <2>2
<1> QED
  BY <1>6, <1>7, <1>8, <1>9, <1>10 DEF RedisStart

LEMMA StartStep ==
  ASSUME IInv, NEW e \in Executor, RedisStart(e)
  PROVE  IInv'
<1>0. PICK r \in Req : r = task[e].req
  BY StartEffect
<1>1. /\ r \in Req /\ task[e].state = "start" /\ task[e].reply = "pending"
      /\ status' \in [Req -> Statuses] /\ late' \in [Req -> BOOLEAN] /\ list' \in Seq(Req)
      /\ admitted' \in [Req -> Executor \cup {NoExecutor}]
      /\ \A q \in Req : q # r => status'[q] = status[q] /\ (late'[q] <=> late[q])
      /\ ToSet(list) \subseteq ToSet(list')
      /\ UNCHANGED <<result, resp, key, owns, loop, phase, answer, runs, effect, dropped>>
  BY <1>0, StartEffect
<1>2. PICK v \in Replies :
        /\ TaskIs(e, "start", task[e].node, r, v, task[e].response) \/ UNCHANGED task
        /\ \/ v = "missing" /\ status[r] = "absent" /\ status'[r] = status[r]
           \/ v \in {"started", "done"} /\ status[r] \notin {"queued", "absent"} /\ status'[r] = status[r]
           \/ v = "expired" /\ status[r] \in {"queued", "expired"} /\ status'[r] = "expired"
           \/ v = "not_owner" /\ status'[r] = status[r] /\ r \in ToSet(list')
           \/ v = "admitted" /\ status[r] = "queued" /\ status'[r] = "started"
  BY <1>0, StartEffect
<1>3. /\ task' \in [Executor -> Tasks]
      /\ task'[e].state = task[e].state /\ task'[e].node = task[e].node /\ task'[e].req = r
      /\ task'[e].response = task[e].response /\ task'[e].reply \in {"pending", v}
      /\ \A f \in Executor : f # e => task'[f] = task[f]
  BY <1>0, <1>1, <1>2 DEF TaskIs, IInv, TypeOK
<1>4. TypeOK'
  BY <1>1, <1>3 DEF IInv, TypeOK
<1>5. TaskShape'
  BY <1>0, <1>1, <1>3 DEF IInv, TaskShape
<1>6. Unqueued'
  BY <1>1, <1>2 DEF IInv, Unqueued
<1>7. ASSUME NEW f \in Executor, NEW q \in Req, Holds(f, q)'
      PROVE  \/ Holds(f, q)
             \/ f = e /\ q = r /\ status[r] = "queued" /\ status'[r] = "started"
  BY <1>1, <1>2, <1>3, <1>7 DEF Holds
<1>8. ASSUME NEW q \in Req
      PROVE  /\ Fresh(q)' => Fresh(q)
             /\ Never(q) => Never(q)'
             /\ status'[q] = "expired" => Never(q)'
             /\ status[q] = "queued" => q # r \/ phase[r] \notin {"idle", "enqueue", "lost"}
  <2>1. Fresh(q)' => Fresh(q)
    BY <1>1, <1>2 DEF Fresh
  <2>2. Never(q) => Never(q)'
    BY <1>1, <1>7, <2>1 DEF Never, Fresh
  <2>3. status'[q] = "expired" => status[q] \in {"queued", "expired"}
    BY <1>1, <1>2
  <2>4. status[q] = "queued" => phase[q] \notin {"idle", "enqueue", "lost"}
    BY DEF IInv, Unqueued
  <2>5. status[q] = "queued" /\ status'[q] = "expired" => Never(q)'
    <3>1. status[q] = "queued" => runs[q] = 0 /\ \A f \in Executor : ~Holds(f, q)
      BY DEF IInv, Once, Fresh
    <3>2. status'[q] = "expired" => \A f \in Executor : Holds(f, q)' => Holds(f, q)
      BY <1>7
    <3> QED
      BY <1>1, <2>4, <3>1, <3>2 DEF Never, Fresh
  <2>6. status[q] = "expired" => Never(q)
    BY DEF IInv, Expired
  <2> QED
    BY <2>1, <2>2, <2>3, <2>4, <2>5, <2>6
<1>9. Once'
  <2> SUFFICES ASSUME NEW q \in Req
               PROVE  /\ runs'[q] <= 1
                      /\ runs'[q] = 0 => effect'[q] = "none"
                      /\ Fresh(q)' => runs'[q] = 0
                      /\ \A f \in Executor : Holds(f, q)' => ~Fresh(q)' /\ runs'[q] = 0
                      /\ \A f, g \in Executor : Holds(f, q)' /\ Holds(g, q)' => f = g
    BY DEF Once
  <2>1. /\ runs'[q] <= 1
        /\ runs'[q] = 0 => effect'[q] = "none"
        /\ Fresh(q)' => runs'[q] = 0
    BY <1>1, <1>8 DEF IInv, Once
  <2>2. /\ \A f \in Executor : Holds(f, q) => ~Fresh(q) /\ runs[q] = 0
        /\ \A f, g \in Executor : Holds(f, q) /\ Holds(g, q) => f = g
        /\ Fresh(q) => runs[q] = 0
    BY DEF IInv, Once
  <2>3. status[q] = "queued" => Fresh(q) /\ \A f \in Executor : ~Holds(f, q)
    BY <2>2 DEF Fresh
  <2>4. CASE q = r /\ status[r] = "queued" /\ status'[r] = "started"
    <3>1. \A f \in Executor : Holds(f, q)' => f = e
      BY <1>7, <2>3, <2>4
    <3>2. ~Fresh(q)' /\ runs'[q] = 0
      BY <1>1, <1>8, <2>2, <2>3, <2>4 DEF Fresh
    <3> QED
      BY <2>1, <3>1, <3>2
  <2>5. CASE ~(q = r /\ status[r] = "queued" /\ status'[r] = "started")
    <3>1. \A f \in Executor : Holds(f, q)' => Holds(f, q)
      BY <1>7, <2>5
    <3>2. (Fresh(q)' => Fresh(q)) /\ runs'[q] = runs[q]
      BY <1>1, <1>8
    <3> QED
      BY <2>1, <2>2, <3>1, <3>2
  <2> QED
    BY <2>1, <2>4, <2>5
<1>10. Expired'
  <2>1. task'[e].reply = "expired" => status'[r] = "expired"
    BY <1>2, <1>3
  <2> QED
    BY <1>0, <1>1, <1>3, <1>8, <2>1 DEF IInv, Expired
<1>11. Truth'
  BY <1>0, <1>1, <1>3 DEF IInv, Truth
<1>12. Kept'
  <2> SUFFICES ASSUME NEW q \in Req, Alive(q)'
               PROVE  q \in ToSet(list') \/ (\E f \in Executor : Keeper(f, q)') \/ q \in dropped'
    BY DEF Kept
  <2>1. CASE q = r
    <3>1. v = "not_owner" \/ v = "missing"
      BY <1>2, <2>1 DEF Alive
    <3>2. v # "missing"
      BY <1>2, <2>1, <3>1 DEF Alive
    <3> QED
      BY <1>2, <2>1, <3>1, <3>2
  <2>2. CASE q # r
    <3>1. Alive(q)
      BY <1>1, <2>2 DEF Alive
    <3>2. \A f \in Executor : Keeper(f, q) => f # e /\ Keeper(f, q)'
      BY <1>0, <1>3, <2>2 DEF Keeper
    <3> QED
      BY <1>1, <3>1, <3>2 DEF IInv, Kept
  <2> QED
    BY <2>1, <2>2
<1> QED
  BY <1>4, <1>5, <1>6, <1>9, <1>10, <1>11, <1>12 DEF IInv

LEMMA ExecuteStep ==
  ASSUME IInv, NEW e \in Executor, Execute(e)
  PROVE  IInv'
<1>1. PICK r \in Req : r = task[e].req /\ Holds(e, r)
  BY DEF Execute, Started, Holds, IInv, TaskShape
<1>2. /\ UNCHANGED <<status, admitted, result, late, list, resp, key, owns, loop, phase, answer, dropped>>
      /\ task[e].state = "start" /\ task[e].reply = "admitted"
  BY DEF Execute, Started, redisVars, ownerVars, callVars
<1>3. PICK v \in Results :
        /\ TaskIs(e, "finish", task[e].node, r, "pending", v)
        /\ \/ v = "expired" /\ UNCHANGED <<runs, effect>>
           \/ /\ v # "expired"
              /\ runs' = [runs EXCEPT ![r] = @ + 1] /\ effect' = [effect EXCEPT ![r] = v]
  <2>1. CASE Step(e, "finish", "expired") /\ UNCHANGED <<runs, effect>>
    BY <1>1, <2>1, StepEffect DEF IInv, Results
  <2>2. CASE \E v \in {"ok", "unknown"} :
               /\ Step(e, "finish", v)
               /\ runs' = [runs EXCEPT ![r] = @ + 1]
               /\ effect' = [effect EXCEPT ![r] = v]
    BY <1>1, <2>2, StepEffect DEF IInv, Results
  <2> QED
    BY <1>1, <2>1, <2>2 DEF Execute
<1>4. /\ task' \in [Executor -> Tasks]
      /\ task'[e].state = "finish" /\ task'[e].node = task[e].node /\ task'[e].req = r
      /\ task'[e].reply = "pending" /\ task'[e].response = v
      /\ \A f \in Executor : f # e => task'[f] = task[f]
  BY <1>3 DEF TaskIs
<1>5. /\ runs \in [Req -> Nat] /\ effect \in [Req -> Results \cup {"none"}]
      /\ runs[r] = 0 /\ effect[r] = "none" /\ ~Fresh(r)
      /\ \A f \in Executor : Holds(f, r) => f = e
  BY <1>1 DEF IInv, TypeOK, Once
<1>6. /\ runs' \in [Req -> Nat] /\ effect' \in [Req -> Results \cup {"none"}]
      /\ \A q \in Req : q # r => runs'[q] = runs[q] /\ effect'[q] = effect[q]
      /\ \/ runs'[r] = 0 /\ effect'[r] = "none" /\ v = "expired"
         \/ runs'[r] = 1 /\ effect'[r] = v /\ v # "expired"
  BY <1>3, <1>5
<1>7. TypeOK'
  BY <1>2, <1>4, <1>6 DEF IInv, TypeOK
<1>8. TaskShape'
  BY <1>2, <1>4 DEF IInv, TaskShape
<1>9. Unqueued'
  BY <1>2 DEF IInv, Unqueued
<1>10. ASSUME NEW q \in Req
       PROVE  /\ (Fresh(q)' <=> Fresh(q))
              /\ \A f \in Executor : Holds(f, q)' => Holds(f, q) /\ f # e
              /\ \A f \in Executor : Keeper(f, q) => Keeper(f, q)'
  BY <1>2, <1>4 DEF Fresh, Holds, Keeper
<1>11. /\ \A q \in Req : Never(q) => q # r /\ Never(q)'
       /\ v = "expired" => Never(r)'
  <2>1. \A f \in Executor : ~Holds(f, r)'
    BY <1>5, <1>10
  <2>2. v = "expired" => Never(r)'
    BY <1>5, <1>6, <1>10, <2>1 DEF Never
  <2>3. ~Never(r)
    BY <1>1 DEF Never
  <2>4. \A q \in Req : q # r /\ Never(q) => Never(q)'
    BY <1>6, <1>10 DEF Never
  <2> QED
    BY <2>2, <2>3, <2>4
<1>12. Once'
  BY <1>5, <1>6, <1>10 DEF IInv, Once
<1>13. Expired'
  <2>1. answer[r] \notin {"expired", "refused"} /\ status[r] # "expired" /\ result[r] # "expired"
        /\ resp[r] # "expired"
    BY <1>11 DEF IInv, Expired
  <2> QED
    BY <1>1, <1>2, <1>4, <1>11 DEF IInv, Expired
<1>14. Truth'
  <2>1. ASSUME NEW q \in Req, q # r
        PROVE  /\ result'[q] = "ok" \/ resp'[q] = "ok" \/ answer'[q] = "ok" => effect'[q] = "ok"
               /\ \A f \in Executor : task'[f].req = q /\ task'[f].response = "ok" => effect'[q] = "ok"
    BY <1>2, <1>4, <1>6, <2>1 DEF IInv, Truth
  <2>2. /\ result[r] # "ok" /\ resp[r] # "ok" /\ answer[r] # "ok"
        /\ \A f \in Executor : task[f].req = r => task[f].response # "ok"
    BY <1>5 DEF IInv, Truth
  <2>3. /\ result'[r] = "ok" \/ resp'[r] = "ok" \/ answer'[r] = "ok" => effect'[r] = "ok"
        /\ \A f \in Executor : task'[f].req = r /\ task'[f].response = "ok" => effect'[r] = "ok"
    BY <1>2, <1>4, <1>6, <2>2
  <2> QED
    BY <2>1, <2>3 DEF Truth
<1>15. Kept'
  BY <1>2, <1>10 DEF IInv, Kept, Alive
<1> QED
  BY <1>7, <1>8, <1>9, <1>12, <1>13, <1>14, <1>15 DEF IInv

LEMMA FinishStep ==
  ASSUME IInv, NEW e \in Executor, RedisFinish(e)
  PROVE  IInv'
<1>1. PICK r \in Req : r = task[e].req
  BY DEF RedisFinish, IInv, TaskShape
<1>2. /\ UNCHANGED <<late, list, resp, key, owns, loop, phase, answer, runs, effect, dropped>>
      /\ task[e].state = "finish"
  BY DEF RedisFinish, ownerVars, callVars, history
<1>3. task[e].response \in Results \cup {"none"}
  BY FieldTypes DEF IInv
<1>4. /\ task' \in [Executor -> Tasks]
      /\ task'[e].state = "respond" /\ task'[e].node = task[e].node /\ task'[e].req = r
      /\ task'[e].reply = "pending" /\ task'[e].response = task[e].response
      /\ \A f \in Executor : f # e => task'[f] = task[f]
  <2>1. TaskIs(e, "respond", task[e].node, task[e].req, "pending", task[e].response)
    BY <1>3, StepEffect DEF RedisFinish, IInv
  <2> QED
    BY <1>1, <2>1 DEF TaskIs
<1>5. /\ status' \in [Req -> Statuses] /\ result' \in [Req -> Results \cup {"none"}]
      /\ admitted' \in [Req -> Executor \cup {NoExecutor}]
      /\ \A q \in Req : q # r => status'[q] = status[q] /\ result'[q] = result[q]
      /\ \/ status'[r] = status[r] /\ result'[r] = result[r]
         \/ status[r] = "started" /\ status'[r] = "done" /\ result'[r] = task[e].response
  <2>1. /\ status \in [Req -> Statuses] /\ result \in [Req -> Results \cup {"none"}]
        /\ admitted \in [Req -> Executor \cup {NoExecutor}]
    BY DEF IInv, TypeOK
  <2>2. CASE /\ status[r] = "started" /\ status' = [status EXCEPT ![r] = "done"]
             /\ result' = [result EXCEPT ![r] = task[e].response]
             /\ admitted' = [admitted EXCEPT ![r] = NoExecutor]
    BY <1>3, <2>1, <2>2 DEF Statuses
  <2>3. CASE UNCHANGED <<status, result, admitted>>
    BY <2>1, <2>3
  <2> QED
    BY <1>1, <2>2, <2>3 DEF RedisFinish
<1>6. TypeOK'
  BY <1>2, <1>4, <1>5 DEF IInv, TypeOK
<1>7. TaskShape'
  BY <1>2, <1>4 DEF IInv, TaskShape
<1>8. Unqueued'
  BY <1>2, <1>5 DEF IInv, Unqueued
<1>9. ASSUME NEW q \in Req
      PROVE  /\ Fresh(q)' => Fresh(q)
             /\ Never(q) => Never(q)'
             /\ Alive(q)' => Alive(q)
             /\ \A f \in Executor : Holds(f, q)' => Holds(f, q)
             /\ \A f \in Executor : Keeper(f, q) => Keeper(f, q)'
  <2>1. \A f \in Executor : (Holds(f, q)' => Holds(f, q)) /\ (Keeper(f, q) => Keeper(f, q)')
    BY <1>2, <1>4 DEF Holds, Keeper
  <2>2. (Fresh(q)' => Fresh(q)) /\ (Alive(q)' => Alive(q))
    BY <1>2, <1>5 DEF Fresh, Alive
  <2> QED
    BY <1>2, <2>1, <2>2 DEF Never
<1>10. Once'
  BY <1>2, <1>9 DEF IInv, Once
<1>11. Expired'
  <2>1. task[e].response = "expired" => Never(r)'
    BY <1>1, <1>9 DEF IInv, Expired
  <2> QED
    BY <1>1, <1>2, <1>4, <1>5, <1>9, <2>1 DEF IInv, Expired
<1>12. Truth'
  BY <1>1, <1>2, <1>4, <1>5 DEF IInv, Truth
<1>13. Kept'
  BY <1>2, <1>9 DEF IInv, Kept
<1> QED
  BY <1>6, <1>7, <1>8, <1>10, <1>11, <1>12, <1>13 DEF IInv

LEMMA RespondStep ==
  ASSUME IInv, NEW e \in Executor, Respond(e)
  PROVE  IInv'
<1>1. PICK r \in Req : r = task[e].req
  BY DEF Respond, IInv, TaskShape
<1>2. /\ UNCHANGED <<status, admitted, result, late, list, key, owns, loop, phase, answer, runs, effect, dropped>>
      /\ task[e].state = "respond"
  BY DEF Respond, ownerVars, callVars, history
<1>3. task[e].response \in Results \cup {"none"}
  BY FieldTypes DEF IInv
<1>4. TaskIs(e, "free", NoNode, NoReq, "pending", "none")
  BY EndEffect DEF Respond, IInv
<1>5. /\ resp' \in [Req -> Results \cup {"none"}]
      /\ \A q \in Req : q # r => resp'[q] = resp[q]
      /\ resp'[r] \in {resp[r], task[e].response}
  BY <1>1, <1>3 DEF Respond, IInv, TypeOK
<1>6. /\ task' \in [Executor -> Tasks]
      /\ task'[e].state = "free" /\ task'[e].node = NoNode /\ task'[e].req = NoReq
      /\ task'[e].reply = "pending" /\ task'[e].response = "none"
      /\ \A f \in Executor : f # e => task'[f] = task[f]
  BY <1>4 DEF TaskIs
<1>7. TypeOK'
  BY <1>2, <1>5, <1>6 DEF IInv, TypeOK
<1>8. TaskShape'
  BY <1>6 DEF IInv, TaskShape
<1>9. Unqueued'
  BY <1>2 DEF IInv, Unqueued
<1>10. ASSUME NEW q \in Req
       PROVE  /\ (Fresh(q)' <=> Fresh(q)) /\ (Never(q) => Never(q)') /\ (Alive(q)' <=> Alive(q))
              /\ \A f \in Executor : Holds(f, q)' => Holds(f, q)
              /\ \A f \in Executor : Keeper(f, q) => Keeper(f, q)'
  <2>1. \A f \in Executor : (Holds(f, q)' => Holds(f, q)) /\ (Keeper(f, q) => Keeper(f, q)')
    BY <1>2, <1>6 DEF Holds, Keeper
  <2>2. (Fresh(q)' <=> Fresh(q)) /\ (Alive(q)' <=> Alive(q))
    BY <1>2 DEF Fresh, Alive
  <2> QED
    BY <1>2, <2>1, <2>2 DEF Never
<1>11. Once'
  BY <1>2, <1>10 DEF IInv, Once
<1>12. Expired'
  <2>1. task[e].response = "expired" => Never(r)'
    BY <1>1, <1>10 DEF IInv, Expired
  <2> QED
    BY <1>2, <1>5, <1>6, <1>10, <2>1 DEF IInv, Expired
<1>13. Truth'
  BY <1>1, <1>2, <1>5, <1>6 DEF IInv, Truth
<1>14. Kept'
  BY <1>2, <1>10 DEF IInv, Kept
<1> QED
  BY <1>7, <1>8, <1>9, <1>11, <1>12, <1>13, <1>14 DEF IInv

LEMMA SettleUnadmittedStep ==
  ASSUME IInv, NEW e \in Executor, SettleUnadmitted(e)
  PROVE  IInv'
<1>1. PICK r \in Req : r = task[e].req
  BY DEF SettleUnadmitted, IInv, TaskShape
<1>2. /\ UNCHANGED <<admitted, result, resp, key, owns, loop, phase, answer, runs, effect>>
      /\ task[e].state = "settle"
  BY DEF SettleUnadmitted, ownerVars, callVars
<1>3. PICK v \in {SettleReply(r), "unknown"} :
        /\ Step(e, "respond", v)
        /\ \/ SettleEffect(r) /\ UNCHANGED dropped
           \/ v = "unknown" /\ Lost({r}) /\ UNCHANGED <<status, late, list>>
  BY <1>1 DEF SettleUnadmitted
<1>4. v \in Results \cup {"none"}
  BY <1>3, SettleReplyType DEF Results
<1>5. /\ task' \in [Executor -> Tasks]
      /\ task'[e].state = "respond" /\ task'[e].node = task[e].node /\ task'[e].req = r
      /\ task'[e].reply = "pending" /\ task'[e].response = v
      /\ \A f \in Executor : f # e => task'[f] = task[f]
  <2>1. TaskIs(e, "respond", task[e].node, task[e].req, "pending", v)
    BY <1>3, <1>4, StepEffect DEF IInv
  <2> QED
    BY <1>1, <2>1 DEF TaskIs
<1>6. /\ status' \in [Req -> Statuses] /\ late' \in [Req -> BOOLEAN] /\ list' \in Seq(Req)
      /\ \A q \in Req : q # r => status'[q] = status[q]
      /\ \/ status'[r] = status[r]
         \/ status[r] = "queued" /\ status'[r] = "expired"
      /\ \A q \in Req : Alive(q)' => Alive(q)
      /\ \A q \in Req : q # r /\ q \in ToSet(list) => q \in ToSet(list')
      /\ Alive(r)' => r \in dropped'
      /\ dropped' \in SUBSET Req /\ dropped \subseteq dropped'
  <2>1. CASE SettleEffect(r) /\ UNCHANGED dropped
    BY <2>1, SettleEffectFacts DEF IInv, TypeOK
  <2>2. CASE Lost({r}) /\ UNCHANGED <<status, late, list>>
    BY <2>2 DEF Lost, Alive, IInv, TypeOK
  <2> QED
    BY <1>3, <2>1, <2>2
<1>7. TypeOK'
  BY <1>2, <1>5, <1>6 DEF IInv, TypeOK
<1>8. TaskShape'
  BY <1>2, <1>5 DEF IInv, TaskShape
<1>9. Unqueued'
  BY <1>2, <1>6 DEF IInv, Unqueued
<1>10. ASSUME NEW q \in Req
       PROVE  /\ Fresh(q)' => Fresh(q)
              /\ \A f \in Executor : Holds(f, q)' => Holds(f, q)
              /\ Never(q) => Never(q)'
              /\ \A f \in Executor : Keeper(f, q) /\ q # r => Keeper(f, q)'
  <2>1. \A f \in Executor : (Holds(f, q)' => Holds(f, q)) /\ (Keeper(f, q) /\ q # r => Keeper(f, q)')
    BY <1>1, <1>2, <1>5 DEF Holds, Keeper
  <2>2. Fresh(q)' => Fresh(q)
    BY <1>2, <1>6 DEF Fresh
  <2> QED
    BY <1>2, <2>1, <2>2 DEF Never
<1>11. Once'
  BY <1>2, <1>10 DEF IInv, Once
<1>12. status'[r] = "expired" \/ v = "expired" => Never(r)'
  <2>1. CASE SettleEffect(r)
    <3>1. /\ status[r] \in {"queued", "expired"} => Never(r)'
          /\ Never(r) => Never(r)'
      BY <1>2, <1>10, <2>1, SettledNeverRuns
    <3>2. v = "expired" => status[r] \in {"queued", "expired"} \/ result[r] = "expired"
      BY <1>3, SettleReplyType
    <3>3. result[r] = "expired" => Never(r)
      BY DEF IInv, Expired
    <3>4. status'[r] = "expired" => status[r] \in {"queued", "expired"}
      BY <1>6
    <3> QED
      BY <3>1, <3>2, <3>3, <3>4
  <2>2. CASE v = "unknown" /\ UNCHANGED <<status, late, list>>
    <3>1. status[r] = "expired" => Never(r)
      BY DEF IInv, Expired
    <3> QED
      BY <1>10, <2>2, <3>1
  <2> QED
    BY <1>3, <2>1, <2>2
<1>13. Expired'
  BY <1>1, <1>2, <1>5, <1>6, <1>10, <1>12 DEF IInv, Expired
<1>14. Truth'
  <2>1. v = "ok" => result[r] = "ok"
    BY <1>3, SettleReplyType
  <2> QED
    BY <1>1, <1>2, <1>5, <2>1 DEF IInv, Truth
<1>15. Kept'
  BY <1>6, <1>10 DEF IInv, Kept
<1> QED
  BY <1>7, <1>8, <1>9, <1>11, <1>13, <1>14, <1>15 DEF IInv

LEMMA CrashStep ==
  ASSUME IInv, NEW n \in Node, Crash(n)
  PROVE  IInv'
<1>1. UNCHANGED <<status, admitted, result, late, list, resp, key, phase, answer, runs, effect>>
  BY DEF Crash, redisVars, callVars
<1>2. /\ owns' \in [Node -> BOOLEAN] /\ loop' \in [Node -> BOOLEAN]
  BY DEF Crash, IInv, TypeOK
<1>3. /\ task' \in [Executor -> Tasks]
      /\ \A e \in Executor : task[e].node # n => task'[e] = task[e]
      /\ \A e \in Executor : task[e].node = n => task'[e] = Free
  BY FreeIsTask DEF Crash, IInv, TypeOK
<1>4. ASSUME NEW e \in Executor, task[e].node = n
      PROVE  /\ task[e].req \in Req
             /\ task'[e].state = "free" /\ task'[e].node = NoNode /\ task'[e].req = NoReq
             /\ task'[e].reply = "pending" /\ task'[e].response = "none"
  <2>1. task[e].req \in Req
    BY <1>4, NameAssumption DEF IInv, TaskShape
  <2> QED
    BY <1>3, <1>4, <2>1, FreeIsTask
<1>5. /\ dropped' \in SUBSET Req /\ dropped \subseteq dropped'
      /\ \A e \in Executor : task[e].node = n /\ Alive(task[e].req) => task[e].req \in dropped'
  <2>1. dropped' = dropped \cup
          {r \in {task[e].req : e \in {f \in Executor : task[f].node = n}} : Alive(r)}
    BY DEF Crash, Lost
  <2> QED
    BY <1>4, <2>1 DEF IInv, TypeOK
<1>6. TypeOK'
  BY <1>1, <1>2, <1>3, <1>5 DEF IInv, TypeOK
<1>7. TaskShape'
  <2>1. ASSUME NEW e \in Executor
        PROVE  \/ task'[e].state = "free" /\ task'[e].node = NoNode /\ task'[e].reply = "pending"
                  /\ task'[e].response = "none"
               \/ task'[e].state # "free" /\ task'[e].node \in Node /\ task'[e].req \in Req
    <3>1. CASE task[e].node = n
      BY <1>4, <3>1
    <3>2. CASE task[e].node # n
      BY <1>3, <3>2 DEF IInv, TaskShape
    <3> QED
      BY <3>1, <3>2
  <2> QED
    BY <2>1 DEF TaskShape
<1>8. Unqueued'
  BY <1>1 DEF IInv, Unqueued
<1>9. ASSUME NEW e \in Executor, NEW q \in Req
      PROVE  /\ Holds(e, q)' => Holds(e, q)
             /\ Keeper(e, q) => Keeper(e, q)' \/ task[e].node = n
             /\ task'[e].req = q => task'[e] = task[e]
  <2>1. NoReq # q
    BY NameAssumption
  <2> QED
    BY <1>3, <1>4, <2>1 DEF Holds, Keeper
<1>10. ASSUME NEW q \in Req
       PROVE  (Fresh(q)' <=> Fresh(q)) /\ (Never(q) => Never(q)') /\ (Alive(q)' <=> Alive(q))
  BY <1>1, <1>9 DEF Fresh, Never, Alive
<1>11. Once'
  BY <1>1, <1>9, <1>10 DEF IInv, Once
<1>12. Expired'
  BY <1>1, <1>9, <1>10 DEF IInv, Expired
<1>13. Truth'
  BY <1>1, <1>9 DEF IInv, Truth
<1>14. Kept'
  <2>1. ASSUME NEW q \in Req, NEW e \in Executor, Keeper(e, q), Alive(q), task[e].node = n
        PROVE  q \in dropped'
    BY <1>5, <2>1 DEF Keeper
  <2> QED
    BY <1>1, <1>5, <1>9, <1>10, <2>1 DEF IInv, Kept
<1> QED
  BY <1>6, <1>7, <1>8, <1>11, <1>12, <1>13, <1>14 DEF IInv

-----------------------------------------------------------------------------
(* The theorems. *)

LEMMA InitIsInductive == Init => IInv
<1> SUFFICES ASSUME Init
             PROVE  IInv
  OBVIOUS
<1>1. \A e \in Executor : task[e] = Free
  BY DEF Init
<1>2. TypeOK
  <2>1. <<>> \in Seq(Req)
    BY EmptySeq
  <2>2. task \in [Executor -> Tasks]
    BY FreeIsTask DEF Init
  <2> QED
    BY <2>1, <2>2 DEF Init, TypeOK, Statuses
<1>3. TaskShape
  BY <1>1, FreeIsTask DEF TaskShape
<1>4. \A e \in Executor : \A r \in Req : ~Holds(e, r) /\ task[e].req # r
  BY <1>1, FreeIsTask, NameAssumption DEF Holds
<1>5. /\ \A r \in Req : /\ phase[r] = "idle" /\ status[r] = "absent" /\ runs[r] = 0
                        /\ effect[r] = "none" /\ result[r] = "none" /\ resp[r] = "none"
                        /\ answer[r] = "none"
  BY DEF Init
<1>6. Unqueued /\ Once /\ Expired /\ Truth /\ Kept
  BY <1>4, <1>5 DEF Unqueued, Once, Expired, Truth, Kept, Alive
<1> QED
  BY <1>2, <1>3, <1>6 DEF IInv

LEMMA StepIsInductive == IInv /\ [Next]_vars => IInv'
<1> SUFFICES ASSUME IInv, [Next]_vars
             PROVE  IInv'
  OBVIOUS
<1>1. ASSUME NEW r \in Req, Forwarder(r) \/ RedisEnqueue(r) \/ DeadlinePasses(r) \/ Forget(r)
      PROVE  IInv'
  BY <1>1, ForwarderSteps, SettleStep, EnqueueStep, RecordStep DEF Forwarder
<1>2. ASSUME NEW e \in Executor, Call(e) \/ RedisStart(e) \/ RedisFinish(e)
      PROVE  IInv'
  BY <1>2, LoadedStep, NotOwnerStep, EndedStep, ExpiredAtStartStep, StartUncertainStep,
     ExecuteStep, SettleUnadmittedStep, RespondStep, StartStep, FinishStep DEF Call
<1>3. ASSUME NEW n \in Node, Claim(n) \/ ForgetClaim(n) \/ Crash(n)
      PROVE  IInv'
  BY <1>3, OwnerStep, ForgetClaimStep, CrashStep
<1>4. CASE UNCHANGED vars
  <2>1. /\ UNCHANGED requestVars /\ UNCHANGED <<admitted, key, owns, loop, task>>
    BY <1>4 DEF vars, requestVars
  <2>2. TypeOK'
    BY <2>1, TypeKept DEF IInv, TypeOK
  <2>3. TaskShape' /\ CallsAreQuiet
    BY <2>1 DEF IInv, TaskShape, CallsAreQuiet, Holds, Keeper
  <2> QED
    BY <2>1, <2>2, <2>3, QuietStep
<1> QED
  BY <1>1, <1>2, <1>3, <1>4, PopStep, OwnerStep DEF Next, Steps

(* The invariant holds in every state the system can reach.                *)
THEOREM Invariance == Spec => []IInv
  BY InitIsInductive, StepIsInductive, PTL DEF Spec

(* Requests, calls and the list are well typed.                            *)
THEOREM TypeCorrect == Spec => []TypeOK
<1>1. IInv => TypeOK
  BY DEF IInv
<1> QED
  BY <1>1, Invariance, PTL

(* A forwarded command runs at most once, however many gateways own the    *)
(* game in turn, however often scripts are resent and envelopes handed     *)
(* back, and whichever processes die (START_REQUEST, processCommand).      *)
THEOREM ExecutionSafety == Spec => []RunsOnce
<1>1. IInv => RunsOnce
  BY DEF IInv, Once, RunsOnce
<1> QED
  BY <1>1, Invariance, PTL

(* What the forwarder tells its caller is true and stays true (forward,    *)
(* settleForward): an answer of the game is the one its owner saw, and     *)
(* what expired or was refused has not run and will not.                   *)
THEOREM AnswerSafety == Spec => []ForwardersTellTheTruth
<1>1. IInv => ForwardersTellTheTruth
  BY DEF IInv, Expired, Truth, Never, ForwardersTellTheTruth
<1> QED
  BY <1>1, Invariance, PTL

(* A live request is never mislaid: neither the purge of the list's front, *)
(* nor a hand-back, nor the removal of another request's copies loses it.  *)
THEOREM EnvelopeSafety == Spec => []EnvelopesAreKept
<1>1. IInv => EnvelopesAreKept
  BY DEF IInv, Kept, Keeper, EnvelopesAreKept
<1> QED
  BY <1>1, Invariance, PTL
-----------------------------------------------------------------------------
(* The browser's feed. *)

\* Every bounded set of naturals that is not empty has a greatest element.
LEMMA GreatestNatural ==
  ASSUME NEW b \in Nat, NEW T \in SUBSET (0..b), T # {}
  PROVE  \E m \in T : \A n \in T : m >= n
<1> DEFINE D == {b - n : n \in T}
<1>1. D \in SUBSET Nat /\ D # {}
  <2>1. \A n \in T : b - n \in Nat
    OBVIOUS
  <2> QED BY <2>1
<1>2. PICK d \in D : \A e \in D : d <= e
  BY <1>1, LeastNatural
<1>3. PICK m \in T : d = b - m
  BY <1>2
<1>4. \A n \in T : b - m <= b - n
  BY <1>2, <1>3
<1> QED BY <1>4

-----------------------------------------------------------------------------
(* What a client knows. *)

Timers == {"none", "timeout", "backoff"}
Screens == [moves : Seq(Nat), offer : BOOLEAN, over : BOOLEAN, ready : SUBSET Nat]
Clients ==
  [open : BOOLEAN, connected : BOOLEAN, awaiting : BOOLEAN, retry : BOOLEAN, joins : Nat, joined : BOOLEAN,
   lastPly : Int, screen : Screens, floor : Nat, debtRev : Nat, debtPly : Nat, attempts : Nat,
   timer : Timers, out : BOOLEAN, up : Seq({"join", "resume"})]

\* A game's log: its creation comes first, and its ending last.
Story(g) ==
  /\ g \in Seq(Feed!Kind) /\ g # <<>>
  /\ \A i \in DOMAIN g : (g[i] = "created" <=> i = 1) /\ (i < Len(g) => g[i] # "ended")

Answers == {"joined", "reject"}

\* A frame says what the log says.
True(f, g) ==
  \/ f = Feed!Frame("reject", 0)
  \/ /\ f \in [t : Feed!FrameType \ {"reject"}, rev : 1..Len(g)]
     /\ f.t \in {"ready", "move", "ended"} => g[f.rev] = f.t

\* The revision a client has seen or knows it has missed.
Reach(c) == Feed!Larger(c.floor, c.debtRev)

Begins(s, t) == Len(s) <= Len(t) /\ \A i \in 1..Len(s) : s[i] = t[i]

Shows(c, g) ==
  LET v == Feed!View(g, c.floor)
  IN /\ c.screen.moves = v.moves /\ c.screen.over = v.over /\ c.screen.ready = v.ready
     /\ ~c.screen.over => c.screen.offer = v.offer

\* Across a gap the screen has a prefix of the moves, no ending but the game's, and no
\* readiness from beyond what the client asks for; without one it is the game.
Sound(c, g) ==
  /\ Reach(c) <= Len(g)
  /\ Begins(c.screen.moves, Feed!View(g, c.floor).moves)
  /\ c.screen.over => Feed!View(g, c.floor).over
  /\ c.screen.ready \subseteq Feed!At(g, Reach(c), "ready")
  /\ ~Feed!InDebt(c) => Shows(c, g)

\* A gap that is known is being repaired, or the player is asked.
Alert(c) == c.connected /\ Feed!InDebt(c) => c.timer # "none" \/ c.out

-----------------------------------------------------------------------------
(* The invariant. *)

Sessions == [join : {"none", "waiting", "read"}, snap : Nat, buffer : Seq([t : Feed!FrameType, rev : Nat]),
             member : BOOLEAN, resume : {"none", "reading", "read"}, held : Nat]

FeedTypes ==
  /\ Story(story) /\ client \in Clients /\ session \in Sessions
  /\ unsent \subseteq [rev : 2..Len(story), by : {"here", "there"}] /\ replies \subseteq 1..Len(story)
  /\ others \in BOOLEAN /\ lossy \in BOOLEAN /\ sub \in {"none", "waiting", "ok"} /\ owner \in {"here", "there"}
  /\ {observed, lastFull, lost, refresh.snap, session.snap, session.held} \subseteq 0..Len(story)
  /\ pipe \in Seq([t : Feed!FrameType, rev : Nat]) /\ refresh \in [attempt : Nat, again : BOOLEAN, snap : Nat]

FramesAreTrue ==
  /\ \A i \in DOMAIN pipe : True(pipe[i], story)
  /\ \A i \in DOMAIN session.buffer : True(session.buffer[i], story) /\ session.buffer[i].t \notin Answers
  /\ session.join = "read" => session.snap > 0
  /\ session.resume = "read" => session.held > 0

\* Where a join stands, from the request to its answer.
NoJoin == session.join = "none" /\ ~session.member /\ session.resume = "none"
Resting   == client.up = <<>> /\ NoJoin /\ pipe = <<>>
Asked     == client.up = <<"join">> /\ NoJoin /\ pipe = <<>>
InProgress == client.up = <<>> /\ session.join # "none" /\ ~session.member /\ session.resume = "none" /\ pipe = <<>>
Refused   == client.up = <<>> /\ NoJoin /\ pipe = <<Feed!Frame("reject", 0)>>
JoinAnswered ==
  /\ client.up = <<>> /\ session.join = "none" /\ session.member /\ session.resume = "none"
  /\ pipe # <<>> /\ pipe[1].t = "joined" /\ \A i \in 2..Len(pipe) : pipe[i].t \notin Answers
Joined    == /\ session.join = "none" /\ session.member
             /\ \A i \in DOMAIN client.up : client.up[i] = "resume"
             /\ \A i \in DOMAIN pipe : pipe[i].t # "joined"

JoinStands ==
  /\ ~client.open => ~client.connected /\ ~client.awaiting
  /\ client.connected => ~client.awaiting /\ Joined
  /\ ~client.connected /\ ~client.awaiting => Resting
  /\ client.awaiting => Asked \/ InProgress \/ Refused \/ JoinAnswered
  /\ client.open /\ ~client.connected => client.awaiting \/ client.retry \/ client.out

\* The end of the log has reached the client, or is under way to it.
End == Len(story)
UnderWay == Reach(client) = End \/ \E i \in DOMAIN pipe : pipe[i].rev = End
InJoin == session.snap = End \/ \E i \in DOMAIN session.buffer : session.buffer[i].rev = End

\* Or it is still to be published, or was lost between the owner and the gateway.
Elsewhere == (\E u \in unsent : u.rev = End) \/ (lossy /\ lost = End)

EndIsKnown ==
  /\ session.member => /\ UnderWay \/ Elsewhere
                       /\ lastFull = End => UnderWay
  /\ session.join = "read" => /\ InJoin \/ Elsewhere
                              /\ lastFull = End => InJoin
  /\ session.member \/ session.join = "read" => sub = "ok" \/ lossy

FeedInv ==
  /\ FeedTypes /\ FramesAreTrue /\ JoinStands /\ EndIsKnown
  /\ Sound(client, story) /\ Alert(client)
-----------------------------------------------------------------------------
(* Numbers in ascending order. *)

Upto(S, i) == {j \in S : j <= i}

\* LiveFeed counts with the Cardinality of the theorems about finite sets.
LEMMA FeedCounts == \A S : Feed!Cardinality(S) = Cardinality(S)
BY DEF Feed!Cardinality, Cardinality

\* The elements of S up to i are finitely many, and at most as many as S has.
LEMMA UptoIs ==
  ASSUME NEW n \in Nat, NEW S \in SUBSET (1..n)
  PROVE  /\ IsFiniteSet(S) /\ Cardinality(S) \in Nat
         /\ \A i : IsFiniteSet(Upto(S, i)) /\ Cardinality(Upto(S, i)) \in Nat /\ Cardinality(Upto(S, i)) <= Cardinality(S)
<1>1. IsFiniteSet(1..n)
  BY FS_Interval
<1>2. IsFiniteSet(S)
  BY <1>1, FS_Subset
<1>3. Cardinality(S) \in Nat
  BY <1>2, FS_CardinalityType
<1>4. ASSUME NEW i PROVE IsFiniteSet(Upto(S, i)) /\ Cardinality(Upto(S, i)) \in Nat /\ Cardinality(Upto(S, i)) <= Cardinality(S)
  <2>1. Upto(S, i) \in SUBSET S
    BY DEF Upto
  <2> QED BY <1>2, <2>1, FS_Subset, FS_CardinalityType
<1> QED BY <1>2, <1>3, <1>4

\* Larger members have more members up to them.
LEMMA UptoGrows ==
  ASSUME NEW n \in Nat, NEW S \in SUBSET (1..n), NEW i \in S, NEW k \in S, i < k
  PROVE  Cardinality(Upto(S, i)) < Cardinality(Upto(S, k))
<1>0. S \subseteq Nat /\ i \in Nat /\ k \in Nat
  OBVIOUS
<1>1. Upto(S, i) \in SUBSET Upto(S, k) /\ Upto(S, i) # Upto(S, k)
  <2>1. k \in Upto(S, k) /\ k \notin Upto(S, i)
    BY <1>0 DEF Upto
  <2>2. ASSUME NEW j \in Upto(S, i) PROVE j \in Upto(S, k)
    <3>1. j \in S /\ j \in Nat /\ j <= i
      BY <1>0 DEF Upto
    <3> QED BY <1>0, <3>1 DEF Upto
  <2> QED BY <2>1, <2>2
<1>2. /\ IsFiniteSet(Upto(S, k))
      /\ Cardinality(Upto(S, i)) \in Nat /\ Cardinality(Upto(S, k)) \in Nat
  BY UptoIs
<1>3. /\ Cardinality(Upto(S, i)) <= Cardinality(Upto(S, k))
      /\ Cardinality(Upto(S, k)) # Cardinality(Upto(S, i))
  BY <1>1, <1>2, FS_Subset
<1> QED BY <1>2, <1>3

\* Two elements with as many of S up to each are the same.
LEMMA NthIsUnique ==
  ASSUME NEW n \in Nat, NEW S \in SUBSET (1..n), NEW i \in S, NEW k \in S,
         Cardinality(Upto(S, i)) = Cardinality(Upto(S, k))
  PROVE  i = k
<1>1. i \in Nat /\ k \in Nat
  OBVIOUS
<1>2. Cardinality(Upto(S, i)) \in Nat /\ Cardinality(Upto(S, k)) \in Nat
  BY UptoIs
<1>3. ~(i < k)
  <2>1. i < k => Cardinality(Upto(S, i)) < Cardinality(Upto(S, k))
    BY UptoGrows
  <2> QED BY <1>2, <2>1
<1>4. ~(k < i)
  <2>1. k < i => Cardinality(Upto(S, k)) < Cardinality(Upto(S, i))
    BY UptoGrows
  <2> QED BY <1>2, <2>1
<1> QED BY <1>1, <1>3, <1>4

\* All of S is up to its greatest element.
LEMMA UptoTheTop ==
  ASSUME NEW n \in Nat, NEW S \in SUBSET (1..n), NEW i \in S, \A j \in S : j <= i
  PROVE  Cardinality(Upto(S, i)) = Cardinality(S)
<1>1. Upto(S, i) = S
  BY Zenon DEF Upto
<1> QED BY <1>1

\* Before an element that is not the first stands the one counted just before it.
LEMMA UptoTheNext ==
  ASSUME NEW n \in Nat, NEW S \in SUBSET (1..n), NEW m \in S, Cardinality(Upto(S, m)) > 1
  PROVE  \E q \in S : q < m /\ Cardinality(Upto(S, q)) = Cardinality(Upto(S, m)) - 1
<1> DEFINE P == {j \in S : j < m}
<1>1. IsFiniteSet(Upto(S, m))
  BY UptoIs
<1>0. S \subseteq Nat /\ m \in Nat
  OBVIOUS
<1>2. Upto(S, m) = P \cup {m} /\ m \notin P
  <2>1. ASSUME NEW j \in S PROVE j <= m <=> j < m \/ j = m
    BY <1>0
  <2>2. ~(m < m)
    BY <1>0
  <2> QED BY <2>1, <2>2 DEF Upto
<1>3. IsFiniteSet(P)
  BY <1>1, <1>2, FS_Subset
<1>4. Cardinality(Upto(S, m)) = Cardinality(P) + 1 /\ Cardinality(P) \in Nat
  BY <1>2, <1>3, FS_AddElement, FS_CardinalityType
<1>5. P # {}
  BY <1>4, FS_EmptySet
<1>6. P \in SUBSET (0..n)
  <2>1. ASSUME NEW j \in P PROVE j \in 0..n
    BY j \in 1..n
  <2> QED BY <2>1
<1> HIDE DEF P
<1>7. PICK q \in P : \A j \in P : q >= j
  BY <1>5, <1>6, GreatestNatural
<1>8. q \in S /\ q < m
  BY <1>7 DEF P
<1>9. Upto(S, q) = P
  <2>1. ASSUME NEW j \in S PROVE j <= q <=> j < m
    <3>1. j \in Nat /\ q \in Nat
      BY <1>0, <1>8
    <3>2. j < m => j <= q
      BY <1>7, <3>1 DEF P
    <3> QED BY <1>0, <1>8, <3>1, <3>2
  <2> QED BY <2>1 DEF P, Upto
<1> QED BY <1>4, <1>8, <1>9

\* S has a k-th element, for every k up to its number.
LEMMA NthExists ==
  ASSUME NEW n \in Nat, NEW S \in SUBSET (1..n), NEW k \in 1..Cardinality(S)
  PROVE  \E i \in S : Cardinality(Upto(S, i)) = k
<1> DEFINE D == {i \in S : Cardinality(Upto(S, i)) >= k}
<1>0. Cardinality(S) \in Nat /\ \A i : Cardinality(Upto(S, i)) \in Nat
  BY UptoIs
<1>1. D # {}
  <2>1. S # {}
    BY <1>0, FS_EmptySet
  <2>2. S \in SUBSET (0..n)
    <3>1. 1..n \subseteq 0..n
      OBVIOUS
    <3> QED BY <3>1
  <2>3. PICK i \in S : \A j \in S : i >= j
    BY <2>1, <2>2, GreatestNatural
  <2>4. Cardinality(Upto(S, i)) = Cardinality(S)
    BY <2>3, UptoTheTop
  <2> QED BY <2>4, <1>0
<1>2. D \in SUBSET Nat
  <2>1. S \subseteq Nat
    OBVIOUS
  <2> QED BY <2>1
<1>3. PICK m \in D : \A i \in D : m <= i
  BY <1>1, <1>2, LeastNatural
<1>4. m \in S /\ Cardinality(Upto(S, m)) >= k
  OBVIOUS
<1>5. CASE Cardinality(Upto(S, m)) > k
  <2>0. Cardinality(Upto(S, m)) > 1 /\ m \in S
    BY <1>0, <1>4, <1>5
  <2>1. PICK q \in S : q < m /\ Cardinality(Upto(S, q)) = Cardinality(Upto(S, m)) - 1
    <3> HIDE DEF D
    <3> QED BY <2>0, UptoTheNext
  <2>2. q \in D
    BY <1>0, <1>5, <2>1
  <2> QED BY <1>3, <1>4, <2>1, <2>2
<1> QED BY <1>0, <1>4, <1>5

\* Ascending(S) lists S: its k-th entry is the k-th element of S.
LEMMA AscendingIs ==
  ASSUME NEW n \in Nat, NEW S \in SUBSET (1..n)
  PROVE  /\ Feed!Ascending(S) \in Seq(S) /\ Len(Feed!Ascending(S)) = Cardinality(S) /\ Cardinality(S) \in Nat
         /\ \A k \in 1..Cardinality(S) : /\ Feed!Ascending(S)[k] \in S
                                         /\ Cardinality(Upto(S, Feed!Ascending(S)[k])) = k
<1>1. Cardinality(S) \in Nat
  BY UptoIs
<1>2. ASSUME NEW k \in 1..Cardinality(S)
      PROVE  Feed!Ascending(S)[k] \in S /\ Cardinality(Upto(S, Feed!Ascending(S)[k])) = k
  <2>1. Feed!Ascending(S)[k] = CHOOSE i \in S : Cardinality(Upto(S, i)) = k
    BY <1>1, FeedCounts DEF Feed!Ascending, Upto
  <2> QED BY <2>1, NthExists
<1>3. Feed!Ascending(S) \in Seq(S) /\ Len(Feed!Ascending(S)) = Cardinality(S)
  <2>1. Feed!Ascending(S) = [k \in 1..Cardinality(S) |-> Feed!Ascending(S)[k]]
    BY FeedCounts DEF Feed!Ascending
  <2>2. Feed!Ascending(S) \in [1..Cardinality(S) -> S]
    BY <1>2, <2>1
  <2> QED BY <1>1, <2>2
<1> QED BY <1>1, <1>2, <1>3

\* Every member has its place.
LEMMA AscendingHasAll ==
  ASSUME NEW n \in Nat, NEW S \in SUBSET (1..n), NEW i \in S
  PROVE  Cardinality(Upto(S, i)) \in 1..Cardinality(S) /\ Feed!Ascending(S)[Cardinality(Upto(S, i))] = i
<1> DEFINE k == Cardinality(Upto(S, i))
<1>1. Cardinality(S) \in Nat /\ k \in Nat /\ k <= Cardinality(S)
  BY UptoIs
<1>2. k # 0
  <2>0. i \in Nat
    OBVIOUS
  <2>1. i \in Upto(S, i) /\ IsFiniteSet(Upto(S, i))
    BY <2>0, UptoIs DEF Upto
  <2> QED BY <2>1, FS_EmptySet
<1>3. k \in 1..Cardinality(S)
  BY <1>1, <1>2
<1>4. Feed!Ascending(S)[k] \in S /\ Cardinality(Upto(S, Feed!Ascending(S)[k])) = k
  BY <1>3, AscendingIs
<1>5. Feed!Ascending(S)[k] = i
  BY <1>4, NthIsUnique
<1> QED BY <1>3, <1>5

\* Members above all others come after them.
LEMMA AscendingGrows ==
  ASSUME NEW n \in Nat, NEW T \in SUBSET (1..n), NEW S \in SUBSET T, \A i \in S, k \in T \ S : i < k
  PROVE  Begins(Feed!Ascending(S), Feed!Ascending(T))
<1>1. S \in SUBSET (1..n)
  OBVIOUS
<1>2. /\ Cardinality(S) \in Nat /\ Cardinality(T) \in Nat /\ Cardinality(S) <= Cardinality(T)
  BY <1>1, UptoIs, FS_Subset
<1>3. Len(Feed!Ascending(S)) = Cardinality(S) /\ Len(Feed!Ascending(T)) = Cardinality(T)
  BY <1>1, AscendingIs
<1>4. ASSUME NEW k \in 1..Cardinality(S) PROVE Feed!Ascending(S)[k] = Feed!Ascending(T)[k]
  <2> DEFINE i == Feed!Ascending(S)[k]
  <2>1. i \in S /\ Cardinality(Upto(S, i)) = k
    BY <1>1, AscendingIs
  <2> HIDE DEF i
  <2>2. Upto(S, i) = Upto(T, i)
    <3>1. ASSUME NEW j \in T, j \notin S PROVE ~(j <= i)
      <4>1. i \in Nat /\ j \in Nat /\ i < j
        BY <2>1, <3>1
      <4> QED BY <4>1
    <3> QED BY <3>1 DEF Upto
  <2>3. Feed!Ascending(T)[Cardinality(Upto(T, i))] = i
    BY <2>1, AscendingHasAll
  <2> QED BY <2>1, <2>2, <2>3 DEF i
<1> QED BY <1>2, <1>3, <1>4 DEF Begins
-----------------------------------------------------------------------------
(* What a revision shows. *)

Played(g, r) == Feed!Ascending(Feed!At(g, r, "move"))

\* Begins is a prefix order, and what one more entry makes of it.
LEMMA BeginsWith ==
  ASSUME NEW s \in Seq(Nat), NEW t \in Seq(Nat)
  PROVE  /\ Begins(s, s)
         /\ Begins(s, t) => Feed!IsPrefix(s, t)
         /\ \A u \in Seq(Nat) : Begins(s, t) /\ Begins(t, u) => Begins(s, u)
         /\ \A e \in Nat : Begins(s, Append(s, e))
         /\ Begins(s, t) /\ Len(s) = Len(t) => s = t
         /\ \A e \in Nat : Begins(s, t) /\ Len(t) = Len(s) + 1 /\ t[Len(t)] = e => t = Append(s, e)
<1>1. Len(s) \in Nat /\ Len(t) \in Nat
  OBVIOUS
<1>2. Begins(s, t) => Feed!IsPrefix(s, t)
  BY <1>1 DEF Begins, Feed!IsPrefix
<1>3. ASSUME NEW u \in Seq(Nat), Begins(s, t), Begins(t, u) PROVE Begins(s, u)
  <2>1. Len(u) \in Nat
    OBVIOUS
  <2>2. Len(s) <= Len(t) /\ Len(t) <= Len(u)
    BY <1>3 DEF Begins
  <2>3. ASSUME NEW i \in 1..Len(s) PROVE s[i] = u[i]
    <3>1. i \in 1..Len(t)
      BY <1>1, <2>2
    <3>2. s[i] = t[i] /\ t[i] = u[i]
      BY <1>3, <3>1 DEF Begins
    <3> QED BY <3>2
  <2> QED BY <1>1, <2>1, <2>2, <2>3 DEF Begins
<1>4. ASSUME NEW e \in Nat PROVE Begins(s, Append(s, e))
  <2>1. Len(Append(s, e)) = Len(s) + 1 /\ \A i \in 1..Len(s) : Append(s, e)[i] = s[i]
    OBVIOUS
  <2> QED BY <1>1, <2>1 DEF Begins
<1>5. Begins(s, t) /\ Len(s) = Len(t) => s = t
  BY <1>1, SeqEqual DEF Begins
<1>6. ASSUME NEW e \in Nat, Begins(s, t), Len(t) = Len(s) + 1, t[Len(t)] = e PROVE t = Append(s, e)
  <2>1. Append(s, e) \in Seq(Nat) /\ Len(Append(s, e)) = Len(t)
    BY <1>6
  <2>2. ASSUME NEW i \in 1..Len(t) PROVE t[i] = Append(s, e)[i]
    BY <1>1, <1>6 DEF Begins
  <2> QED BY <2>1, <2>2, SeqEqual
<1> QED BY <1>1, <1>2, <1>3, <1>4, <1>5, <1>6 DEF Begins

\* The revisions of a kind up to r are revisions up to r.
LEMMA AtIs ==
  ASSUME NEW g \in Seq(Feed!Kind), NEW r \in 0..Len(g), NEW kind
  PROVE  Feed!At(g, r, kind) \in SUBSET (1..r) /\ Feed!At(g, r, kind) \in SUBSET (1..Len(g))
BY DEF Feed!At

\* A later revision has seen all that an earlier one has.
LEMMA AtGrows ==
  ASSUME NEW g \in Seq(Feed!Kind), NEW r \in 0..Len(g), NEW q \in 0..Len(g), r <= q, NEW kind
  PROVE  /\ Feed!At(g, r, kind) \in SUBSET Feed!At(g, q, kind)
         /\ \A i \in Feed!At(g, r, kind), k \in Feed!At(g, q, kind) \ Feed!At(g, r, kind) : i < k
BY DEF Feed!At

\* One revision adds itself, to its own kind.
LEMMA AtNext ==
  ASSUME NEW g \in Seq(Feed!Kind), NEW r \in 1..Len(g), NEW kind
  PROVE  Feed!At(g, r, kind) = Feed!At(g, r - 1, kind) \cup (IF g[r] = kind THEN {r} ELSE {})
BY DEF Feed!At

\* A view is a screen, and its moves are the ones played.
LEMMA ViewIs ==
  ASSUME NEW g \in Seq(Feed!Kind), NEW r \in 0..Len(g)
  PROVE  /\ Feed!View(g, r) \in Screens
         /\ Feed!View(g, r).moves = Played(g, r)
         /\ Feed!View(g, r).over <=> Feed!At(g, r, "ended") # {}
         /\ Feed!View(g, r).ready = Feed!At(g, r, "ready")
         /\ Feed!Ply(g, r) \in Nat /\ Len(Played(g, r)) = Feed!Ply(g, r)
<1>0. Len(g) \in Nat
  OBVIOUS
<1>1. Feed!At(g, r, "move") \in SUBSET (1..Len(g)) /\ Feed!At(g, r, "ready") \in SUBSET Nat
  <2>1. Feed!At(g, r, "ready") \in SUBSET (1..Len(g)) /\ 1..Len(g) \subseteq Nat
    BY AtIs
  <2> QED BY <2>1, AtIs
<1>2. /\ Played(g, r) \in Seq(Feed!At(g, r, "move")) /\ Len(Played(g, r)) = Cardinality(Feed!At(g, r, "move"))
      /\ Cardinality(Feed!At(g, r, "move")) \in Nat
  BY <1>0, <1>1, AscendingIs DEF Played
<1>3. Played(g, r) \in Seq(Nat)
  BY <1>1, <1>2
<1>4. Feed!Ply(g, r) \in Nat /\ Len(Played(g, r)) = Feed!Ply(g, r)
  BY <1>2, FeedCounts DEF Feed!Ply
<1> HIDE DEF Played
<1>5. Feed!View(g, r) = [moves |-> Played(g, r), offer |-> Feed!View(g, r).offer,
                         over |-> Feed!At(g, r, "ended") # {}, ready |-> Feed!At(g, r, "ready")]
  BY DEF Feed!View, Played
<1>6. Feed!View(g, r).offer \in BOOLEAN
  BY DEF Feed!View
<1> DEFINE v == Feed!View(g, r)
<1>7. /\ v.moves = Played(g, r) /\ v.over = (Feed!At(g, r, "ended") # {}) /\ v.ready = Feed!At(g, r, "ready")
      /\ v = [moves |-> v.moves, offer |-> v.offer, over |-> v.over, ready |-> v.ready]
  BY <1>5
<1> HIDE DEF v
<1>8. v \in Screens
  BY <1>1, <1>3, <1>6, <1>7 DEF Screens, v
<1> QED BY <1>4, <1>7, <1>8 DEF v

\* A later revision's moves begin with an earlier one's.
LEMMA PlayedGrows ==
  ASSUME NEW g \in Seq(Feed!Kind), NEW r \in 0..Len(g), NEW q \in 0..Len(g), r <= q
  PROVE  Begins(Played(g, r), Played(g, q))
<1> DEFINE S == Feed!At(g, r, "move")
           T == Feed!At(g, q, "move")
<1>1. T \in SUBSET (1..Len(g)) /\ Len(g) \in Nat
  BY AtIs
<1>2. S \in SUBSET T /\ \A i \in S, k \in T \ S : i < k
  BY AtGrows
<1> HIDE DEF S, T
<1>3. Begins(Feed!Ascending(S), Feed!Ascending(T))
  BY <1>1, <1>2, AscendingGrows
<1> QED BY <1>3 DEF S, T, Played

\* One revision plays one move, or none.
LEMMA PlayedNext ==
  ASSUME NEW g \in Seq(Feed!Kind), NEW r \in 1..Len(g)
  PROVE  /\ g[r] = "move" => Played(g, r) = Append(Played(g, r - 1), r) /\ Feed!Ply(g, r) = Feed!Ply(g, r - 1) + 1
         /\ g[r] # "move" => Played(g, r) = Played(g, r - 1) /\ Feed!Ply(g, r) = Feed!Ply(g, r - 1)
<1> DEFINE S == Feed!At(g, r - 1, "move")
           T == Feed!At(g, r, "move")
<1>0. r - 1 \in 0..Len(g) /\ r \in 0..Len(g) /\ r - 1 <= r /\ r \in Nat /\ r - 1 \in Nat /\ Len(g) \in Nat
  OBVIOUS
<1>1. S \in SUBSET (1..(r - 1)) /\ T \in SUBSET (1..Len(g)) /\ T \in SUBSET (1..r)
  BY <1>0, AtIs
<1>2. T = S \cup (IF g[r] = "move" THEN {r} ELSE {})
  BY AtNext
<1>3. Feed!Ply(g, r) = Cardinality(T) /\ Feed!Ply(g, r - 1) = Cardinality(S)
  BY FeedCounts DEF Feed!Ply
<1>4. CASE g[r] # "move"
  <2>1. T = S
    BY <1>2, <1>4
  <2> HIDE DEF S, T
  <2> QED BY <1>3, <1>4, <2>1 DEF Played, S, T
<1>5. CASE g[r] = "move"
  <2>1. T = S \cup {r} /\ r \notin S
    BY <1>1, <1>2, <1>5
  <2>2. IsFiniteSet(S) /\ Cardinality(S) \in Nat
    <3> HIDE DEF S, T
    <3> QED BY <1>0, <1>1, UptoIs
  <2>3. Cardinality(T) = Cardinality(S) + 1
    BY <2>1, <2>2, FS_AddElement
  <2>4. Begins(Played(g, r - 1), Played(g, r))
    BY <1>0, PlayedGrows
  <2>5. /\ Played(g, r - 1) \in Seq(Nat) /\ Played(g, r) \in Seq(Nat)
        /\ Len(Played(g, r - 1)) = Cardinality(S) /\ Len(Played(g, r)) = Cardinality(T)
    BY <1>0, <1>3, ViewIs DEF Screens
  <2>6. r \in T /\ \A j \in T : j <= r
    BY <1>1, <2>1
  <2>7. Cardinality(Upto(T, r)) = Cardinality(T)
    <3> HIDE DEF S, T
    <3> QED BY <1>0, <1>1, <2>6, UptoTheTop
  <2>8. Played(g, r)[Cardinality(T)] = r
    <3>1. Played(g, r) = Feed!Ascending(T)
      BY DEF Played
    <3> HIDE DEF S, T
    <3> QED BY <1>0, <1>1, <2>6, <2>7, <3>1, AscendingHasAll
  <2> HIDE DEF S, T
  <2>9. Played(g, r) = Append(Played(g, r - 1), r)
    BY <1>0, <2>2, <2>3, <2>4, <2>5, <2>8, BeginsWith
  <2> QED BY <1>3, <1>5, <2>3, <2>9
<1> QED BY <1>4, <1>5

\* A later view shows all an earlier one does but its offer.
LEMMA ViewGrows ==
  ASSUME NEW g \in Seq(Feed!Kind), NEW r \in 0..Len(g), NEW q \in 0..Len(g), r <= q
  PROVE  /\ Begins(Feed!View(g, r).moves, Feed!View(g, q).moves)
         /\ Feed!View(g, r).over => Feed!View(g, q).over
         /\ Feed!At(g, r, "ready") \subseteq Feed!At(g, q, "ready")
<1>1. Feed!At(g, r, "ended") \in SUBSET Feed!At(g, q, "ended") /\ Feed!At(g, r, "ready") \in SUBSET Feed!At(g, q, "ready")
  BY AtGrows
<1> QED BY <1>1, ViewIs, PlayedGrows

\* What a move, a seat and an ending add.
LEMMA ViewNext ==
  ASSUME NEW g \in Seq(Feed!Kind), NEW r \in 1..Len(g)
  PROVE  LET v == Feed!View(g, r - 1)
             w == Feed!View(g, r)
         IN /\ g[r] = "move" => w.moves = Append(v.moves, r) /\ ~w.offer /\ (w.over <=> v.over) /\ w.ready = v.ready
            /\ g[r] = "ready" => w.moves = v.moves /\ (w.offer <=> v.offer) /\ (w.over <=> v.over)
            /\ g[r] = "ended" => w.moves = v.moves /\ w.over /\ w.ready = v.ready
<1>0. r - 1 \in 0..Len(g) /\ r \in 0..Len(g)
  OBVIOUS
<1>1. \A k : Feed!At(g, r, k) = Feed!At(g, r - 1, k) \cup (IF g[r] = k THEN {r} ELSE {})
  BY AtNext
<1>2. \A k : g[r] # k => Feed!At(g, r, k) = Feed!At(g, r - 1, k)
  BY <1>1
<1>3. g[r] = "move" => ~Feed!View(g, r).offer
  <2> SUFFICES ASSUME g[r] = "move", NEW i \in Feed!At(g, r, "offer"), \A j \in (i + 1)..r : g[j] \notin {"move", "decline", "ended"}
               PROVE FALSE
    BY DEF Feed!View
  <2>1. i \in 1..r /\ g[i] = "offer"
    BY DEF Feed!At
  <2> QED BY <2>1
<1>4. ASSUME g[r] = "ready" PROVE Feed!View(g, r).offer <=> Feed!View(g, r - 1).offer
  <2>1. Feed!At(g, r, "offer") = Feed!At(g, r - 1, "offer") /\ Feed!At(g, r, "offer") \in SUBSET (1..r)
    BY <1>0, <1>2, <1>4, AtIs
  <2>2. ASSUME NEW i \in Feed!At(g, r, "offer")
        PROVE  (\A j \in (i + 1)..r : g[j] \notin {"move", "decline", "ended"})
                 <=> (\A j \in (i + 1)..(r - 1) : g[j] \notin {"move", "decline", "ended"})
    <3>1. ASSUME NEW j \in (i + 1)..r PROVE j \in (i + 1)..(r - 1) \/ j = r
      BY <2>1
    <3>2. (i + 1)..(r - 1) \subseteq (i + 1)..r
      BY <2>1
    <3> QED BY <1>4, <3>1, <3>2
  <2> QED BY <2>1, <2>2 DEF Feed!View
<1>5. /\ Feed!View(g, r).moves = Played(g, r) /\ Feed!View(g, r - 1).moves = Played(g, r - 1)
      /\ Feed!View(g, r).over <=> Feed!At(g, r, "ended") # {}
      /\ Feed!View(g, r - 1).over <=> Feed!At(g, r - 1, "ended") # {}
      /\ Feed!View(g, r).ready = Feed!At(g, r, "ready") /\ Feed!View(g, r - 1).ready = Feed!At(g, r - 1, "ready")
  BY <1>0, ViewIs
<1>6. g[r] = "ended" => Feed!At(g, r, "ended") # {}
  BY <1>1
<1> QED BY <1>2, <1>3, <1>4, <1>5, <1>6, PlayedNext

\* What is appended changes no earlier revision.
LEMMA ViewStands ==
  ASSUME NEW g \in Seq(Feed!Kind), NEW ks \in Seq(Feed!Kind), NEW r \in 0..Len(g)
  PROVE  /\ \A k : Feed!At(g \o ks, r, k) = Feed!At(g, r, k)
         /\ Feed!View(g \o ks, r) = Feed!View(g, r)
         /\ Feed!Ply(g \o ks, r) = Feed!Ply(g, r)
<1>1. \A i \in 1..r : (g \o ks)[i] = g[i]
  OBVIOUS
<1>2. \A k : Feed!At(g \o ks, r, k) = Feed!At(g, r, k)
  BY <1>1 DEF Feed!At
<1>3. ASSUME NEW i \in Feed!At(g, r, "offer")
      PROVE  (\A j \in (i + 1)..r : (g \o ks)[j] \notin {"move", "decline", "ended"})
               <=> (\A j \in (i + 1)..r : g[j] \notin {"move", "decline", "ended"})
  <2>1. i \in 1..r
    BY DEF Feed!At
  <2>2. (i + 1)..r \subseteq 1..r
    BY <2>1
  <2> QED BY <1>1, <2>2
<1> QED BY <1>2, <1>3 DEF Feed!View, Feed!Ply

\* A view with an ending is the view of the whole log.
LEMMA TheEndIsLast ==
  ASSUME NEW g, Story(g), NEW r \in 0..Len(g), Feed!View(g, r).over
  PROVE  r = Len(g)
<1>1. Feed!At(g, r, "ended") # {}
  BY ViewIs DEF Story
<1>2. PICK i \in 1..r : g[i] = "ended"
  BY <1>1 DEF Feed!At
<1> QED BY <1>2 DEF Story
-----------------------------------------------------------------------------
(* What a frame does to a client. *)

\* A client never goes back.
Onward(c, d) ==
  /\ Begins(c.screen.moves, d.screen.moves)
  /\ c.screen.over => d.screen.over
  /\ c.screen.ready \subseteq d.screen.ready
  /\ c.floor <= d.floor /\ Reach(c) <= Reach(d)

\* The same game on the screen, and the same socket, on which at most a resume was sent.
SameGame(c, d) == d.screen = c.screen /\ d.floor = c.floor /\ d.debtRev = c.debtRev /\ d.debtPly = c.debtPly
SameSocket(c, d) ==
  /\ d.open = c.open /\ d.connected = c.connected /\ d.awaiting = c.awaiting /\ d.retry = c.retry
  /\ d.up = c.up \/ (c.connected /\ d.up = Append(c.up, "resume"))

\* Reach is the floor or the revision owed, whichever is larger.
LEMMA ReachIs == ASSUME NEW c \in Clients PROVE Reach(c) \in Nat /\ c.floor <= Reach(c) /\ c.debtRev <= Reach(c)
                                              /\ (Reach(c) = c.floor \/ Reach(c) = c.debtRev)
BY DEF Reach, Feed!Larger, Clients

\* A client that shows the same game, and owes the same, is as sound.
LEMMA SameGameKeeps ==
  ASSUME NEW c \in Clients, NEW d \in Clients, NEW g, SameGame(c, d)
  PROVE  /\ Sound(c, g) => Sound(d, g)
         /\ Onward(c, d) /\ Reach(d) = Reach(c) /\ (Feed!InDebt(d) <=> Feed!InDebt(c))
<1>1. Reach(d) = Reach(c) /\ (Feed!InDebt(d) <=> Feed!InDebt(c))
  BY DEF SameGame, Reach, Feed!InDebt
<1>2. Shows(c, g) => Shows(d, g)
  BY DEF SameGame, Shows
<1>3. Sound(c, g) => Sound(d, g)
  BY <1>1, <1>2 DEF Sound, SameGame
<1>4. c.screen.moves \in Seq(Nat) /\ c.floor \in Nat /\ Reach(c) \in Nat
  BY ReachIs DEF Clients, Screens
<1>5. Onward(c, d)
  BY <1>1, <1>4, BeginsWith DEF Onward, SameGame
<1> QED BY <1>1, <1>3, <1>5

\* Dispatch asks for a resume and leaves the game alone.
LEMMA DispatchIs ==
  ASSUME NEW c \in Clients
  PROVE  LET d == Feed!Dispatch(c)
         IN /\ d \in Clients /\ SameGame(c, d) /\ SameSocket(c, d)
            /\ c.connected /\ c.open => d.timer # "none" \/ d.out
            /\ ~(c.connected /\ c.open) => d = c
<1>1. CASE ~c.connected \/ ~c.open
  <2>1. Feed!Dispatch(c) = c
    BY <1>1 DEF Feed!Dispatch
  <2> QED BY <1>1, <2>1 DEF SameGame, SameSocket
<1>2. CASE c.connected /\ c.open /\ Feed!Exhausted(c)
  <2>1. Feed!Dispatch(c) = [c EXCEPT !.timer = "none", !.out = TRUE]
    BY <1>2 DEF Feed!Dispatch
  <2> QED BY <1>2, <2>1 DEF SameGame, SameSocket, Clients, Timers
<1>3. CASE c.connected /\ c.open /\ ~Feed!Exhausted(c)
  <2>1. Feed!Dispatch(c) = [c EXCEPT !.out = FALSE, !.attempts = @ + 1, !.timer = "timeout", !.up = Append(c.up, "resume")]
    BY <1>3 DEF Feed!Dispatch, Feed!Send, Clients
  <2>2. Append(c.up, "resume") \in Seq({"join", "resume"})
    BY DEF Clients
  <2>3. c.attempts + 1 \in Nat
    BY DEF Clients
  <2>4. Feed!Dispatch(c) \in Clients
    BY <2>1, <2>2, <2>3 DEF Clients, Timers
  <2>5. SameGame(c, Feed!Dispatch(c)) /\ SameSocket(c, Feed!Dispatch(c)) /\ Feed!Dispatch(c).timer = "timeout"
    BY <1>3, <2>1 DEF SameGame, SameSocket, Clients
  <2> QED BY <1>3, <2>4, <2>5
<1> QED BY <1>1, <1>2, <1>3

\* Trigger asks for a resume unless one is asked for already.
LEMMA TriggerIs ==
  ASSUME NEW c \in Clients
  PROVE  LET d == Feed!Trigger(c)
         IN /\ d \in Clients /\ SameGame(c, d) /\ SameSocket(c, d)
            /\ c.open => Alert(d)
<1> DEFINE d == Feed!Trigger(c)
<1>1. CASE Feed!InDebt(c) /\ c.timer = "none"
  <2>1. d = Feed!Dispatch(c)
    BY <1>1 DEF Feed!Trigger
  <2> HIDE DEF d
  <2> QED BY <2>1, DispatchIs DEF Alert, SameSocket, d
<1>2. CASE ~(Feed!InDebt(c) /\ c.timer = "none")
  <2>1. d = c
    BY <1>2 DEF Feed!Trigger
  <2> HIDE DEF d
  <2> QED BY <1>2, <2>1 DEF Alert, SameGame, SameSocket, d
<1> QED BY <1>1, <1>2

\* Owing raises what is owed to rev and leaves the screen alone.
LEMMA OwingIs ==
  ASSUME NEW c \in Clients, NEW rev \in Nat, NEW ply \in Nat
  PROVE  LET d == Feed!Owing(c, rev, ply)
         IN /\ d \in Clients /\ d.screen = c.screen /\ d.floor = c.floor /\ SameSocket(c, d)
            /\ d.debtRev = Feed!Larger(c.debtRev, rev) /\ d.timer = c.timer /\ d.out = c.out
            /\ rev > 0 => Feed!InDebt(d)
            /\ rev <= Reach(d) /\ Reach(c) <= Reach(d) /\ (Reach(d) = Reach(c) \/ Reach(d) = rev)
<1> DEFINE r == IF rev > c.debtRev THEN rev ELSE c.debtRev
           p == IF ply > c.debtPly THEN ply ELSE c.debtPly
           d == Feed!Owing(c, rev, ply)
<1>1. d = [c EXCEPT !.debtRev = r, !.debtPly = p]
  BY DEF Feed!Owing, Clients
<1>2. r \in Nat /\ p \in Nat /\ r = Feed!Larger(c.debtRev, rev) /\ (rev > 0 => r # 0)
  BY DEF Feed!Larger, Clients
<1> HIDE DEF r, p, d
<1>3. d \in Clients /\ d.screen = c.screen /\ d.floor = c.floor /\ SameSocket(c, d) /\ d.debtRev = r
      /\ d.timer = c.timer /\ d.out = c.out
  BY <1>1, <1>2 DEF Clients, SameSocket
<1>4. rev <= Reach(d) /\ Reach(c) <= Reach(d) /\ (Reach(d) = Reach(c) \/ Reach(d) = rev)
  BY <1>2, <1>3 DEF Reach, Feed!Larger, Clients
<1> QED BY <1>2, <1>3, <1>4 DEF d, Feed!InDebt

\* A snapshot that is shown makes the screen the game of its revision.
LEMMA ShownIsSound ==
  ASSUME NEW g, Story(g), NEW c \in Clients, Sound(c, g), NEW d \in Clients, NEW rev \in 1..Len(g),
         d.floor = rev, c.floor <= rev, d.screen = Feed!Shown(c, g, rev),
         Reach(c) <= Reach(d), Reach(d) <= Len(g), c.screen.over => Feed!View(g, rev).over
  PROVE  Sound(d, g) /\ Onward(c, d)
<1> DEFINE v == Feed!View(g, rev)
<1>0. g \in Seq(Feed!Kind) /\ Len(g) \in Nat /\ rev \in 0..Len(g) /\ c.floor \in 0..Len(g) /\ Reach(c) \in 0..Len(g) /\ Reach(d) \in 0..Len(g)
  BY ReachIs DEF Story, Clients, Sound
<1>1. v \in Screens /\ v.ready = Feed!At(g, rev, "ready")
  BY <1>0, ViewIs
<1>2. /\ d.screen.moves = v.moves /\ d.screen.offer = v.offer /\ d.screen.over = v.over
      /\ d.screen.ready = v.ready \cup c.screen.ready
  <2> HIDE DEF v
  <2>1. d.screen = [v EXCEPT !.ready = @ \cup c.screen.ready]
    BY DEF Feed!Shown, v
  <2> QED BY <1>1, <2>1 DEF Screens
<1>3. Feed!At(g, Reach(c), "ready") \subseteq Feed!At(g, Reach(d), "ready")
  BY <1>0, ViewGrows
<1>4. rev <= Reach(d)
  BY ReachIs
<1>5. Feed!At(g, rev, "ready") \subseteq Feed!At(g, Reach(d), "ready")
  BY <1>0, <1>4, ViewGrows
<1>6. d.screen.ready \subseteq Feed!At(g, Reach(d), "ready")
  BY <1>1, <1>2, <1>3, <1>5 DEF Sound
<1>7. ASSUME ~Feed!InDebt(d) PROVE Shows(d, g)
  <2>1. Reach(d) = rev
    BY <1>7 DEF Feed!InDebt, Reach, Feed!Larger, Clients
  <2> QED BY <1>1, <1>2, <1>6, <2>1 DEF Shows
<1>8. Begins(Feed!View(g, c.floor).moves, v.moves)
  BY <1>0, ViewGrows
<1>9. Begins(c.screen.moves, d.screen.moves) /\ Begins(d.screen.moves, v.moves)
  <2>1. Feed!View(g, c.floor).moves \in Seq(Nat) /\ v.moves \in Seq(Nat) /\ c.screen.moves \in Seq(Nat)
    BY <1>0, ViewIs DEF Screens, Clients
  <2> QED BY <1>2, <1>8, <2>1, BeginsWith DEF Sound
<1> QED BY <1>0, <1>2, <1>6, <1>7, <1>9 DEF Sound, Onward

\* What is shown of a revision is a screen.
LEMMA ShownIsAScreen ==
  ASSUME NEW g, Story(g), NEW c \in Clients, NEW rev \in 1..Len(g)
  PROVE  Feed!Shown(c, g, rev) \in Screens
<1>1. Feed!View(g, rev) \in Screens
  BY ViewIs DEF Story
<1>2. c.screen.ready \in SUBSET Nat
  BY DEF Clients, Screens
<1> QED BY <1>1, <1>2 DEF Feed!Shown, Screens

\* What snapshots leave of a debt.
LEMMA AcceptedIs ==
  ASSUME NEW g, Story(g), NEW c \in Clients, NEW rev \in 1..Len(g)
  PROVE  LET d == Feed!Accepted(c, g, rev)
         IN /\ d \in Clients /\ d.screen = c.screen /\ d.floor = c.floor /\ SameSocket(c, d) /\ d.up = c.up
            /\ \/ d = c
               \/ Feed!InDebt(c) /\ ~Feed!InDebt(d) /\ c.debtRev <= rev
            /\ d.debtRev = c.debtRev \/ (d.debtRev = 0 /\ c.debtRev <= rev)
<1>1. CASE Feed!InDebt(c) /\ Feed!Sufficient(c, g, rev)
  <2>1. Feed!Accepted(c, g, rev) = [c EXCEPT !.debtRev = 0, !.debtPly = 0, !.attempts = 0, !.timer = "none", !.out = FALSE]
    BY <1>1 DEF Feed!Accepted
  <2>2. c.debtRev <= rev
    BY <1>1 DEF Feed!Sufficient, Clients
  <2>3. Feed!Accepted(c, g, rev) \in Clients
    <3>1. [c EXCEPT !.debtRev = 0, !.debtPly = 0, !.attempts = 0] \in Clients
      BY DEF Clients
    <3>2. ASSUME NEW b \in Clients PROVE [b EXCEPT !.timer = "none", !.out = FALSE] \in Clients
      BY DEF Clients, Timers
    <3>3. Feed!Accepted(c, g, rev) =
            [[c EXCEPT !.debtRev = 0, !.debtPly = 0, !.attempts = 0] EXCEPT !.timer = "none", !.out = FALSE]
      BY <2>1
    <3> QED BY <3>1, <3>2, <3>3
  <2>4. LET d == Feed!Accepted(c, g, rev)
        IN /\ d.screen = c.screen /\ d.floor = c.floor /\ SameSocket(c, d) /\ d.up = c.up
           /\ d.debtRev = 0 /\ d.debtPly = 0
    BY <2>1 DEF SameSocket, Clients
  <2> QED BY <1>1, <2>2, <2>3, <2>4 DEF Feed!InDebt
<1>2. CASE ~(Feed!InDebt(c) /\ Feed!Sufficient(c, g, rev))
  <2>1. Feed!Accepted(c, g, rev) = c
    BY <1>2 DEF Feed!Accepted
  <2> QED BY <2>1 DEF SameSocket
<1> QED BY <1>1, <1>2

\* What every frame does, when the socket is open.
Carries(c, d, g) == d \in Clients /\ Sound(d, g) /\ Onward(c, d) /\ d.open = c.open
Keeps(c, d, g) == Carries(c, d, g) /\ (c.open /\ Alert(c) => Alert(d))

\* A newer snapshot is not behind the floor, and takes no ending back.
LEMMA Newer ==
  ASSUME NEW g, Story(g), NEW c \in Clients, Sound(c, g), NEW rev \in 1..Len(g)
  PROVE  /\ Feed!Freshness(c, g, rev) = "newer" => c.floor <= rev /\ (c.screen.over => Feed!View(g, rev).over)
         /\ Feed!Freshness(c, g, rev) = "equal" => c.floor = rev /\ (c.screen.over => Feed!View(g, rev).over)
         /\ Feed!Freshness(c, g, rev) \notin {"newer", "equal"} => rev <= c.floor
<1>1. c.floor \in Nat /\ rev \in Nat /\ c.floor <= Len(g) /\ Len(g) \in Nat
  BY ReachIs DEF Clients, Sound, Story
<1>2. CASE c.screen.over /\ ~Feed!View(g, rev).over
  <2>1. c.floor = Len(g)
    BY <1>1, <1>2, TheEndIsLast DEF Sound
  <2> QED BY <1>1, <1>2, <2>1 DEF Feed!Freshness
<1>3. CASE ~(c.screen.over /\ ~Feed!View(g, rev).over)
  BY <1>1, <1>3 DEF Feed!Freshness
<1> QED BY <1>2, <1>3

\* Applying a newer snapshot keeps the client sound.
LEMMA ApplyKeeps ==
  ASSUME NEW g, Story(g), NEW c \in Clients, Sound(c, g), NEW rev \in 1..Len(g), Feed!Freshness(c, g, rev) = "newer"
  PROVE  LET d == Feed!Apply(c, g, rev)
         IN /\ Carries(c, d, g) /\ (c.connected /\ Alert(c) => Alert(d))
            /\ (Feed!InDebt(d) => Feed!InDebt(c))
            /\ d.floor = rev /\ d.connected = TRUE /\ d.awaiting = c.awaiting /\ d.up = c.up
<1> DEFINE b == [c EXCEPT !.floor = rev, !.screen = Feed!Shown(c, g, rev), !.connected = TRUE, !.out = Feed!Offered(c)]
           d == Feed!Accepted(b, g, rev)
<1>0. d = Feed!Apply(c, g, rev)
  BY DEF Feed!Apply
<1>1. Feed!Offered(c) \in BOOLEAN /\ rev \in Nat /\ Feed!Shown(c, g, rev) \in Screens
  BY ShownIsAScreen DEF Feed!Offered, Feed!InDebt, Feed!Exhausted, Clients
<1>2. /\ b \in Clients /\ b.floor = rev /\ b.screen = Feed!Shown(c, g, rev) /\ b.connected = TRUE /\ b.out = Feed!Offered(c)
      /\ b.timer = c.timer /\ b.debtRev = c.debtRev /\ b.debtPly = c.debtPly /\ b.open = c.open
      /\ b.awaiting = c.awaiting /\ b.up = c.up
  BY <1>1 DEF Clients
<1> HIDE DEF b
<1>3. /\ d \in Clients /\ d.screen = b.screen /\ d.floor = rev /\ SameSocket(b, d) /\ d.up = b.up
      /\ d = b \/ (Feed!InDebt(b) /\ ~Feed!InDebt(d) /\ b.debtRev <= rev)
      /\ d.debtRev = b.debtRev \/ (d.debtRev = 0 /\ b.debtRev <= rev)
  BY <1>2, AcceptedIs
<1> HIDE DEF d
<1>4. c.floor <= rev /\ (c.screen.over => Feed!View(g, rev).over)
  BY Newer
<1>5. Reach(c) <= Reach(d) /\ Reach(d) <= Len(g)
  BY <1>2, <1>3, <1>4 DEF Reach, Feed!Larger, Clients, Sound, Story
<1>6. Sound(d, g) /\ Onward(c, d)
  BY <1>2, <1>3, <1>4, <1>5, ShownIsSound
<1>7. ASSUME c.connected, Alert(c) PROVE Alert(d)
  <2>1. CASE d = b
    BY <1>2, <1>7, <2>1 DEF Alert, Feed!InDebt, Feed!Offered
  <2>2. CASE ~Feed!InDebt(d)
    BY <2>2 DEF Alert
  <2> QED BY <1>3, <2>1, <2>2
<1>8. d.open = c.open /\ d.connected = TRUE /\ d.awaiting = c.awaiting /\ d.up = c.up
      /\ (Feed!InDebt(d) => Feed!InDebt(c))
  BY <1>2, <1>3 DEF SameSocket, Feed!InDebt
<1> QED BY <1>0, <1>3, <1>6, <1>7, <1>8 DEF Carries

\* Reconciling with a snapshot of the revision shown keeps it sound.
LEMMA ReconcileKeeps ==
  ASSUME NEW g, Story(g), NEW c \in Clients, Sound(c, g), NEW rev \in 1..Len(g), Feed!Freshness(c, g, rev) = "equal"
  PROVE  LET d == Feed!Reconcile(c, g, rev)
         IN /\ Keeps(c, d, g) /\ (Feed!InDebt(d) => Feed!InDebt(c))
            /\ d.floor = rev /\ d.connected = c.connected /\ d.awaiting = c.awaiting /\ d.up = c.up
<1> DEFINE b == [c EXCEPT !.screen = Feed!Shown(c, g, rev)]
           d == Feed!Accepted(b, g, rev)
<1>0. d = Feed!Reconcile(c, g, rev)
  BY DEF Feed!Reconcile
<1>1. Feed!Shown(c, g, rev) \in Screens
  BY ShownIsAScreen
<1>2. /\ b \in Clients /\ b.floor = c.floor /\ b.screen = Feed!Shown(c, g, rev) /\ b.connected = c.connected
      /\ b.out = c.out /\ b.timer = c.timer /\ b.debtRev = c.debtRev /\ b.debtPly = c.debtPly /\ b.open = c.open
      /\ b.awaiting = c.awaiting /\ b.up = c.up
  BY <1>1 DEF Clients
<1> HIDE DEF b
<1>3. /\ d \in Clients /\ d.screen = b.screen /\ d.floor = b.floor /\ SameSocket(b, d) /\ d.up = b.up
      /\ d = b \/ (Feed!InDebt(b) /\ ~Feed!InDebt(d) /\ b.debtRev <= rev)
      /\ d.debtRev = b.debtRev \/ (d.debtRev = 0 /\ b.debtRev <= rev)
  BY <1>2, AcceptedIs
<1> HIDE DEF d
<1>4. c.floor = rev /\ (c.screen.over => Feed!View(g, rev).over)
  BY Newer
<1>5. Reach(c) <= Reach(d) /\ Reach(d) <= Len(g)
  BY <1>2, <1>3, <1>4 DEF Reach, Feed!Larger, Clients, Sound, Story
<1>6. Sound(d, g) /\ Onward(c, d)
  BY <1>2, <1>3, <1>4, <1>5, ShownIsSound
<1>7. ASSUME Alert(c) PROVE Alert(d)
  <2>1. CASE d = b
    BY <1>2, <1>7, <2>1 DEF Alert, Feed!InDebt
  <2>2. CASE ~Feed!InDebt(d)
    BY <2>2 DEF Alert
  <2> QED BY <1>3, <2>1, <2>2
<1>8. d.open = c.open /\ d.connected = c.connected /\ d.awaiting = c.awaiting /\ d.up = c.up
      /\ (Feed!InDebt(d) => Feed!InDebt(c))
  BY <1>2, <1>3 DEF SameSocket, Feed!InDebt
<1> QED BY <1>0, <1>2, <1>3, <1>4, <1>6, <1>7, <1>8 DEF Keeps, Carries

\* A client that does nothing keeps what it shows.
LEMMA KeepsItself ==
  ASSUME NEW g, NEW c \in Clients, Sound(c, g)
  PROVE  Keeps(c, c, g)
BY SameGameKeeps DEF Keeps, Carries, SameGame

\* The facts of the steps of a handler add up.
LEMMA OnwardTwice ==
  ASSUME NEW b \in Clients, NEW c \in Clients, NEW d \in Clients, Onward(b, c), Onward(c, d)
  PROVE  Onward(b, d)
<1>1. /\ b.screen.moves \in Seq(Nat) /\ c.screen.moves \in Seq(Nat) /\ d.screen.moves \in Seq(Nat)
      /\ b.floor \in Nat /\ c.floor \in Nat /\ d.floor \in Nat
  BY DEF Clients, Screens
<1>2. Reach(b) \in Nat /\ Reach(c) \in Nat /\ Reach(d) \in Nat
  BY ReachIs
<1>3. Begins(b.screen.moves, d.screen.moves)
  BY <1>1, BeginsWith DEF Onward
<1> QED BY <1>1, <1>2, <1>3 DEF Onward

\* What a frame of a revision leaves: that revision is reached.
Hears(c, d, g, rev) ==
  /\ Keeps(c, d, g) /\ rev <= Reach(d)
  /\ d.connected = c.connected /\ d.awaiting = c.awaiting
  /\ d.up = c.up \/ (c.connected /\ d.up = Append(c.up, "resume"))

\* A snapshot, whatever its age, keeps a client sound (GameSync.applySnapshot).
LEMMA OnSnapshotKeeps ==
  ASSUME NEW g, Story(g), NEW c \in Clients, Sound(c, g), NEW rev \in 1..Len(g), c.connected
  PROVE  Hears(c, Feed!OnSnapshot(c, g, rev), g, rev)
<1> DEFINE d == Feed!OnSnapshot(c, g, rev)
<1>1. CASE Feed!Freshness(c, g, rev) = "newer"
  <2>1. d = Feed!Apply(c, g, rev)
    BY <1>1 DEF Feed!OnSnapshot
  <2>2. c.connected = TRUE
    BY DEF Clients
  <2> HIDE DEF d
  <2>3. Keeps(c, d, g) /\ d.floor = rev /\ d.connected = c.connected /\ d.awaiting = c.awaiting /\ d.up = c.up
    BY <1>1, <2>1, <2>2, ApplyKeeps DEF Keeps
  <2>4. rev <= Reach(d)
    BY <2>3, ReachIs DEF Keeps, Carries
  <2> QED BY <2>3, <2>4 DEF Hears, d
<1>2. CASE Feed!Freshness(c, g, rev) = "equal"
  <2>1. d = Feed!Reconcile(c, g, rev)
    BY <1>2 DEF Feed!OnSnapshot
  <2> HIDE DEF d
  <2>2. Keeps(c, d, g) /\ d.floor = rev /\ d.connected = c.connected /\ d.awaiting = c.awaiting /\ d.up = c.up
    BY <1>2, <2>1, ReconcileKeeps
  <2>3. rev <= Reach(d)
    BY <2>2, ReachIs DEF Keeps, Carries
  <2> QED BY <2>2, <2>3 DEF Hears, d
<1>3. CASE Feed!Freshness(c, g, rev) \notin {"newer", "equal"}
  <2>1. d = c
    BY <1>3 DEF Feed!OnSnapshot
  <2> HIDE DEF d
  <2>2. rev <= c.floor /\ c.floor \in Nat
    BY <1>3, Newer DEF Clients
  <2>3. rev <= Reach(c)
    BY <2>2, ReachIs
  <2>4. Keeps(c, d, g)
    BY <2>1, KeepsItself
  <2> QED BY <2>1, <2>3, <2>4 DEF Hears, d
<1> QED BY <1>1, <1>2, <1>3

\* A client that owes a revision is sound with what it has shown so far.
LEMMA OwingIsSound ==
  ASSUME NEW g, Story(g), NEW c \in Clients, NEW rev \in 1..Len(g), NEW ply \in Nat,
         Reach(c) <= Len(g), Begins(c.screen.moves, Feed!View(g, c.floor).moves),
         c.screen.over => Feed!View(g, c.floor).over,
         c.screen.ready \subseteq Feed!At(g, Reach(c), "ready") \cup Feed!At(g, rev, "ready")
  PROVE  LET d == Feed!Owing(c, rev, ply)
         IN /\ d \in Clients /\ Sound(d, g) /\ Feed!InDebt(d) /\ rev <= Reach(d)
            /\ d.screen = c.screen /\ d.floor = c.floor /\ Reach(c) <= Reach(d) /\ SameSocket(c, d)
<1> DEFINE d == Feed!Owing(c, rev, ply)
<1>1. rev \in Nat /\ rev > 0 /\ Len(g) \in Nat
  BY DEF Story
<1>2. /\ d \in Clients /\ d.screen = c.screen /\ d.floor = c.floor /\ SameSocket(c, d)
      /\ Feed!InDebt(d) /\ rev <= Reach(d) /\ Reach(c) <= Reach(d) /\ (Reach(d) = Reach(c) \/ Reach(d) = rev)
  BY <1>1, OwingIs
<1> HIDE DEF d
<1>3. Reach(d) \in 0..Len(g) /\ Reach(c) \in 0..Len(g) /\ rev \in 0..Len(g) /\ g \in Seq(Feed!Kind)
  BY <1>1, <1>2, ReachIs DEF Story
<1>4. /\ Feed!At(g, Reach(c), "ready") \subseteq Feed!At(g, Reach(d), "ready")
      /\ Feed!At(g, rev, "ready") \subseteq Feed!At(g, Reach(d), "ready")
  BY <1>2, <1>3, ViewGrows
<1>5. Sound(d, g)
  BY <1>2, <1>3, <1>4 DEF Sound
<1> QED BY <1>2, <1>5 DEF d

\* A gap that was seen starts its repair.
LEMMA TriggerKeeps ==
  ASSUME NEW g, NEW c \in Clients, NEW b \in Clients, NEW rev \in Nat,
         Sound(b, g), Onward(c, b), b.open = c.open, b.connected = c.connected, b.awaiting = c.awaiting, b.up = c.up,
         rev <= Reach(b)
  PROVE  Hears(c, Feed!Trigger(b), g, rev)
<1> DEFINE d == Feed!Trigger(b)
<1>1. d \in Clients /\ SameGame(b, d) /\ SameSocket(b, d) /\ (b.open => Alert(d))
  BY TriggerIs
<1> HIDE DEF d
<1>2. Sound(d, g) /\ Onward(b, d) /\ Reach(d) = Reach(b)
  BY <1>1, SameGameKeeps
<1>3. Onward(c, d)
  BY <1>1, <1>2, OnwardTwice
<1> QED BY <1>1, <1>2, <1>3 DEF Hears, Keeps, Carries, SameSocket, d

\* A move, next or beyond a gap or late, keeps a client sound.
LEMMA OnMoveKeeps ==
  ASSUME NEW g, Story(g), NEW c \in Clients, Sound(c, g), NEW rev \in 1..Len(g), g[rev] = "move", c.connected
  PROVE  Hears(c, Feed!OnMove(c, g, rev), g, rev)
<1>0. /\ g \in Seq(Feed!Kind) /\ Len(g) \in Nat /\ rev \in Nat /\ rev \in 0..Len(g)
      /\ c.floor \in Nat /\ c.floor \in 0..Len(g) /\ Reach(c) \in 0..Len(g) /\ c.floor <= Reach(c)
  BY ReachIs DEF Story, Sound, Clients
<1>1. CASE rev <= c.floor \/ c.screen.over
  <2>1. Feed!OnMove(c, g, rev) = c
    BY <1>1 DEF Feed!OnMove
  <2>2. c.screen.over => c.floor = Len(g)
    BY <1>0, TheEndIsLast DEF Sound
  <2>3. rev <= Reach(c)
    BY <1>0, <1>1, <2>2
  <2> QED BY <2>1, <2>3, KeepsItself DEF Hears
<1>2. CASE ~(rev <= c.floor \/ c.screen.over) /\ Feed!Follows(c, g, rev)
  <2> DEFINE d == [c EXCEPT !.floor = rev, !.screen.moves = Append(c.screen.moves, rev), !.screen.offer = FALSE]
             v == Feed!View(g, rev - 1)
             w == Feed!View(g, rev)
  <2>1. Feed!OnMove(c, g, rev) = d
    BY <1>2 DEF Feed!OnMove, Clients, Screens
  <2>2. rev = c.floor + 1 /\ rev - 1 = c.floor /\ Feed!Ply(g, rev) = Len(c.screen.moves) + 1
    BY <1>0, <1>2 DEF Feed!Follows
  <2>3. /\ c.screen.moves \in Seq(Nat) /\ Append(c.screen.moves, rev) \in Seq(Nat) /\ v.moves \in Seq(Nat)
        /\ w.moves \in Seq(Nat)
    BY <1>0, <2>2, ViewIs DEF Clients, Screens
  <2>4. /\ d \in Clients /\ d.floor = rev /\ d.open = c.open /\ d.connected = c.connected /\ d.awaiting = c.awaiting
        /\ d.up = c.up /\ d.debtRev = c.debtRev /\ d.debtPly = c.debtPly /\ d.timer = c.timer /\ d.out = c.out
    BY <1>0, <2>3 DEF Clients, Screens
  <2>5. /\ d.screen.moves = Append(c.screen.moves, rev) /\ d.screen.offer = FALSE
        /\ d.screen.over = c.screen.over /\ d.screen.ready = c.screen.ready
    BY DEF Clients, Screens
  <2> HIDE DEF d
  <2>6. Reach(c) <= Reach(d) /\ Reach(d) <= Len(g) /\ rev <= Reach(d) /\ Reach(d) \in 0..Len(g)
    <3>1. Reach(c) = c.floor \/ Reach(c) = d.debtRev
      BY <2>4, ReachIs
    <3>2. Reach(d) \in Nat /\ d.floor <= Reach(d) /\ d.debtRev <= Reach(d) /\ (Reach(d) = d.floor \/ Reach(d) = c.debtRev)
      BY <2>4, ReachIs
    <3>3. d.floor = rev /\ c.debtRev <= Reach(c)
      BY <2>4, ReachIs
    <3> QED BY <1>0, <2>2, <3>1, <3>2, <3>3
  <2>7. /\ w.moves = Append(v.moves, rev) /\ ~w.offer /\ (w.over <=> v.over) /\ w.ready = v.ready
        /\ Feed!Ply(g, rev) = Feed!Ply(g, rev - 1) + 1
    BY ViewNext, PlayedNext DEF Story
  <2>8. Len(v.moves) = Len(c.screen.moves)
    <3>1. rev - 1 \in 0..Len(g)
      BY <1>0, <2>2
    <3>2. v.moves = Played(g, rev - 1) /\ Len(Played(g, rev - 1)) = Feed!Ply(g, rev - 1) /\ Feed!Ply(g, rev - 1) \in Nat
      <4>1. g \in Seq(Feed!Kind)
        BY <1>0
      <4> QED BY <3>1, <4>1, ViewIs
    <3> HIDE DEF v, w
    <3>3. Len(c.screen.moves) \in Nat
      BY <2>3
    <3> QED BY <2>2, <2>7, <3>2, <3>3
  <2>9. v.moves = c.screen.moves
    BY <2>2, <2>3, <2>8, BeginsWith DEF Sound
  <2>10. d.screen.moves = w.moves /\ Begins(d.screen.moves, w.moves) /\ Begins(c.screen.moves, d.screen.moves)
    <3> HIDE DEF v, w
    <3>1. d.screen.moves = w.moves /\ w.moves = Append(c.screen.moves, rev)
      BY <2>5, <2>7, <2>9
    <3>2. Begins(w.moves, w.moves)
      BY <2>3, BeginsWith
    <3>3. Begins(c.screen.moves, Append(c.screen.moves, rev))
      BY <1>0, <2>3, BeginsWith
    <3> QED BY <3>1, <3>2, <3>3
  <2>11. d.screen.ready \subseteq Feed!At(g, Reach(d), "ready")
    <3>1. Feed!At(g, Reach(c), "ready") \subseteq Feed!At(g, Reach(d), "ready")
      BY <1>0, <2>6, ViewGrows
    <3> QED BY <2>5, <3>1 DEF Sound
  <2>12. ASSUME ~Feed!InDebt(d) PROVE Shows(d, g)
    <3>1. Shows(c, g)
      BY <2>4, <2>12 DEF Sound, Feed!InDebt
    <3>2. w.over \in BOOLEAN /\ v.over \in BOOLEAN /\ w.offer \in BOOLEAN
      BY <1>0, <2>2, ViewIs DEF Screens
    <3> HIDE DEF v, w
    <3>3. c.screen.over = v.over /\ c.screen.ready = v.ready
      BY <2>2, <3>1 DEF Shows, v
    <3>4. d.screen.moves = w.moves /\ d.screen.over = w.over /\ d.screen.ready = w.ready /\ d.screen.offer = w.offer
      BY <2>5, <2>7, <2>10, <3>2, <3>3
    <3> QED BY <2>4, <3>4 DEF Shows, w
  <2>13. Sound(d, g)
    BY <1>2, <2>4, <2>5, <2>6, <2>10, <2>11, <2>12 DEF Sound
  <2>14. Onward(c, d)
    BY <1>0, <2>2, <2>4, <2>5, <2>6, <2>10 DEF Onward
  <2>15. Alert(c) => Alert(d)
    BY <2>4 DEF Alert, Feed!InDebt
  <2> QED BY <2>1, <2>4, <2>6, <2>13, <2>14, <2>15 DEF Hears, Keeps, Carries
<1>3. CASE ~(rev <= c.floor \/ c.screen.over) /\ ~Feed!Follows(c, g, rev)
  <2> DEFINE b == Feed!Owing(c, rev, Feed!Ply(g, rev))
  <2>1. Feed!OnMove(c, g, rev) = Feed!Trigger(b)
    BY <1>3 DEF Feed!OnMove
  <2>2. Feed!Ply(g, rev) \in Nat
    BY <1>0, ViewIs
  <2>3. /\ b \in Clients /\ Sound(b, g) /\ rev <= Reach(b) /\ b.screen = c.screen /\ b.floor = c.floor
        /\ Reach(c) <= Reach(b) /\ SameSocket(c, b) /\ b.up = c.up
    <3>1. b.up = c.up
      BY DEF Feed!Owing, Clients
    <3> QED BY <2>2, <3>1, OwingIsSound DEF Sound
  <2> HIDE DEF b
  <2>4. Onward(c, b)
    BY <1>0, <2>3, BeginsWith DEF Onward, Clients, Screens
  <2> QED BY <1>0, <2>1, <2>3, <2>4, TriggerKeeps DEF SameSocket
<1> QED BY <1>1, <1>2, <1>3

\* A readiness, next or beyond a gap or late, keeps a client sound.
LEMMA OnReadyKeeps ==
  ASSUME NEW g, Story(g), NEW c \in Clients, Sound(c, g), NEW rev \in 1..Len(g), g[rev] = "ready", c.connected
  PROVE  Hears(c, Feed!OnReady(c, g, rev), g, rev)
<1> DEFINE b == [c EXCEPT !.screen.ready = c.screen.ready \cup Feed!At(g, rev, "ready")]
           w == Feed!View(g, rev)
           v == Feed!View(g, c.floor)
<1>0. /\ g \in Seq(Feed!Kind) /\ Len(g) \in Nat /\ rev \in Nat /\ rev \in 0..Len(g)
      /\ c.floor \in Nat /\ c.floor \in 0..Len(g) /\ Reach(c) \in 0..Len(g) /\ c.floor <= Reach(c)
  BY ReachIs DEF Story, Sound, Clients
<1>1. Feed!At(g, rev, "ready") \in SUBSET Nat
  BY <1>0, ViewIs DEF Screens
<1>2. /\ b \in Clients /\ b.floor = c.floor /\ b.open = c.open /\ b.connected = c.connected /\ b.awaiting = c.awaiting
      /\ b.up = c.up /\ b.debtRev = c.debtRev /\ b.debtPly = c.debtPly /\ b.timer = c.timer /\ b.out = c.out
  BY <1>1 DEF Clients, Screens
<1>3. /\ b.screen.moves = c.screen.moves /\ b.screen.offer = c.screen.offer /\ b.screen.over = c.screen.over
      /\ b.screen.ready = c.screen.ready \cup Feed!At(g, rev, "ready")
  BY DEF Clients, Screens
<1>4. b = [c EXCEPT !.screen.ready = @ \cup Feed!At(g, rev, "ready")]
  BY DEF Clients, Screens
<1> HIDE DEF b
<1>5. Reach(b) = Reach(c)
  BY <1>2 DEF Reach
<1>6. c.screen.moves \in Seq(Nat) /\ v.moves \in Seq(Nat) /\ w.moves \in Seq(Nat)
  BY <1>0, ViewIs DEF Clients, Screens
<1>7. CASE rev < c.floor
  <2>1. Feed!OnReady(c, g, rev) = c
    BY <1>7 DEF Feed!OnReady
  <2>2. rev <= Reach(c)
    BY <1>0, <1>7
  <2>3. Keeps(c, c, g)
    BY KeepsItself
  <2> QED BY <2>1, <2>2, <2>3 DEF Hears
<1>8. CASE rev > c.floor + 1
  <2> DEFINE o == Feed!Owing(b, rev, 0)
             d == [o EXCEPT !.out = Feed!Offered(o)]
  <2>1. Feed!OnReady(c, g, rev) = Feed!Trigger(d)
    BY <1>0, <1>4, <1>8 DEF Feed!OnReady
  <2>2. /\ o \in Clients /\ Sound(o, g) /\ rev <= Reach(o) /\ o.screen = b.screen /\ o.floor = b.floor
        /\ Reach(b) <= Reach(o) /\ SameSocket(b, o) /\ o.up = b.up
    <3>1. o.up = b.up
      BY <1>2 DEF Feed!Owing, Clients
    <3>2. 0 \in Nat /\ Reach(b) <= Len(g) /\ Begins(b.screen.moves, Feed!View(g, b.floor).moves)
          /\ (b.screen.over => Feed!View(g, b.floor).over)
          /\ b.screen.ready \subseteq Feed!At(g, Reach(b), "ready") \cup Feed!At(g, rev, "ready")
      BY <1>2, <1>3, <1>5 DEF Sound
    <3> HIDE DEF o
    <3> QED BY <1>2, <3>1, <3>2, OwingIsSound DEF o
  <2> HIDE DEF o
  <2>3. Feed!Offered(o) \in BOOLEAN
    BY <2>2 DEF Feed!Offered, Feed!InDebt, Feed!Exhausted, Clients
  <2>4. /\ d \in Clients /\ SameGame(o, d) /\ d.open = o.open /\ d.connected = o.connected /\ d.awaiting = o.awaiting
        /\ d.up = o.up
    BY <2>2, <2>3 DEF Clients, SameGame
  <2> HIDE DEF d
  <2>5. Sound(d, g) /\ Reach(d) = Reach(o) /\ d.screen = b.screen /\ d.floor = c.floor
    BY <1>2, <2>2, <2>4, SameGameKeeps DEF SameGame
  <2>6. Onward(c, d)
    BY <1>0, <1>3, <1>5, <1>6, <2>2, <2>5, BeginsWith DEF Onward
  <2>7. d.open = c.open /\ d.connected = c.connected /\ d.awaiting = c.awaiting /\ d.up = c.up
    BY <1>2, <2>2, <2>4 DEF SameSocket
  <2> QED BY <1>0, <2>1, <2>2, <2>4, <2>5, <2>6, <2>7, TriggerKeeps
<1>9. CASE rev \in {c.floor, c.floor + 1}
  <2> DEFINE d == [b EXCEPT !.floor = rev]
  <2>1. Feed!OnReady(c, g, rev) = d
    BY <1>0, <1>4, <1>9 DEF Feed!OnReady
  <2>2. /\ d \in Clients /\ d.floor = rev /\ d.screen = b.screen /\ d.open = c.open /\ d.connected = c.connected
        /\ d.awaiting = c.awaiting /\ d.up = c.up /\ d.debtRev = c.debtRev /\ d.debtPly = c.debtPly
        /\ d.timer = c.timer /\ d.out = c.out
    BY <1>0, <1>2 DEF Clients
  <2> HIDE DEF d
  <2>3. /\ Reach(c) <= Reach(d) /\ Reach(d) <= Len(g) /\ rev <= Reach(d) /\ Reach(d) \in 0..Len(g)
        /\ (~Feed!InDebt(d) => Reach(d) = rev)
    BY <1>0, <1>9, <2>2 DEF Reach, Feed!Larger, Clients, Feed!InDebt
  <2>4. w.moves = v.moves /\ (w.offer <=> v.offer) /\ (w.over <=> v.over)
    <3>1. CASE rev = c.floor
      BY <3>1
    <3>2. CASE rev = c.floor + 1
      <4>1. rev - 1 = c.floor
        BY <1>0, <3>2
      <4>2. LET u == Feed!View(g, rev - 1) IN w.moves = u.moves /\ (w.offer <=> u.offer) /\ (w.over <=> u.over)
        BY <1>0, ViewNext
      <4> QED BY <4>1, <4>2
    <3> QED BY <1>9, <3>1, <3>2
  <2>5. d.screen.ready \subseteq Feed!At(g, Reach(d), "ready") /\ Feed!At(g, rev, "ready") \subseteq d.screen.ready
    <3>1. /\ Feed!At(g, Reach(c), "ready") \subseteq Feed!At(g, Reach(d), "ready")
          /\ Feed!At(g, rev, "ready") \subseteq Feed!At(g, Reach(d), "ready")
      BY <1>0, <2>3, ViewGrows
    <3> QED BY <1>3, <2>2, <3>1 DEF Sound
  <2>6. w.ready = Feed!At(g, rev, "ready") /\ w \in Screens /\ v \in Screens
    BY <1>0, ViewIs
  <2> HIDE DEF v, w
  <2>7. ASSUME ~Feed!InDebt(d) PROVE Shows(d, g)
    <3>1. Shows(c, g)
      BY <2>2, <2>7 DEF Sound, Feed!InDebt
    <3>2. c.screen.moves = v.moves /\ c.screen.over = v.over /\ (~c.screen.over => c.screen.offer = v.offer)
      BY <3>1 DEF Shows, v
    <3>3. w.over = v.over /\ w.offer = v.offer
      BY <2>4, <2>6 DEF Screens
    <3>4. d.screen.ready = w.ready
      BY <2>3, <2>5, <2>6, <2>7
    <3>5. d.screen.moves = w.moves /\ d.screen.over = w.over /\ (~d.screen.over => d.screen.offer = w.offer)
      BY <1>3, <2>2, <2>4, <3>2, <3>3
    <3> QED BY <2>2, <3>4, <3>5 DEF Shows, w
  <2>8. Sound(d, g)
    BY <1>3, <2>2, <2>3, <2>4, <2>5, <2>7 DEF Sound, v, w
  <2>9. Onward(c, d)
    BY <1>0, <1>3, <1>6, <1>9, <2>2, <2>3, BeginsWith DEF Onward
  <2>10. Alert(c) => Alert(d)
    BY <2>2 DEF Alert, Feed!InDebt
  <2> QED BY <2>1, <2>2, <2>3, <2>8, <2>9, <2>10 DEF Hears, Keeps, Carries
<1> QED BY <1>0, <1>7, <1>8, <1>9

\* An ending, next or beyond a gap or late, keeps a client sound.
LEMMA OnEndedKeeps ==
  ASSUME NEW g, Story(g), NEW c \in Clients, Sound(c, g), NEW rev \in 1..Len(g), g[rev] = "ended", c.connected
  PROVE  Hears(c, Feed!OnEnded(c, g, rev), g, rev)
<1> DEFINE b == [c EXCEPT !.floor = rev, !.screen.over = TRUE]
           w == Feed!View(g, rev)
           v == Feed!View(g, c.floor)
<1>0. /\ g \in Seq(Feed!Kind) /\ Len(g) \in Nat /\ rev \in Nat /\ rev \in 0..Len(g)
      /\ c.floor \in Nat /\ c.floor \in 0..Len(g) /\ Reach(c) \in 0..Len(g) /\ c.floor <= Reach(c)
  BY ReachIs DEF Story, Sound, Clients
<1>1. w.over /\ w \in Screens /\ v \in Screens /\ w.ready = Feed!At(g, rev, "ready")
  <2>1. rev \in Feed!At(g, rev, "ended")
    BY <1>0 DEF Feed!At
  <2> QED BY <1>0, <2>1, ViewIs
<1>2. /\ b \in Clients /\ b.floor = rev /\ b.open = c.open /\ b.connected = c.connected /\ b.awaiting = c.awaiting
      /\ b.up = c.up /\ b.debtRev = c.debtRev /\ b.debtPly = c.debtPly /\ b.timer = c.timer /\ b.out = c.out
  BY <1>0 DEF Clients, Screens
<1>3. b.screen.moves = c.screen.moves /\ b.screen.over = TRUE /\ b.screen.ready = c.screen.ready
  BY DEF Clients, Screens
<1>4. CASE rev <= c.floor
  <2>1. Feed!OnEnded(c, g, rev) = c
    BY <1>4 DEF Feed!OnEnded
  <2>2. rev <= Reach(c)
    BY <1>0, <1>4
  <2>3. Keeps(c, c, g)
    BY KeepsItself
  <2> QED BY <2>1, <2>2, <2>3 DEF Hears
<1>5. ASSUME rev > c.floor
      PROVE  /\ Reach(c) <= Reach(b) /\ Reach(b) <= Len(g) /\ rev <= Reach(b) /\ Reach(b) \in 0..Len(g)
             /\ Begins(b.screen.moves, w.moves) /\ b.screen.ready \subseteq Feed!At(g, Reach(b), "ready")
             /\ Onward(c, b) /\ (~Feed!InDebt(b) => Reach(b) = rev)
  <2> HIDE DEF b
  <2>1. /\ Reach(c) <= Reach(b) /\ Reach(b) <= Len(g) /\ rev <= Reach(b) /\ Reach(b) \in 0..Len(g)
        /\ (~Feed!InDebt(b) => Reach(b) = rev)
    BY <1>0, <1>2, <1>5 DEF Reach, Feed!Larger, Clients, Feed!InDebt
  <2>2. Begins(v.moves, w.moves) /\ Feed!At(g, Reach(c), "ready") \subseteq Feed!At(g, Reach(b), "ready")
    BY <1>0, <1>5, <2>1, ViewGrows
  <2>3. c.screen.moves \in Seq(Nat) /\ v.moves \in Seq(Nat) /\ w.moves \in Seq(Nat)
    BY <1>1 DEF Clients, Screens
  <2> HIDE DEF w
  <2>4. Begins(b.screen.moves, w.moves)
    BY <1>3, <2>2, <2>3, BeginsWith DEF Sound
  <2>5. Onward(c, b)
    BY <1>0, <1>2, <1>3, <1>5, <2>1, <2>3, BeginsWith DEF Onward
  <2> QED BY <1>3, <2>1, <2>2, <2>4, <2>5 DEF Sound
<1>6. CASE rev > c.floor + 1
  <2> DEFINE o == Feed!Owing(b, rev, 0)
             d == [o EXCEPT !.out = Feed!Offered(o)]
  <2>0. rev > c.floor /\ ~(rev <= c.floor)
    BY <1>0, <1>6
  <2>1. Feed!OnEnded(c, g, rev) = Feed!Trigger(d)
    BY <1>6, <2>0 DEF Feed!OnEnded
  <2> HIDE DEF b
  <2>2. /\ o \in Clients /\ Sound(o, g) /\ rev <= Reach(o) /\ o.screen = b.screen /\ o.floor = b.floor
        /\ Reach(b) <= Reach(o) /\ SameSocket(b, o) /\ o.up = b.up
    <3>1. o.up = b.up
      BY <1>2 DEF Feed!Owing, Clients
    <3> HIDE DEF o
    <3> QED BY <1>1, <1>2, <1>3, <1>5, <2>0, <3>1, OwingIsSound DEF o
  <2> HIDE DEF o
  <2>3. Feed!Offered(o) \in BOOLEAN
    BY <2>2 DEF Feed!Offered, Feed!InDebt, Feed!Exhausted, Clients
  <2>4. /\ d \in Clients /\ SameGame(o, d) /\ d.open = o.open /\ d.connected = o.connected /\ d.awaiting = o.awaiting
        /\ d.up = o.up
    BY <2>2, <2>3 DEF Clients, SameGame
  <2> HIDE DEF d
  <2>5. Sound(d, g) /\ Reach(d) = Reach(o) /\ d.screen = b.screen /\ d.floor = b.floor
    BY <2>2, <2>4, SameGameKeeps DEF SameGame
  <2>6. Reach(c) <= Reach(d)
    BY <1>2, <1>5, <2>0, <2>2, <2>4, <2>5, ReachIs
  <2>7. Onward(c, d)
    BY <1>5, <2>0, <2>5, <2>6 DEF Onward
  <2>8. d.open = c.open /\ d.connected = c.connected /\ d.awaiting = c.awaiting /\ d.up = c.up
    BY <1>2, <2>2, <2>4 DEF SameSocket
  <2> QED BY <1>0, <2>1, <2>2, <2>4, <2>5, <2>7, <2>8, TriggerKeeps
<1>7. CASE rev = c.floor + 1
  <2>0. rev > c.floor /\ ~(rev <= c.floor) /\ ~(rev > c.floor + 1) /\ rev - 1 = c.floor
    BY <1>0, <1>7
  <2>1. Feed!OnEnded(c, g, rev) = b
    BY <2>0 DEF Feed!OnEnded
  <2> HIDE DEF b
  <2>2. w.moves = v.moves /\ w.ready = v.ready
    <3>1. LET u == Feed!View(g, rev - 1) IN w.moves = u.moves /\ w.ready = u.ready
      BY <1>0, ViewNext
    <3> QED BY <2>0, <3>1
  <2>3. w.over = TRUE
    BY <1>1 DEF Screens
  <2> HIDE DEF v, w
  <2>4. ASSUME ~Feed!InDebt(b) PROVE Shows(b, g)
    <3>1. Shows(c, g)
      BY <1>2, <2>4 DEF Sound, Feed!InDebt
    <3>2. c.screen.moves = v.moves /\ c.screen.ready = v.ready
      BY <3>1 DEF Shows, v
    <3>3. b.screen.moves = w.moves /\ b.screen.over = w.over /\ b.screen.ready = w.ready /\ b.screen.over
      BY <1>3, <2>2, <2>3, <3>2
    <3> QED BY <1>2, <3>3 DEF Shows, w
  <2>5. Sound(b, g)
    BY <1>1, <1>2, <1>3, <1>5, <2>0, <2>4 DEF Sound, w
  <2>6. Alert(c) => Alert(b)
    BY <1>2 DEF Alert, Feed!InDebt
  <2> QED BY <1>2, <1>5, <2>0, <2>1, <2>5, <2>6 DEF Hears, Keeps, Carries
<1> QED BY <1>0, <1>4, <1>6, <1>7

-----------------------------------------------------------------------------
(* The join and the socket. *)

\* A join is answered: the snapshot is reached, and a debt that it leaves is asked for.
LEMMA OnJoinedKeeps ==
  ASSUME NEW g, Story(g), NEW c \in Clients, Sound(c, g), NEW rev \in 1..Len(g), c.awaiting, ~c.connected
  PROVE  LET d == Feed!OnJoined(c, g, rev)
         IN /\ Carries(c, d, g) /\ rev <= Reach(d) /\ d.connected /\ ~d.awaiting
            /\ d.up = c.up \/ d.up = Append(c.up, "resume")
            /\ c.open => Alert(d)
<1> DEFINE known == [c EXCEPT !.awaiting = FALSE, !.lastPly = -1, !.joined = TRUE]
           held == [known EXCEPT !.connected = TRUE, !.out = Feed!Offered(c)]
           now == CASE Feed!Freshness(c, g, rev) = "newer" -> Feed!Apply(known, g, rev)
                    [] Feed!Freshness(c, g, rev) = "equal" -> Feed!Reconcile(held, g, rev)
                    [] OTHER -> held
           d == Feed!OnJoined(c, g, rev)
<1>1. d = IF Feed!InDebt(c) THEN Feed!Trigger(now)
          ELSE IF c.lastPly # -1 /\ c.lastPly < Feed!Ply(g, rev) THEN Feed!Send(now, "resume") ELSE now
  BY DEF Feed!OnJoined
<1> HIDE DEF d
<1>2. Feed!Offered(c) \in BOOLEAN /\ -1 \in Int
  BY DEF Feed!Offered, Feed!InDebt, Feed!Exhausted, Clients
<1>3. /\ known \in Clients /\ SameGame(c, known) /\ known.open = c.open /\ known.awaiting = FALSE /\ known.up = c.up
  BY <1>2 DEF Clients, SameGame
<1> HIDE DEF known
<1>4. /\ held \in Clients /\ SameGame(c, held) /\ held.open = c.open /\ held.awaiting = FALSE /\ held.up = c.up
      /\ held.connected = TRUE
  BY <1>2, <1>3 DEF Clients, SameGame
<1> HIDE DEF held
<1>5. /\ Sound(known, g) /\ Onward(c, known) /\ (Feed!InDebt(known) <=> Feed!InDebt(c))
      /\ Sound(held, g) /\ Onward(c, held) /\ (Feed!InDebt(held) <=> Feed!InDebt(c))
  BY <1>3, <1>4, SameGameKeeps
<1>6. Feed!Freshness(known, g, rev) = Feed!Freshness(c, g, rev) /\ Feed!Freshness(held, g, rev) = Feed!Freshness(c, g, rev)
  BY <1>3, <1>4 DEF Feed!Freshness, SameGame
<1>7. /\ Carries(c, now, g) /\ now.connected = TRUE /\ now.awaiting = FALSE /\ now.up = c.up
      /\ (Feed!InDebt(now) => Feed!InDebt(c)) /\ rev <= Reach(now)
  <2>1. CASE Feed!Freshness(c, g, rev) = "newer"
    <3>1. now = Feed!Apply(known, g, rev)
      BY <2>1
    <3> HIDE DEF now
    <3>2. /\ Carries(known, now, g) /\ (Feed!InDebt(now) => Feed!InDebt(known))
          /\ now.floor = rev /\ now.connected = TRUE /\ now.awaiting = known.awaiting /\ now.up = known.up
      <4>1. Feed!Freshness(known, g, rev) = "newer" /\ known \in Clients /\ Sound(known, g)
        BY <1>3, <1>5, <1>6, <2>1
      <4>2. Carries(known, Feed!Apply(known, g, rev), g)
        BY <4>1, ApplyKeeps
      <4>3. Feed!InDebt(Feed!Apply(known, g, rev)) => Feed!InDebt(known)
        BY <4>1, ApplyKeeps
      <4>4. Feed!Apply(known, g, rev).floor = rev
        BY <4>1, ApplyKeeps
      <4>5. Feed!Apply(known, g, rev).connected = TRUE
        BY <4>1, ApplyKeeps
      <4>6. Feed!Apply(known, g, rev).awaiting = known.awaiting
        BY <4>1, ApplyKeeps
      <4>7. Feed!Apply(known, g, rev).up = known.up
        BY <4>1, ApplyKeeps
      <4> QED BY <3>1, <4>2, <4>3, <4>4, <4>5, <4>6, <4>7
    <3>3. Onward(c, now) /\ rev <= Reach(now)
      BY <1>3, <1>5, <3>2, OnwardTwice, ReachIs DEF Carries
    <3> QED BY <1>3, <1>5, <3>2, <3>3 DEF Carries
  <2>2. CASE Feed!Freshness(c, g, rev) = "equal"
    <3>1. now = Feed!Reconcile(held, g, rev)
      BY <2>2
    <3> HIDE DEF now
    <3>2. /\ Keeps(held, now, g) /\ (Feed!InDebt(now) => Feed!InDebt(held))
          /\ now.floor = rev /\ now.connected = held.connected /\ now.awaiting = held.awaiting /\ now.up = held.up
      BY <1>4, <1>5, <1>6, <2>2, <3>1, ReconcileKeeps
    <3>3. Onward(c, now) /\ rev <= Reach(now)
      BY <1>4, <1>5, <3>2, OnwardTwice, ReachIs DEF Carries, Keeps
    <3> QED BY <1>4, <1>5, <3>2, <3>3 DEF Carries, Keeps
  <2>3. CASE Feed!Freshness(c, g, rev) \notin {"newer", "equal"}
    <3>1. now = held
      BY <2>3
    <3> HIDE DEF now
    <3>2. rev <= c.floor /\ c.floor \in Nat /\ Reach(c) \in Nat /\ c.floor <= Reach(c) /\ rev \in Nat
      BY <2>3, Newer, ReachIs DEF Clients
    <3>3. Reach(held) = Reach(c)
      BY <1>4, SameGameKeeps
    <3> QED BY <1>4, <1>5, <3>1, <3>2, <3>3 DEF Carries
  <2> QED BY <2>1, <2>2, <2>3
<1> HIDE DEF now
<1>8. CASE Feed!InDebt(c)
  <2>1. d = Feed!Trigger(now) /\ now \in Clients
    BY <1>1, <1>7, <1>8 DEF Carries
  <2>2. d \in Clients /\ SameGame(now, d) /\ SameSocket(now, d) /\ (now.open => Alert(d))
    BY <2>1, TriggerIs
  <2>3. (Sound(now, g) => Sound(d, g)) /\ Onward(now, d) /\ Reach(d) = Reach(now)
    BY <2>1, <2>2, SameGameKeeps
  <2>4. Sound(d, g) /\ Onward(c, d)
    BY <1>7, <2>1, <2>2, <2>3, OnwardTwice DEF Carries
  <2> QED BY <1>7, <2>2, <2>3, <2>4 DEF Carries, SameSocket, d
<1>9. CASE ~Feed!InDebt(c) /\ c.lastPly # -1 /\ c.lastPly < Feed!Ply(g, rev)
  <2>1. d = [now EXCEPT !.up = Append(now.up, "resume")] /\ now \in Clients
    <3>1. d = Feed!Send(now, "resume") /\ now \in Clients
      BY <1>1, <1>7, <1>9 DEF Carries
    <3> QED BY <3>1 DEF Feed!Send, Clients
  <2>2. Append(now.up, "resume") \in Seq({"join", "resume"})
    BY <2>1 DEF Clients
  <2>3. /\ d \in Clients /\ SameGame(now, d) /\ d.open = now.open /\ d.connected = now.connected
        /\ d.awaiting = now.awaiting /\ d.up = Append(now.up, "resume")
    BY <2>1, <2>2 DEF Clients, SameGame
  <2>4. (Sound(now, g) => Sound(d, g)) /\ Onward(now, d) /\ Reach(d) = Reach(now) /\ (Feed!InDebt(d) <=> Feed!InDebt(now))
    BY <2>1, <2>3, SameGameKeeps
  <2>5. Sound(d, g) /\ Onward(c, d)
    BY <1>7, <2>1, <2>3, <2>4, OnwardTwice DEF Carries
  <2> QED BY <1>7, <1>9, <2>3, <2>4, <2>5 DEF Carries, Alert, d
<1>10. CASE ~Feed!InDebt(c) /\ ~(c.lastPly # -1 /\ c.lastPly < Feed!Ply(g, rev))
  <2>1. d = now
    BY <1>1, <1>10
  <2> QED BY <1>7, <1>10, <2>1 DEF Alert, d
<1> QED BY <1>8, <1>9, <1>10

\* A join is refused: it is tried again, or the player is asked.
LEMMA OnRejectKeeps ==
  ASSUME NEW c \in Clients
  PROVE  LET d == Feed!OnReject(c)
         IN /\ ~c.awaiting => d = c
            /\ c.awaiting => /\ d \in Clients /\ SameGame(c, d) /\ d.open = c.open /\ ~d.connected /\ ~d.awaiting
                             /\ d.up = c.up /\ (d.retry \/ d.out) /\ Alert(d)
<1> DEFINE b == [c EXCEPT !.awaiting = FALSE, !.connected = FALSE, !.out = FALSE]
           d == Feed!OnReject(c)
<1>1. CASE ~c.awaiting
  BY <1>1 DEF Feed!OnReject
<1>2. /\ b \in Clients /\ SameGame(c, b) /\ b.open = c.open /\ b.connected = FALSE /\ b.awaiting = FALSE /\ b.up = c.up
      /\ b.joins = c.joins
  BY DEF Clients, SameGame
<1>3. CASE c.awaiting /\ c.joins >= MaxJoinRetries
  <2>1. d = [b EXCEPT !.out = TRUE]
    BY <1>3 DEF Feed!OnReject
  <2> HIDE DEF d, b
  <2> QED BY <1>2, <1>3, <2>1 DEF Clients, SameGame, Alert, d
<1>4. CASE c.awaiting /\ ~(c.joins >= MaxJoinRetries)
  <2>1. d = [b EXCEPT !.joins = b.joins + 1, !.retry = TRUE]
    BY <1>2, <1>4 DEF Feed!OnReject, Clients
  <2> HIDE DEF d, b
  <2>2. b.joins + 1 \in Nat
    BY <1>2 DEF Clients
  <2> QED BY <1>2, <1>4, <2>1, <2>2 DEF Clients, SameGame, Alert, d
<1> QED BY <1>1, <1>3, <1>4

\* Join sends a join and leaves the game alone.
LEMMA JoinIs ==
  ASSUME NEW c \in Clients
  PROVE  LET d == Feed!Join(c)
         IN /\ d \in Clients /\ SameGame(c, d) /\ d.open = c.open /\ d.connected = c.connected /\ d.timer = c.timer
            /\ d.out = c.out /\ d.retry = c.retry
            /\ \/ d = c /\ (~c.open \/ c.awaiting \/ c.connected)
               \/ c.open /\ ~c.awaiting /\ ~c.connected /\ d.awaiting /\ d.up = Append(c.up, "join")
<1>1. CASE ~c.open \/ c.awaiting \/ c.connected
  BY <1>1 DEF Feed!Join, SameGame
<1>2. CASE ~(~c.open \/ c.awaiting \/ c.connected)
  <2>1. Feed!Join(c) = [c EXCEPT !.awaiting = TRUE, !.up = Append(c.up, "join")]
    BY <1>2 DEF Feed!Join, Feed!Send, Clients
  <2>2. Append(c.up, "join") \in Seq({"join", "resume"})
    BY DEF Clients
  <2> QED BY <1>2, <2>1, <2>2 DEF Clients, SameGame
<1> QED BY <1>1, <1>2

\* What a timer or the player does to the socket.
Proceeds(c, d) ==
  /\ d \in Clients /\ SameGame(c, d) /\ Alert(d) /\ d.open = c.open /\ d.connected = c.connected
  /\ c.open /\ ~c.connected => d.awaiting \/ d.retry \/ d.out
  /\ \/ d.awaiting = c.awaiting /\ (d.up = c.up \/ (c.connected /\ d.up = Append(c.up, "resume")))
     \/ c.open /\ ~c.connected /\ ~c.awaiting /\ d.awaiting /\ d.up = Append(c.up, "join")

\* A timer that fires, or a player who retries, leaves a client that goes on.
LEMMA TimersProceed ==
  ASSUME NEW c \in Clients, Alert(c), c.connected => c.open,
         c.open /\ ~c.connected => c.awaiting \/ c.retry \/ c.out
  PROVE  /\ c.timer = "timeout" => Proceeds(c, Feed!TimeOut(c))
         /\ c.timer = "backoff" => Proceeds(c, Feed!BackOff(c))
         /\ c.retry => Proceeds(c, Feed!RetryJoin(c))
         /\ c.out /\ c.open => Proceeds(c, Feed!ByHand(c))
<1>1. ASSUME c.timer = "timeout" PROVE Proceeds(c, Feed!TimeOut(c))
  <2>1. CASE Feed!Exhausted(c)
    <3>1. Feed!TimeOut(c) = [c EXCEPT !.timer = "none", !.out = TRUE]
      BY <2>1 DEF Feed!TimeOut
    <3> QED BY <3>1 DEF Proceeds, Clients, SameGame, Alert, Timers
  <2>2. CASE ~Feed!Exhausted(c)
    <3>1. Feed!TimeOut(c) = [c EXCEPT !.timer = "backoff"]
      BY <2>2 DEF Feed!TimeOut
    <3> QED BY <3>1 DEF Proceeds, Clients, SameGame, Alert, Timers
  <2> QED BY <2>1, <2>2
<1>2. ASSUME c.timer = "backoff" PROVE Proceeds(c, Feed!BackOff(c))
  <2> DEFINE b == [c EXCEPT !.timer = "none"]
             d == Feed!Dispatch(b)
  <2>1. /\ b \in Clients /\ SameGame(c, b) /\ b.open = c.open /\ b.connected = c.connected /\ b.awaiting = c.awaiting
        /\ b.up = c.up /\ b.retry = c.retry /\ b.out = c.out /\ (Feed!InDebt(b) <=> Feed!InDebt(c))
    BY DEF Clients, SameGame, Timers, Feed!InDebt
  <2>2. CASE Feed!InDebt(c)
    <3>1. Feed!BackOff(c) = d
      BY <2>1, <2>2 DEF Feed!BackOff
    <3> HIDE DEF b
    <3>2. /\ d \in Clients /\ SameGame(b, d) /\ SameSocket(b, d) /\ (b.connected /\ b.open => d.timer # "none" \/ d.out)
          /\ (~(b.connected /\ b.open) => d = b)
      BY <2>1, DispatchIs
    <3> HIDE DEF d
    <3> QED BY <2>1, <3>1, <3>2 DEF Proceeds, SameGame, SameSocket, Alert
  <2>3. CASE ~Feed!InDebt(c)
    <3>1. Feed!BackOff(c) = b
      BY <2>1, <2>3 DEF Feed!BackOff
    <3> HIDE DEF b
    <3> QED BY <2>1, <2>3, <3>1 DEF Proceeds, Alert
  <2> QED BY <2>2, <2>3
<1>3. ASSUME c.retry PROVE Proceeds(c, Feed!RetryJoin(c))
  <2> DEFINE b == [c EXCEPT !.retry = FALSE]
             d == Feed!Join(b)
  <2>1. /\ b \in Clients /\ SameGame(c, b) /\ b.open = c.open /\ b.connected = c.connected /\ b.awaiting = c.awaiting
        /\ b.up = c.up /\ b.timer = c.timer /\ b.out = c.out /\ (Feed!InDebt(b) <=> Feed!InDebt(c))
    BY DEF Clients, SameGame, Feed!InDebt
  <2>2. Feed!RetryJoin(c) = d
    BY DEF Feed!RetryJoin
  <2> HIDE DEF b
  <2>3. /\ d \in Clients /\ SameGame(b, d) /\ d.open = b.open /\ d.connected = b.connected /\ d.timer = b.timer
        /\ d.out = b.out
        /\ \/ d = b /\ (~b.open \/ b.awaiting \/ b.connected)
           \/ b.open /\ ~b.awaiting /\ ~b.connected /\ d.awaiting /\ d.up = Append(b.up, "join")
    BY <2>1, JoinIs
  <2> HIDE DEF d
  <2>4. SameGame(c, d) /\ Alert(d)
    BY <2>1, <2>3 DEF SameGame, Alert, Feed!InDebt
  <2> QED BY <2>1, <2>2, <2>3, <2>4 DEF Proceeds
<1>4. ASSUME c.out, c.open PROVE Proceeds(c, Feed!ByHand(c))
  <2>1. CASE ~c.connected
    <3> DEFINE b == [c EXCEPT !.out = FALSE, !.retry = FALSE, !.joins = 0]
               d == Feed!Join(b)
    <3>1. /\ b \in Clients /\ SameGame(c, b) /\ b.open = c.open /\ b.connected = c.connected /\ b.awaiting = c.awaiting
          /\ b.up = c.up
      BY DEF Clients, SameGame
    <3>2. Feed!ByHand(c) = d
      BY <2>1 DEF Feed!ByHand
    <3> HIDE DEF b
    <3>3. /\ d \in Clients /\ SameGame(b, d) /\ d.open = b.open /\ d.connected = b.connected
          /\ \/ d = b /\ (~b.open \/ b.awaiting \/ b.connected)
             \/ b.open /\ ~b.awaiting /\ ~b.connected /\ d.awaiting /\ d.up = Append(b.up, "join")
      BY <3>1, JoinIs
    <3> HIDE DEF d
    <3> QED BY <1>4, <2>1, <3>1, <3>2, <3>3 DEF Proceeds, SameGame, Alert
  <2>2. CASE c.connected /\ Feed!InDebt(c)
    <3> DEFINE b == [c EXCEPT !.out = FALSE, !.timer = "none", !.attempts = 0]
               d == Feed!Dispatch(b)
    <3>1. /\ b \in Clients /\ SameGame(c, b) /\ b.open = c.open /\ b.connected = c.connected /\ b.awaiting = c.awaiting
          /\ b.up = c.up
      BY DEF Clients, SameGame, Timers
    <3>2. Feed!ByHand(c) = d
      BY <2>2 DEF Feed!ByHand
    <3> HIDE DEF b
    <3>3. d \in Clients /\ SameGame(b, d) /\ SameSocket(b, d) /\ (b.connected /\ b.open => d.timer # "none" \/ d.out)
      BY <3>1, DispatchIs
    <3> HIDE DEF d
    <3> QED BY <1>4, <2>2, <3>1, <3>2, <3>3 DEF Proceeds, SameGame, SameSocket, Alert
  <2>3. CASE c.connected /\ ~Feed!InDebt(c)
    <3>1. Feed!ByHand(c) = [c EXCEPT !.out = FALSE]
      BY <2>3 DEF Feed!ByHand
    <3> QED BY <2>3, <3>1 DEF Proceeds, Clients, SameGame, Alert, Feed!InDebt
  <2> QED BY <2>1, <2>2, <2>3
<1> QED BY <1>1, <1>2, <1>3, <1>4

\* A socket that opens asks to join; one that is lost leaves nothing to wait for.
LEMMA SocketIs ==
  ASSUME NEW c \in Clients
  PROVE  /\ LET d == Feed!Dropped(c)
            IN d \in Clients /\ SameGame(c, d) /\ ~d.open /\ ~d.connected /\ ~d.awaiting /\ d.up = <<>>
         /\ ~c.connected => LET d == Feed!Opened(c)
                            IN /\ d \in Clients /\ SameGame(c, d) /\ d.open /\ ~d.connected /\ d.awaiting
                               /\ d.up = Append(c.up, "join")
<1>1. LET d == Feed!Dropped(c) IN d \in Clients /\ SameGame(c, d) /\ ~d.open /\ ~d.connected /\ ~d.awaiting /\ d.up = <<>>
  <2> DEFINE b == [c EXCEPT !.open = FALSE, !.connected = FALSE, !.awaiting = FALSE, !.retry = FALSE]
             d == [b EXCEPT !.timer = "none", !.up = <<>>]
  <2>1. Feed!Dropped(c) = d
    BY DEF Feed!Dropped
  <2>2. b \in Clients /\ SameGame(c, b) /\ b.open = FALSE /\ b.connected = FALSE /\ b.awaiting = FALSE
    BY DEF Clients, SameGame
  <2>3. <<>> \in Seq({"join", "resume"})
    OBVIOUS
  <2> HIDE DEF b
  <2>4. /\ d \in Clients /\ SameGame(b, d) /\ d.open = b.open /\ d.connected = b.connected /\ d.awaiting = b.awaiting
        /\ d.up = <<>>
    BY <2>2, <2>3 DEF Clients, SameGame, Timers
  <2> HIDE DEF d
  <2> QED BY <2>1, <2>2, <2>4 DEF SameGame
<1>2. ASSUME ~c.connected
      PROVE  LET d == Feed!Opened(c)
             IN d \in Clients /\ SameGame(c, d) /\ d.open /\ ~d.connected /\ d.awaiting /\ d.up = Append(c.up, "join")
  <2> DEFINE p == IF c.joined THEN Len(c.screen.moves) ELSE c.lastPly
             b == [c EXCEPT !.open = TRUE, !.awaiting = FALSE, !.retry = FALSE, !.out = FALSE, !.joins = 0,
                            !.lastPly = p]
             d == Feed!Join(b)
  <2>1. Feed!Opened(c) = d
    BY DEF Feed!Opened, Clients
  <2>2. p \in Int
    <3>1. c.screen.moves \in Seq(Nat)
      BY DEF Clients, Screens
    <3> QED BY <3>1 DEF Clients
  <2> HIDE DEF p
  <2>3. /\ b \in Clients /\ SameGame(c, b) /\ b.open = TRUE /\ b.connected = c.connected /\ b.awaiting = FALSE
        /\ b.up = c.up
    BY <2>2 DEF Clients, SameGame
  <2> HIDE DEF b
  <2>4. /\ d \in Clients /\ SameGame(b, d) /\ d.open = b.open /\ d.connected = b.connected
        /\ \/ d = b /\ (~b.open \/ b.awaiting \/ b.connected)
           \/ b.open /\ ~b.awaiting /\ ~b.connected /\ d.awaiting /\ d.up = Append(b.up, "join")
    BY <2>3, JoinIs
  <2> HIDE DEF d
  <2> QED BY <1>2, <2>1, <2>3, <2>4 DEF SameGame
<1> QED BY <1>1, <1>2

-----------------------------------------------------------------------------
(* The log goes on. *)

\* Newer keeps, in their order, the buffered frames beyond rev.
LEMMA NewerIs ==
  ASSUME NEW buffer \in Seq([t : Feed!FrameType, rev : Nat]), NEW rev \in Nat
  PROVE  LET kept == Feed!Newer(buffer, rev)
         IN /\ kept \in Seq([t : Feed!FrameType, rev : Nat])
            /\ \A k \in DOMAIN kept : \E i \in DOMAIN buffer : kept[k] = buffer[i]
            /\ \A i \in DOMAIN buffer : buffer[i].rev > rev => \E k \in DOMAIN kept : kept[k] = buffer[i]
<1> DEFINE F == [t : Feed!FrameType, rev : Nat]
           S == {i \in DOMAIN buffer : buffer[i].rev > rev}
           order == Feed!Ascending(S)
           kept == Feed!Newer(buffer, rev)
<1>0. buffer \in Seq(F)
  OBVIOUS
<1> HIDE DEF F
<1>1. Len(buffer) \in Nat /\ S \in SUBSET (1..Len(buffer)) /\ DOMAIN buffer = 1..Len(buffer)
  BY <1>0
<1>2. kept = [k \in DOMAIN order |-> buffer[order[k]]]
  BY DEF Feed!Newer
<1>3. S \subseteq DOMAIN buffer /\ \A i \in DOMAIN buffer : buffer[i].rev > rev => i \in S
  OBVIOUS
<1>4. \A i \in DOMAIN buffer : buffer[i] \in F
  BY <1>0
<1> HIDE DEF S, kept
<1>5. order \in Seq(S) /\ Len(order) = Cardinality(S) /\ Cardinality(S) \in Nat
  BY <1>1, AscendingIs
<1>6. \A i \in S : Cardinality(Upto(S, i)) \in 1..Cardinality(S) /\ order[Cardinality(Upto(S, i))] = i
  BY <1>1, AscendingHasAll
<1> HIDE DEF order
<1>7. DOMAIN order = 1..Cardinality(S) /\ \A k \in DOMAIN order : order[k] \in S
  BY <1>5
<1>8. DOMAIN kept = 1..Cardinality(S) /\ \A k \in 1..Cardinality(S) : kept[k] = buffer[order[k]] /\ order[k] \in DOMAIN buffer
  BY <1>2, <1>3, <1>7
<1>9. kept \in Seq(F)
  <2>1. kept \in [1..Cardinality(S) -> F]
    BY <1>2, <1>4, <1>7, <1>8
  <2>2. Cardinality(S) \in Nat
    BY <1>5
  <2> QED BY <2>1, <2>2
<1>10. \A k \in DOMAIN kept : \E i \in DOMAIN buffer : kept[k] = buffer[i]
  BY <1>8
<1>11. ASSUME NEW i \in DOMAIN buffer, buffer[i].rev > rev PROVE \E k \in DOMAIN kept : kept[k] = buffer[i]
  <2>1. i \in S
    BY <1>3, <1>11
  <2> QED BY <1>6, <1>8, <2>1
<1> QED BY <1>9, <1>10, <1>11 DEF kept, F

\* A true frame stays true as the log grows.
LEMMA TrueStands ==
  ASSUME NEW g, Story(g), NEW ks \in Seq(Feed!Kind), NEW f, True(f, g)
  PROVE  True(f, g \o ks)
<1>1. g \in Seq(Feed!Kind) /\ Len(g \o ks) = Len(g) + Len(ks) /\ Len(g) \in Nat /\ Len(ks) \in Nat
  BY DEF Story
<1>2. \A i \in 1..Len(g) : (g \o ks)[i] = g[i] /\ i \in 1..Len(g \o ks)
  BY <1>1
<1>3. CASE f = Feed!Frame("reject", 0)
  BY <1>3 DEF True
<1>4. CASE f \in [t : Feed!FrameType \ {"reject"}, rev : 1..Len(g)]
                /\ (f.t \in {"ready", "move", "ended"} => g[f.rev] = f.t)
  BY <1>2, <1>4 DEF True
<1> QED BY <1>3, <1>4 DEF True

\* A sound client stays sound as the log grows.
LEMMA SoundStands ==
  ASSUME NEW g, Story(g), NEW ks \in Seq(Feed!Kind), NEW c \in Clients, Sound(c, g)
  PROVE  Sound(c, g \o ks)
<1>1. g \in Seq(Feed!Kind) /\ Len(g \o ks) = Len(g) + Len(ks) /\ Len(g) \in Nat /\ Len(ks) \in Nat
  BY DEF Story
<1>2. c.floor \in 0..Len(g) /\ Reach(c) \in 0..Len(g)
  BY <1>1, ReachIs DEF Sound, Clients
<1>3. /\ Feed!View(g \o ks, c.floor) = Feed!View(g, c.floor)
      /\ Feed!At(g \o ks, Reach(c), "ready") = Feed!At(g, Reach(c), "ready")
  BY <1>1, <1>2, ViewStands
<1>4. Reach(c) <= Len(g \o ks)
  BY <1>1, <1>2
<1>5. Shows(c, g) => Shows(c, g \o ks)
  BY <1>3 DEF Shows
<1> QED BY <1>3, <1>4, <1>5 DEF Sound

\* What an append may add.
Additions == {<<"move">>, <<"move", "ended">>, <<"ready">>, <<"ended">>, <<"offer">>, <<"decline">>}

\* A log that has not ended and is given an addition is a log.
LEMMA StoryGoesOn ==
  ASSUME NEW g, Story(g), Feed!At(g, Len(g), "ended") = {}, NEW ks \in Additions
  PROVE  Story(g \o ks) /\ ks \in Seq(Feed!Kind) /\ Len(ks) \in 1..2
<1>1. ks \in Seq(Feed!Kind) /\ Len(ks) \in 1..2 /\ (\A i \in 1..Len(ks) : ks[i] # "created" /\ (i < Len(ks) => ks[i] # "ended"))
  <2>1. CASE ks = <<"move", "ended">>
    BY <2>1 DEF Feed!Kind
  <2>2. CASE ks \in {<<"move">>, <<"ready">>, <<"ended">>, <<"offer">>, <<"decline">>}
    <3>1. PICK k \in {"move", "ready", "ended", "offer", "decline"} : ks = <<k>>
      BY <2>2
    <3> QED BY <3>1 DEF Feed!Kind
  <2> QED BY <2>1, <2>2 DEF Additions
<1>2. g \in Seq(Feed!Kind) /\ Len(g) \in Nat /\ Len(g) > 0
  BY DEF Story
<1>3. \A i \in 1..Len(g) : (g[i] = "created" <=> i = 1) /\ g[i] # "ended"
  BY <1>2 DEF Story, Feed!At
<1> DEFINE h == g \o ks
<1>4. h \in Seq(Feed!Kind) /\ Len(h) = Len(g) + Len(ks) /\ h # <<>>
  BY <1>1, <1>2
<1>5. \A i \in 1..Len(h) : (i <= Len(g) /\ h[i] = g[i]) \/ (i > Len(g) /\ i - Len(g) \in 1..Len(ks) /\ h[i] = ks[i - Len(g)])
  BY <1>1, <1>2
<1>6. ASSUME NEW i \in 1..Len(h) PROVE (h[i] = "created" <=> i = 1) /\ (i < Len(h) => h[i] # "ended")
  <2>1. CASE i <= Len(g) /\ h[i] = g[i]
    BY <1>2, <1>3, <2>1
  <2>2. CASE i > Len(g) /\ i - Len(g) \in 1..Len(ks) /\ h[i] = ks[i - Len(g)]
    BY <1>1, <1>2, <1>4, <2>2
  <2> QED BY <1>5, <2>1, <2>2
<1> QED BY <1>1, <1>4, <1>6 DEF Story

\* A commit keeps the invariant: its frames are unsent, so its end is elsewhere.
LEMMA CommitKeeps ==
  ASSUME FeedInv, Feed!At(story, Len(story), "ended") = {}, NEW ks \in Additions, Feed!Commit(ks),
         replies' \subseteq 1..Len(story')
  PROVE  FeedInv'
<1>1. /\ story' = story \o ks
      /\ unsent' = unsent \cup {[rev |-> r, by |-> owner] : r \in (Len(story) + 1)..Len(story')}
      /\ UNCHANGED <<owner, sub, observed, lastFull, others, session, refresh, pipe, client, lost, lossy>>
  BY DEF Feed!Commit, Feed!roomVars, Feed!history
<1>2. Story(story) /\ Story(story') /\ ks \in Seq(Feed!Kind) /\ Len(ks) \in 1..2
  BY <1>1, StoryGoesOn DEF FeedInv, FeedTypes
<1>3. Len(story') = Len(story) + Len(ks) /\ Len(story) \in Nat /\ Len(story') \in Nat /\ Len(story) >= 1
      /\ Len(story') >= Len(story) + 1
  <2>1. story \in Seq(Feed!Kind) /\ story # <<>>
    BY <1>2 DEF Story
  <2>2. Len(story') = Len(story) + Len(ks)
    BY <1>1, <1>2, <2>1
  <2>3. Len(story) \in Nat /\ Len(story) >= 1
    BY <2>1
  <2>4. Len(ks) \in 1..2
    BY <1>2
  <2> QED BY <2>2, <2>3, <2>4
<1>4. FeedTypes'
  <2>1. unsent' \subseteq [rev : 2..Len(story'), by : {"here", "there"}]
    BY <1>1, <1>2, <1>3 DEF FeedInv, FeedTypes
  <2>2. {observed, lastFull, lost, refresh.snap, session.snap, session.held}' \subseteq 0..Len(story')
    BY <1>1, <1>2, <1>3 DEF FeedInv, FeedTypes
  <2> QED BY <1>1, <1>2, <2>1, <2>2 DEF FeedInv, FeedTypes
<1>5. FramesAreTrue'
  <2>1. \A f : True(f, story) => True(f, story')
    BY <1>1, <1>2, TrueStands
  <2> QED BY <1>1, <2>1 DEF FeedInv, FramesAreTrue
<1>6. JoinStands'
  BY <1>1 DEF FeedInv, JoinStands, Resting, Asked, InProgress, Refused, JoinAnswered, Joined, NoJoin
<1>7. EndIsKnown'
  <2>1. Elsewhere'
    <3>1. [rev |-> Len(story'), by |-> owner] \in unsent'
      <4>1. Len(story') \in (Len(story) + 1)..Len(story')
        BY <1>3
      <4> QED BY <1>1, <4>1
    <3> QED BY <3>1 DEF Elsewhere, End
  <2>2. ~(lastFull' = End')
    <3>1. lastFull \in 0..Len(story) /\ lastFull' = lastFull
      BY <1>1 DEF FeedInv, FeedTypes
    <3>2. Len(story') > Len(story)
      BY <1>2, <1>3
    <3> QED BY <1>3, <3>1, <3>2 DEF End
  <2>3. session.member \/ session.join = "read" => sub = "ok" \/ lossy
    BY DEF FeedInv, EndIsKnown
  <2> QED BY <1>1, <2>1, <2>2, <2>3 DEF EndIsKnown
<1>8. Sound(client, story)' /\ Alert(client)'
  <2>1. Sound(client, story')
    BY <1>1, <1>2, SoundStands DEF FeedInv, FeedTypes
  <2> QED BY <1>1, <2>1 DEF FeedInv
<1> QED BY <1>4, <1>5, <1>6, <1>7, <1>8 DEF FeedInv

\* So does every step of the game.
LEMMA GameKeeps ==
  ASSUME FeedInv, Feed!Play \/ Feed!Negotiate
  PROVE  FeedInv'
<1>1. replies \subseteq 1..Len(story) /\ Len(story) \in Nat /\ story \in Seq(Feed!Kind)
  BY DEF FeedInv, FeedTypes, Story
<1>2. PICK ks \in Additions : /\ Feed!Commit(ks) /\ Feed!At(story, Len(story), "ended") = {}
                              /\ replies' = replies \/ replies' = replies \cup {Len(story')}
  <2>1. CASE Feed!Play
    <3>1. PICK ks \in Additions : \E k \in {"move", "ready", "ended"} : Feed!MayFollow(k) /\ Feed!Commit(ks)
      BY <2>1 DEF Feed!Play, Additions
    <3> QED BY <2>1, <3>1 DEF Feed!Play, Feed!MayFollow, Feed!Standing
  <2>2. CASE Feed!Negotiate
    <3>1. PICK k \in {"offer", "decline"} : Feed!MayFollow(k) /\ Feed!Commit(<<k>>)
      BY <2>2 DEF Feed!Negotiate
    <3>2. <<k>> \in Additions
      BY DEF Additions
    <3> QED BY <2>2, <3>1, <3>2 DEF Feed!Negotiate, Feed!MayFollow, Feed!Standing
  <2> QED BY <2>1, <2>2
<1>3. story' = story \o ks /\ ks \in Seq(Feed!Kind) /\ Len(ks) \in 1..2
  BY <1>2, StoryGoesOn DEF Feed!Commit, FeedInv, FeedTypes
<1>4. Len(story') = Len(story) + Len(ks)
  BY <1>1, <1>3
<1>5. replies' \subseteq 1..Len(story')
  <2>1. Len(story') \in Nat /\ Len(story') >= Len(story) + 1
    <3>1. Len(ks) \in 1..2 /\ Len(story) \in Nat
      BY <1>1, <1>3
    <3> QED BY <1>4, <3>1
  <2>2. 1..Len(story) \subseteq 1..Len(story') /\ Len(story') \in 1..Len(story')
    BY <1>1, <2>1
  <2> QED BY <1>1, <1>2, <2>2
<1> QED BY <1>2, <1>5, CommitKeeps

-----------------------------------------------------------------------------
(* The gateway hears a frame. *)

Frames == [t : Feed!FrameType, rev : Nat]

\* A frame of the log, for a room and the join in progress.
IsNews(f) == f \in Frames /\ True(f, story) /\ f.t \notin Answers

\* It is the last of both, if they take it.
LEMMA NewsIsHeard ==
  ASSUME FeedInv, NEW f, IsNews(f), UNCHANGED <<story, client>>, session' = Feed!Buffered(f),
         pipe' \in {pipe, Feed!ToMember(<<f>>)}
  PROVE  /\ session' \in Sessions /\ pipe' \in Seq(Frames) /\ FramesAreTrue' /\ JoinStands'
         /\ session'.member = session.member /\ session'.join = session.join /\ session'.snap = session.snap
         /\ session'.held = session.held
         /\ UnderWay => UnderWay'
         /\ InJoin => InJoin'
         /\ session.join # "none" /\ f.rev = End => InJoin'
         /\ session.member /\ pipe' = Feed!ToMember(<<f>>) /\ f.rev = End => UnderWay'
<1>1. f \in Frames /\ True(f, story) /\ f.t \notin Answers
  BY DEF IsNews
<1>2. pipe \in Seq(Frames) /\ session \in Sessions /\ session.buffer \in Seq(Frames)
  BY DEF FeedInv, FeedTypes, Sessions, Frames
<1> HIDE DEF Frames
<1>3. /\ session' \in Sessions /\ session'.member = session.member /\ session'.join = session.join
      /\ session'.snap = session.snap /\ session'.held = session.held /\ session'.resume = session.resume
      /\ session'.buffer = (IF session.join # "none" THEN Append(session.buffer, f) ELSE session.buffer)
  <2>1. CASE session.join # "none"
    <3>1. session' = [session EXCEPT !.buffer = Append(session.buffer, f)]
      BY <1>2, <2>1 DEF Feed!Buffered, Feed!Joining, Sessions
    <3>2. Append(session.buffer, f) \in Seq(Frames)
      BY <1>1, <1>2
    <3> QED BY <1>2, <2>1, <3>1, <3>2 DEF Sessions, Frames
  <2>2. CASE session.join = "none"
    BY <1>2, <2>2 DEF Feed!Buffered, Feed!Joining
  <2> QED BY <2>1, <2>2
<1>4. session'.buffer \in Seq(Frames)
  BY <1>1, <1>2, <1>3
<1>5. /\ \A i \in DOMAIN session.buffer : i \in DOMAIN session'.buffer /\ session'.buffer[i] = session.buffer[i]
      /\ \A i \in DOMAIN session'.buffer : session'.buffer[i] = f \/ (i \in DOMAIN session.buffer /\ session'.buffer[i] = session.buffer[i])
      /\ session.join # "none" => \E i \in DOMAIN session'.buffer : session'.buffer[i] = f
  <2>1. CASE session.join # "none"
    <3>1. session'.buffer = Append(session.buffer, f)
      BY <1>3, <2>1
    <3> QED BY <1>1, <1>2, <3>1
  <2>2. CASE session.join = "none"
    BY <1>3, <2>2
  <2> QED BY <2>1, <2>2
<1>6. pipe' = pipe \/ (session.member /\ pipe' = Append(pipe, f))
  <2>1. pipe \o <<f>> = Append(pipe, f)
    BY <1>1, <1>2
  <2> QED BY <2>1 DEF Feed!ToMember
<1>7. /\ pipe' \in Seq(Frames)
      /\ \A i \in DOMAIN pipe : i \in DOMAIN pipe' /\ pipe'[i] = pipe[i]
      /\ \A i \in DOMAIN pipe' : pipe'[i] = f \/ (i \in DOMAIN pipe /\ pipe'[i] = pipe[i])
      /\ pipe # <<>> => pipe' # <<>> /\ 1 \in DOMAIN pipe
      /\ session.member /\ pipe' = Feed!ToMember(<<f>>) => \E i \in DOMAIN pipe' : pipe'[i] = f
  <2>0. session.member /\ pipe' = Feed!ToMember(<<f>>) => pipe' = Append(pipe, f)
    <3>1. pipe \o <<f>> = Append(pipe, f)
      BY <1>1, <1>2
    <3> QED BY <3>1 DEF Feed!ToMember
  <2>1. CASE pipe' = Append(pipe, f)
    BY <1>1, <1>2, <2>1
  <2>2. CASE pipe' = pipe /\ ~(pipe' = Append(pipe, f))
    BY <1>2, <2>0, <2>2
  <2> QED BY <1>6, <2>1, <2>2
<1>8. FramesAreTrue'
  BY <1>1, <1>3, <1>5, <1>7 DEF FeedInv, FramesAreTrue
<1>9. JoinStands'
  <2>1. JoinStands
    BY DEF FeedInv
  <2>2. CASE pipe' = pipe
    BY <1>3, <2>1, <2>2 DEF JoinStands, NoJoin, Resting, Asked, InProgress, Refused, JoinAnswered, Joined
  <2>3. CASE session.member /\ pipe' = Append(pipe, f)
    <3>1. JoinAnswered => JoinAnswered'
      <4>1. Len(pipe') = Len(pipe) + 1 /\ Len(pipe) \in Nat /\ \A i \in 1..Len(pipe') : i = Len(pipe') \/ i \in 1..Len(pipe)
        BY <1>1, <1>2, <2>3
      <4>2. ASSUME JoinAnswered PROVE pipe' # <<>> /\ pipe'[1].t = "joined"
        BY <1>7, <4>2 DEF JoinAnswered
      <4>3. ASSUME JoinAnswered, NEW i \in 2..Len(pipe') PROVE pipe'[i].t \notin Answers
        <5>1. pipe'[i] = f \/ (i \in DOMAIN pipe /\ pipe'[i] = pipe[i])
          BY <1>2, <1>7, <4>1
        <5>2. i \in DOMAIN pipe => i \in 2..Len(pipe)
          BY <1>2
        <5> QED BY <1>1, <4>3, <5>1, <5>2 DEF JoinAnswered
      <4> QED BY <1>3, <4>2, <4>3 DEF JoinAnswered
    <3>2. Joined => Joined'
      <4>1. f.t # "joined"
        BY <1>1 DEF Answers
      <4> QED BY <1>3, <1>7, <4>1 DEF Joined
    <3>3. ~Resting /\ ~Asked /\ ~InProgress /\ ~Refused
      BY <2>3 DEF Resting, Asked, InProgress, Refused, NoJoin
    <3> QED BY <2>1, <3>1, <3>2, <3>3 DEF JoinStands
  <2> QED BY <1>6, <2>2, <2>3
<1>10. (UnderWay => UnderWay') /\ (InJoin => InJoin')
  BY <1>3, <1>5, <1>7 DEF UnderWay, InJoin, End
<1>11. /\ session.join # "none" /\ f.rev = End => InJoin'
       /\ session.member /\ pipe' = Feed!ToMember(<<f>>) /\ f.rev = End => UnderWay'
  BY <1>5, <1>7 DEF UnderWay, InJoin, End
<1> QED BY <1>3, <1>7, <1>8, <1>9, <1>10, <1>11

\* A state that the room was told of has been told.
LEMMA NewsKeeps ==
  ASSUME FeedInv, NEW f, IsNews(f), UNCHANGED <<story, owner, others, client, sub, lossy>>,
         session' = Feed!Buffered(f), pipe' \in {pipe, Feed!ToMember(<<f>>)},
         lastFull' = lastFull \/ (lastFull' = f.rev /\ (session.member => pipe' = Feed!ToMember(<<f>>))),
         session.member => (f.rev = End => pipe' = Feed!ToMember(<<f>>) \/ UnderWay),
         Elsewhere => Elsewhere' \/ f.rev = End,
         unsent' \subseteq unsent, replies' \subseteq replies, {observed, lost}' \subseteq 0..Len(story),
         refresh' \in [attempt : Nat, again : BOOLEAN, snap : 0..Len(story)]
  PROVE  FeedInv'
<1>1. /\ session' \in Sessions /\ pipe' \in Seq(Frames) /\ FramesAreTrue' /\ JoinStands'
      /\ session'.member = session.member /\ session'.join = session.join /\ session'.snap = session.snap
      /\ session'.held = session.held
      /\ UnderWay => UnderWay'
      /\ InJoin => InJoin'
      /\ session.join # "none" /\ f.rev = End => InJoin'
      /\ session.member /\ pipe' = Feed!ToMember(<<f>>) /\ f.rev = End => UnderWay'
  BY NewsIsHeard
<1>2. f.rev \in 0..Len(story) /\ Len(story) \in Nat
  BY DEF IsNews, True, Feed!Frame, FeedInv, FeedTypes, Story
<1>3. lastFull' \in 0..Len(story)
  BY <1>2 DEF FeedInv, FeedTypes
<1>4. refresh'.snap \in 0..Len(story) /\ refresh' \in [attempt : Nat, again : BOOLEAN, snap : Nat]
  BY <1>2
<1>5. session'.snap \in 0..Len(story) /\ session'.held \in 0..Len(story)
  BY <1>1 DEF FeedInv, FeedTypes
<1>6. FeedTypes'
  BY <1>1, <1>3, <1>4, <1>5 DEF FeedInv, FeedTypes, Frames
<1>7. EndIsKnown'
  <2>1. End' = End
    BY DEF End
  <2>2. ASSUME session.member PROVE (UnderWay' \/ Elsewhere') /\ (lastFull' = End => UnderWay')
    BY <1>1, <2>1, <2>2 DEF FeedInv, EndIsKnown
  <2>3. ASSUME session.join = "read" PROVE (InJoin' \/ Elsewhere') /\ (lastFull' = End => InJoin')
    BY <1>1, <2>1, <2>3 DEF FeedInv, EndIsKnown
  <2> QED BY <1>1, <2>1, <2>2, <2>3 DEF FeedInv, EndIsKnown
<1> QED BY <1>1, <1>6, <1>7 DEF FeedInv

\* What the gateway tells its room of, and what leaves it as it is.
Settled == [attempt : Nat, again : BOOLEAN, snap : 0..Len(story)]

\* The refresh that ends, repeats or retries is one of the shapes it can have.
LEMMA RefreshIs ==
  ASSUME FeedInv
  PROVE  /\ refresh \in Settled /\ Feed!NoRefresh \in Settled /\ Feed!Refreshed \in Settled /\ Feed!Retried \in Settled
         /\ [refresh EXCEPT !.again = TRUE] \in Settled /\ [refresh EXCEPT !.snap = Len(story)] \in Settled
         /\ [Feed!NoRefresh EXCEPT !.attempt = 1] \in Settled
<1>1. Len(story) \in Nat /\ 0 \in 0..Len(story) /\ Len(story) \in 0..Len(story)
  BY DEF FeedInv, FeedTypes, Story
<1>2. refresh \in Settled
  BY DEF FeedInv, FeedTypes, Settled
<1>3. Feed!NoRefresh \in Settled /\ [Feed!NoRefresh EXCEPT !.attempt = 1] \in Settled
  BY <1>1 DEF Feed!NoRefresh, Settled
<1>4. Feed!Refreshed \in Settled
  BY <1>3 DEF Feed!Refreshed
<1>5. [refresh EXCEPT !.attempt = refresh.attempt + 1, !.snap = 0] \in Settled
  <2>1. refresh.attempt + 1 \in Nat
    BY <1>2 DEF Settled
  <2> QED BY <1>1, <1>2, <2>1 DEF Settled
<1>6. Feed!Retried \in Settled
  BY <1>2, <1>4, <1>5 DEF Feed!Retried, Settled
<1>7. [refresh EXCEPT !.again = TRUE] \in Settled /\ [refresh EXCEPT !.snap = Len(story)] \in Settled
  BY <1>1, <1>2 DEF Settled
<1> QED BY <1>2, <1>3, <1>4, <1>6, <1>7

\* A snapshot of any revision is a true frame.
LEMMA StateIsNews ==
  ASSUME FeedInv, NEW r \in 1..Len(story)
  PROVE  IsNews(Feed!Frame("state", r)) /\ Feed!Frame("state", r).rev = r
<1>1. Len(story) \in Nat
  BY DEF FeedInv, FeedTypes, Story
<1> QED BY <1>1 DEF IsNews, Frames, True, Feed!Frame, Feed!FrameType, Answers

\* deliverState.
LEMMA DeliverKeeps ==
  ASSUME FeedInv, NEW r \in 1..Len(story), Feed!Deliver(r),
         UNCHANGED <<story, owner, unsent, sub, others, client, lost, lossy>>, replies' \subseteq replies,
         refresh' \in Settled
  PROVE  FeedInv'
<1> DEFINE f == Feed!Frame("state", r)
<1>1. IsNews(f) /\ f.rev = r
  BY StateIsNews
<1>2. {observed, lost, lastFull} \subseteq 0..Len(story) /\ Len(story) \in Nat
  BY DEF FeedInv, FeedTypes, Story
<1>3. Elsewhere => Elsewhere'
  BY DEF Elsewhere, End
<1>4. session' = Feed!Buffered(f) /\ observed' \in 0..Len(story)
  <2>1. CASE Feed!IsLocal
    BY <1>2, <2>1 DEF Feed!Deliver, Feed!Larger
  <2>2. CASE ~Feed!IsLocal
    BY <1>2, <2>2 DEF Feed!Deliver, Feed!Buffered, Feed!IsLocal
  <2> QED BY <2>1, <2>2
<1> HIDE DEF f
<1>5. CASE Feed!IsLocal /\ Feed!Room /\ r > lastFull
  <2>1. pipe' = Feed!ToMember(<<f>>) /\ lastFull' = f.rev
    BY <1>1, <1>5 DEF Feed!Deliver, f
  <2> QED BY <1>1, <1>2, <1>3, <1>4, <2>1, NewsKeeps DEF Settled
<1>6. CASE ~(Feed!IsLocal /\ Feed!Room /\ r > lastFull)
  <2>1. pipe' = pipe /\ lastFull' = lastFull
    BY <1>6 DEF Feed!Deliver
  <2>2. session.member => (f.rev = End => UnderWay)
    <3>1. ASSUME session.member, f.rev = End PROVE UnderWay
      <4>1. lastFull = End
        BY <1>1, <1>2, <1>6, <3>1 DEF Feed!IsLocal, Feed!Room, End
      <4> QED BY <3>1, <4>1 DEF FeedInv, EndIsKnown
    <3> QED BY <3>1
  <2> QED BY <1>1, <1>2, <1>3, <1>4, <2>1, <2>2, NewsKeeps DEF Settled
<1> QED BY <1>5, <1>6

\* Nothing is told.
LEMMA RestKeeps ==
  ASSUME FeedInv, UNCHANGED <<story, unsent, sub, others, client, session, observed, lastFull, pipe, lost, lossy>>,
         owner' \in {"here", "there"}, replies' \subseteq replies, refresh' \in Settled
  PROVE  FeedInv'
<1>1. refresh'.snap \in 0..Len(story) /\ refresh' \in [attempt : Nat, again : BOOLEAN, snap : Nat]
  BY DEF Settled
<1>2. FeedTypes'
  BY <1>1 DEF FeedInv, FeedTypes
<1>3. FramesAreTrue' /\ Sound(client, story)' /\ Alert(client)'
  BY DEF FeedInv, FramesAreTrue
<1>4. JoinStands'
  BY DEF FeedInv, JoinStands, NoJoin, Resting, Asked, InProgress, Refused, JoinAnswered, Joined
<1>5. EndIsKnown'
  BY DEF FeedInv, EndIsKnown, UnderWay, InJoin, Elsewhere, End
<1> QED BY <1>2, <1>3, <1>4, <1>5 DEF FeedInv

\* So do the owner's change, the replies and the refresh.
LEMMA RoomKeeps ==
  ASSUME FeedInv, Feed!ChangeOwner \/ Feed!Reply \/ Feed!RefreshRead \/ Feed!RefreshSettles \/ Feed!RefreshFails
  PROVE  FeedInv'
<1>1. Len(story) \in 1..Len(story) /\ replies \subseteq 1..Len(story) /\ refresh.snap \in 0..Len(story) /\ Len(story) \in Nat
      /\ owner \in {"here", "there"}
  BY DEF FeedInv, FeedTypes, Story
<1>2. /\ refresh \in Settled /\ Feed!NoRefresh \in Settled /\ Feed!Refreshed \in Settled /\ Feed!Retried \in Settled
      /\ [refresh EXCEPT !.again = TRUE] \in Settled /\ [refresh EXCEPT !.snap = Len(story)] \in Settled
      /\ [Feed!NoRefresh EXCEPT !.attempt = 1] \in Settled
  BY RefreshIs
<1>3. CASE Feed!ChangeOwner
  BY <1>2, <1>3, RestKeeps DEF Feed!ChangeOwner, Feed!roomVars, Feed!history
<1>4. CASE Feed!Reply
  <2>1. PICK r \in replies :
          /\ replies' = replies \ {r}
          /\ IF r >= observed THEN Feed!Deliver(r) /\ UNCHANGED refresh
             ELSE /\ refresh' = IF refresh.attempt > 0 THEN [refresh EXCEPT !.again = TRUE]
                                ELSE [Feed!NoRefresh EXCEPT !.attempt = 1]
                  /\ UNCHANGED <<session, observed, lastFull, pipe>>
    BY <1>4 DEF Feed!Reply
  <2>2. UNCHANGED <<story, owner, unsent, sub, others, client, lost, lossy>>
    BY <1>4 DEF Feed!Reply, Feed!gameVars, Feed!history
  <2>3. r \in 1..Len(story) /\ replies' \subseteq replies
    BY <1>1, <2>1
  <2>4. CASE r >= observed
    BY <1>2, <2>1, <2>2, <2>3, <2>4, DeliverKeeps
  <2>5. CASE ~(r >= observed)
    BY <1>1, <1>2, <2>1, <2>2, <2>3, <2>5, RestKeeps
  <2> QED BY <2>4, <2>5
<1>5. CASE Feed!RefreshRead
  <2>1. refresh' \in Settled
    BY <1>2, <1>5 DEF Feed!RefreshRead
  <2> QED BY <1>1, <1>5, <2>1, RestKeeps DEF Feed!RefreshRead, Feed!gameVars, Feed!roomVars, Feed!history
<1>6. CASE Feed!RefreshSettles
  <2>1. UNCHANGED <<story, owner, unsent, replies, sub, others, client, lost, lossy>>
    BY <1>6 DEF Feed!RefreshSettles, Feed!gameVars, Feed!history
  <2>2. refresh.snap \in 1..Len(story)
    BY <1>1, <1>6 DEF Feed!RefreshSettles
  <2>3. CASE Feed!IsLocal /\ refresh.snap >= observed
    BY <1>2, <1>6, <2>1, <2>2, <2>3, DeliverKeeps DEF Feed!RefreshSettles
  <2>4. CASE ~(Feed!IsLocal /\ refresh.snap >= observed)
    BY <1>1, <1>2, <1>6, <2>1, <2>4, RestKeeps DEF Feed!RefreshSettles
  <2> QED BY <2>3, <2>4
<1>7. CASE Feed!RefreshFails
  <2>1. UNCHANGED <<story, owner, unsent, replies, sub, others, client, lost, lossy>>
    BY <1>7 DEF Feed!RefreshFails, Feed!gameVars, Feed!history
  <2>2. CASE Feed!IsLocal /\ owner = "here" /\ Len(story) >= observed
    BY <1>1, <1>2, <1>7, <2>1, <2>2, DeliverKeeps DEF Feed!RefreshFails
  <2>3. CASE ~(Feed!IsLocal /\ owner = "here" /\ Len(story) >= observed)
    BY <1>1, <1>2, <1>7, <2>1, <2>3, RestKeeps DEF Feed!RefreshFails
  <2> QED BY <2>2, <2>3
<1> QED BY <1>3, <1>4, <1>5, <1>6, <1>7

\* A publication keeps the invariant, heard or lost.
LEMMA PublishKeeps ==
  ASSUME FeedInv, Feed!Publish
  PROVE  FeedInv'
<1>1. UNCHANGED <<story, owner, replies, sub, others, refresh, client>>
  BY DEF Feed!Publish
<1>2. PICK u \in unsent :
        /\ unsent' = unsent \ {u}
        /\ \/ Feed!IsLocal /\ Feed!Heed(Feed!FrameOf(u.rev)) /\ UNCHANGED <<lost, lossy>>
           \/ /\ \/ (~Feed!IsLocal \/ (u.by = "there" /\ sub # "ok")) /\ lossy' = lossy
                 \/ lossy' = TRUE
              /\ lost' = Feed!Larger(lost, u.rev)
              /\ UNCHANGED <<session, observed, lastFull, pipe>>
  BY DEF Feed!Publish, Feed!Fault
<1>3. /\ u.rev \in 2..Len(story) /\ Len(story) \in Nat /\ {observed, lost, lastFull} \subseteq 0..Len(story)
      /\ refresh \in Settled /\ story \in Seq(Feed!Kind) /\ owner \in {"here", "there"}
  BY <1>2, RefreshIs DEF FeedInv, FeedTypes, Story
<1>4. \A w \in unsent : w = u \/ w \in unsent'
  BY <1>2
<1> DEFINE f == Feed!FrameOf(u.rev)
<1>5. IsNews(f) /\ f.rev = u.rev
  <2>1. story[u.rev] # "created" /\ story[u.rev] \in Feed!Kind
    BY <1>3 DEF FeedInv, FeedTypes, Story
  <2>2. u.rev \in 1..Len(story) /\ u.rev \in Nat
    BY <1>3
  <2>3. CASE story[u.rev] \in {"offer", "decline"}
    <3>1. f = Feed!Frame("state", u.rev)
      BY <2>3 DEF Feed!FrameOf
    <3> QED BY <2>2, <3>1, StateIsNews
  <2>4. CASE story[u.rev] \notin {"offer", "decline"}
    <3>1. f = Feed!Frame(story[u.rev], u.rev)
      BY <2>4 DEF Feed!FrameOf
    <3>2. story[u.rev] \in {"ready", "move", "ended"}
      BY <2>1, <2>4 DEF Feed!Kind
    <3> HIDE DEF f
    <3> QED BY <2>2, <3>1, <3>2 DEF IsNews, Frames, True, Feed!Frame, Feed!FrameType, Answers
  <2> QED BY <2>3, <2>4
<1> HIDE DEF f
<1>6. CASE Feed!IsLocal /\ Feed!Heed(Feed!FrameOf(u.rev)) /\ UNCHANGED <<lost, lossy>>
  <2>1. session' = Feed!Buffered(f) /\ observed' \in 0..Len(story)
    BY <1>3, <1>5, <1>6 DEF Feed!Heed, Feed!Larger, f
  <2>2. Elsewhere => Elsewhere' \/ f.rev = End
    BY <1>1, <1>4, <1>5, <1>6 DEF Elsewhere, End
  <2>3. CASE Feed!Room /\ ~Feed!Overtaken(f)
    <3>1. pipe' = Feed!ToMember(<<f>>) /\ (lastFull' = lastFull \/ lastFull' = f.rev)
      BY <1>6, <2>3 DEF Feed!Heed, Feed!Larger, f
    <3> QED BY <1>1, <1>2, <1>3, <1>5, <1>6, <2>1, <2>2, <3>1, NewsKeeps DEF Settled
  <2>4. CASE ~(Feed!Room /\ ~Feed!Overtaken(f))
    <3>1. pipe' = pipe /\ lastFull' = lastFull
      BY <1>6, <2>4 DEF Feed!Heed, f
    <3>2. ASSUME session.member, f.rev = End PROVE UnderWay
      <4>1. lastFull = End
        BY <1>3, <1>5, <2>4, <3>2 DEF Feed!Room, Feed!Overtaken, End
      <4> QED BY <3>2, <4>1 DEF FeedInv, EndIsKnown
    <3> QED BY <1>1, <1>2, <1>3, <1>5, <1>6, <2>1, <2>2, <3>1, <3>2, NewsKeeps DEF Settled
  <2> QED BY <2>3, <2>4
<1>7. CASE /\ \/ (~Feed!IsLocal \/ (u.by = "there" /\ sub # "ok")) /\ lossy' = lossy
              \/ lossy' = TRUE
           /\ lost' = Feed!Larger(lost, u.rev)
           /\ UNCHANGED <<session, observed, lastFull, pipe>>
  <2>1. lost' \in 0..Len(story) /\ (lost = Len(story) => lost' = Len(story)) /\ (u.rev = Len(story) => lost' = Len(story))
    BY <1>3, <1>7 DEF Feed!Larger
  <2>2. FeedTypes'
    <3>1. lossy' \in BOOLEAN
      BY <1>7 DEF FeedInv, FeedTypes
    <3>2. UNCHANGED <<session, observed, lastFull, pipe>>
      BY <1>7
    <3> QED BY <1>1, <1>2, <1>3, <2>1, <3>1, <3>2 DEF FeedInv, FeedTypes
  <2>3. FramesAreTrue' /\ Sound(client, story)' /\ Alert(client)'
    BY <1>1, <1>7 DEF FeedInv, FramesAreTrue
  <2>4. JoinStands'
    BY <1>1, <1>7 DEF FeedInv, JoinStands, NoJoin, Resting, Asked, InProgress, Refused, JoinAnswered, Joined
  <2>5. ASSUME session.member \/ session.join = "read", Elsewhere PROVE Elsewhere'
    <3>1. lossy'
      BY <1>7, <2>5 DEF FeedInv, EndIsKnown, Feed!IsLocal, Feed!Room, Feed!Joining
    <3> QED BY <1>1, <1>4, <2>1, <2>5, <3>1 DEF Elsewhere, End
  <2>6. (UnderWay <=> UnderWay') /\ (InJoin <=> InJoin') /\ End' = End
    BY <1>1, <1>7 DEF UnderWay, InJoin, End
  <2>7. EndIsKnown'
    BY <1>1, <1>7, <2>5, <2>6 DEF FeedInv, EndIsKnown
  <2> QED BY <2>2, <2>3, <2>4, <2>7 DEF FeedInv
<1> QED BY <1>2, <1>6, <1>7

-----------------------------------------------------------------------------
(* The gateway's subscription, its joins and its resumes. *)

\* A join that the server works on is one the client is waiting for.
LEMMA WhereAJoinIs ==
  ASSUME FeedInv
  PROVE  /\ session.join # "none" => InProgress /\ client.awaiting /\ ~client.connected
         /\ session.resume # "none" => Joined /\ client.connected /\ ~client.awaiting
         /\ Feed!Requests("join") => Asked /\ client.awaiting /\ ~client.connected
         /\ Feed!Requests("resume") => Joined /\ client.connected /\ ~client.awaiting
         /\ session.member => (Joined /\ client.connected) \/ (JoinAnswered /\ client.awaiting)
<1>1. client.up \in Seq({"join", "resume"}) /\ client \in Clients
  BY DEF FeedInv, FeedTypes, Clients
<1>2. JoinStands
  BY DEF FeedInv
<1>3. session.join # "none" => InProgress /\ client.awaiting /\ ~client.connected
  BY <1>2 DEF JoinStands, NoJoin, Resting, Asked, InProgress, Refused, JoinAnswered, Joined
<1>4. session.resume # "none" => Joined /\ client.connected /\ ~client.awaiting
  BY <1>2 DEF JoinStands, NoJoin, Resting, Asked, InProgress, Refused, JoinAnswered
<1>5. ASSUME Feed!Requests("join") PROVE Asked /\ client.awaiting /\ ~client.connected
  <2>1. client.up # <<>> /\ client.up[1] = "join" /\ 1 \in DOMAIN client.up
    BY <1>1, <1>5 DEF Feed!Requests
  <2>2. ~Joined /\ ~Resting /\ ~InProgress /\ ~Refused /\ ~JoinAnswered
    BY <2>1 DEF Joined, Resting, InProgress, Refused, JoinAnswered
  <2> QED BY <1>2, <2>2 DEF JoinStands
<1>6. ASSUME Feed!Requests("resume") PROVE Joined /\ client.connected /\ ~client.awaiting
  <2>1. client.up # <<>> /\ client.up[1] = "resume"
    BY <1>1, <1>6 DEF Feed!Requests
  <2>2. ~Asked
    <3>1. <<"join">>[1] = "join"
      OBVIOUS
    <3> QED BY <2>1, <3>1 DEF Asked
  <2>3. ~Resting /\ ~InProgress /\ ~Refused /\ ~JoinAnswered
    BY <2>1 DEF Resting, InProgress, Refused, JoinAnswered
  <2> QED BY <1>2, <2>2, <2>3 DEF JoinStands
<1>7. session.member => (Joined /\ client.connected) \/ (JoinAnswered /\ client.awaiting)
  BY <1>2 DEF JoinStands, NoJoin, Resting, Asked, InProgress, Refused
<1> QED BY <1>3, <1>4, <1>5, <1>6, <1>7

\* A subscription that starts or ends keeps the invariant.
LEMMA SubscriptionKeeps ==
  ASSUME FeedInv, Feed!Subscribed \/ Feed!Unsubscribed
  PROVE  FeedInv'
<1>1. /\ UNCHANGED <<story, owner, unsent, replies, observed, lastFull, others, session, refresh, pipe, client, lost>>
      /\ (sub' = "ok" /\ lossy' = lossy) \/ (sub' = "waiting" /\ lossy' = TRUE)
  BY DEF Feed!Subscribed, Feed!Unsubscribed, Feed!gameVars, Feed!history
<1>2. FeedTypes'
  BY <1>1 DEF FeedInv, FeedTypes
<1>3. FramesAreTrue' /\ Sound(client, story)' /\ Alert(client)'
  BY <1>1 DEF FeedInv, FramesAreTrue
<1>4. JoinStands'
  BY <1>1 DEF FeedInv, JoinStands, NoJoin, Resting, Asked, InProgress, Refused, JoinAnswered, Joined
<1>5. (Elsewhere => Elsewhere') /\ (UnderWay <=> UnderWay') /\ (InJoin <=> InJoin') /\ End' = End
  BY <1>1 DEF Elsewhere, UnderWay, InJoin, End
<1>6. EndIsKnown'
  BY <1>1, <1>5 DEF FeedInv, EndIsKnown
<1> QED BY <1>2, <1>3, <1>4, <1>6 DEF FeedInv

\* The head of what was sent is taken.
LEMMA TakenIs ==
  ASSUME NEW c \in Clients, c.up # <<>>
  PROVE  LET d == [c EXCEPT !.up = Tail(@)]
         IN /\ d \in Clients /\ SameGame(c, d) /\ (Alert(c) => Alert(d)) /\ d.open = c.open /\ d.connected = c.connected
            /\ d.awaiting = c.awaiting /\ d.retry = c.retry /\ d.out = c.out /\ d.up = Tail(c.up)
<1> DEFINE d == [c EXCEPT !.up = Tail(c.up)]
<1>1. Tail(c.up) \in Seq({"join", "resume"})
  BY DEF Clients
<1>2. /\ d \in Clients /\ SameGame(c, d) /\ d.open = c.open /\ d.connected = c.connected /\ d.awaiting = c.awaiting
      /\ d.retry = c.retry /\ d.out = c.out /\ d.timer = c.timer /\ d.up = Tail(c.up)
  BY <1>1 DEF Clients, SameGame
<1>3. d = [c EXCEPT !.up = Tail(@)]
  BY DEF Clients
<1> HIDE DEF d
<1> QED BY <1>2, <1>3 DEF Alert, SameGame, Feed!InDebt

\* Starting a join keeps the invariant.
LEMMA StartJoinKeeps ==
  ASSUME FeedInv, Feed!StartJoin
  PROVE  FeedInv'
<1>1. /\ Asked /\ client.awaiting /\ ~client.connected /\ client \in Clients /\ session \in Sessions
      /\ client.up = <<"join">> /\ Story(story)
  BY WhereAJoinIs DEF Feed!StartJoin, FeedInv, FeedTypes, Asked
<1>2. /\ UNCHANGED <<story, owner, unsent, replies, observed, lastFull, others, refresh, pipe, lost, lossy>>
      /\ session' = [session EXCEPT !.join = "waiting", !.buffer = <<>>] /\ sub' \in {sub, "waiting"}
      /\ client' = [client EXCEPT !.up = Tail(@)]
  BY DEF Feed!StartJoin, Feed!gameVars, Feed!history, Feed!Taken
<1>3. /\ client' \in Clients /\ SameGame(client, client') /\ Alert(client') /\ client'.open = client.open
      /\ client'.connected = client.connected /\ client'.awaiting = client.awaiting /\ client'.up = <<>>
  <2>1. client.up # <<>> /\ Tail(client.up) = <<>>
    BY <1>1
  <2> QED BY <1>1, <1>2, <2>1, TakenIs DEF FeedInv
<1>4. <<>> \in Seq(Frames)
  OBVIOUS
<1>5. /\ session' \in Sessions /\ session'.join = "waiting" /\ session'.member = session.member
      /\ session'.resume = session.resume /\ session'.snap = session.snap /\ session'.held = session.held
      /\ session'.buffer = <<>>
  BY <1>1, <1>2, <1>4 DEF Sessions, Frames
<1>6. FeedTypes'
  BY <1>2, <1>3, <1>5 DEF FeedInv, FeedTypes
<1>7. FramesAreTrue'
  BY <1>2, <1>5 DEF FeedInv, FramesAreTrue
<1>8. InProgress'
  BY <1>1, <1>2, <1>3, <1>5 DEF Asked, InProgress, NoJoin
<1>9. JoinStands'
  BY <1>1, <1>3, <1>8 DEF FeedInv, JoinStands
<1>10. EndIsKnown'
  BY <1>1, <1>5 DEF EndIsKnown, Asked, NoJoin
<1>11. Sound(client, story)'
  BY <1>1, <1>2, <1>3, SameGameKeeps DEF FeedInv
<1> QED BY <1>3, <1>6, <1>7, <1>9, <1>10, <1>11 DEF FeedInv

\* A join that reads the log keeps it: it has the log's end, or the buffer will.
LEMMA JoinReadsKeeps ==
  ASSUME FeedInv, Feed!JoinReads
  PROVE  FeedInv'
<1>1. InProgress /\ client.awaiting /\ ~client.connected /\ session \in Sessions /\ Len(story) \in Nat /\ Len(story) > 0
  BY WhereAJoinIs DEF Feed!JoinReads, FeedInv, FeedTypes, Story
<1>2. /\ UNCHANGED <<story, owner, unsent, replies, sub, observed, lastFull, others, refresh, pipe, client, lost>>
      /\ session' = [session EXCEPT !.join = "read", !.snap = Len(story)] /\ lossy' = (sub # "ok")
  BY DEF Feed!JoinReads, Feed!gameVars, Feed!roomVars
<1>3. /\ session' \in Sessions /\ session'.join = "read" /\ session'.member = session.member
      /\ session'.resume = session.resume /\ session'.snap = Len(story) /\ session'.held = session.held
      /\ session'.buffer = session.buffer
  BY <1>1, <1>2 DEF Sessions
<1>4. FeedTypes'
  BY <1>1, <1>2, <1>3 DEF FeedInv, FeedTypes
<1>5. FramesAreTrue'
  BY <1>1, <1>2, <1>3 DEF FeedInv, FramesAreTrue
<1>6. InProgress'
  BY <1>1, <1>2, <1>3 DEF InProgress
<1>7. JoinStands'
  BY <1>1, <1>2, <1>6 DEF FeedInv, JoinStands
<1>8. EndIsKnown'
  BY <1>1, <1>2, <1>3 DEF EndIsKnown, InProgress, InJoin, End
<1> QED BY <1>2, <1>4, <1>5, <1>7, <1>8 DEF FeedInv

\* A join that completes keeps it: what is buffered beyond its snapshot follows it.
LEMMA CompleteJoinKeeps ==
  ASSUME FeedInv, Feed!CompleteJoin
  PROVE  FeedInv'
<1> DEFINE kept == Feed!Newer(session.buffer, session.snap)
           first == Feed!Frame("joined", session.snap)
<1>1. /\ InProgress /\ client.awaiting /\ ~client.connected /\ session \in Sessions /\ pipe = <<>> /\ client.up = <<>>
      /\ Len(story) \in Nat /\ session.snap \in 1..Len(story) /\ session.join = "read" /\ session.resume = "none"
  BY WhereAJoinIs DEF Feed!CompleteJoin, FeedInv, FeedTypes, FramesAreTrue, Story, InProgress
<1>2. /\ UNCHANGED <<story, owner, unsent, replies, sub, lastFull, others, refresh, client, lost, lossy>>
      /\ session' = [session EXCEPT !.join = "none", !.snap = 0, !.buffer = <<>>, !.member = TRUE]
      /\ observed' = Feed!Larger(observed, session.snap)
      /\ pipe' = pipe \o <<first>> \o kept
  BY DEF Feed!CompleteJoin, Feed!gameVars, Feed!history
<1>3. <<>> \in Seq(Frames)
  OBVIOUS
<1>4. /\ session' \in Sessions /\ session'.join = "none" /\ session'.member = TRUE
      /\ session'.resume = session.resume /\ session'.snap = 0 /\ session'.held = session.held /\ session'.buffer = <<>>
  BY <1>1, <1>2, <1>3 DEF Sessions, Frames
<1>5. session.buffer \in Seq(Frames) /\ session.snap \in Nat
  BY <1>1 DEF Sessions, Frames
<1>6. /\ kept \in Seq(Frames) /\ \A k \in DOMAIN kept : \E i \in DOMAIN session.buffer : kept[k] = session.buffer[i]
      /\ \A i \in DOMAIN session.buffer :
           session.buffer[i].rev > session.snap => \E k \in DOMAIN kept : kept[k] = session.buffer[i]
  BY <1>5, NewerIs DEF Frames
<1>7. first \in Frames /\ True(first, story) /\ first.t = "joined" /\ first.rev = session.snap
  BY <1>1, <1>5 DEF Frames, True, Feed!Frame, Feed!FrameType
<1> HIDE DEF Frames, kept, first
<1>8. /\ pipe' \in Seq(Frames) /\ Len(pipe') = 1 + Len(kept) /\ Len(kept) \in Nat /\ pipe'[1] = first
      /\ \A i \in 2..Len(pipe') : pipe'[i] = kept[i - 1] /\ i - 1 \in DOMAIN kept
      /\ \A k \in DOMAIN kept : pipe'[k + 1] = kept[k] /\ k + 1 \in DOMAIN pipe'
      /\ 1 \in DOMAIN pipe' /\ \A i \in DOMAIN pipe' : i = 1 \/ i \in 2..Len(pipe')
  <2>1. pipe \o <<first>> = <<first>>
    BY <1>1, <1>7
  <2>2. pipe' = <<first>> \o kept
    BY <1>2, <2>1
  <2> QED BY <1>6, <1>7, <2>2
<1>9. \A i \in 2..Len(pipe') : True(pipe'[i], story) /\ pipe'[i].t \notin Answers
  BY <1>6, <1>8 DEF FeedInv, FramesAreTrue
<1>10. FramesAreTrue'
  BY <1>1, <1>2, <1>4, <1>7, <1>8, <1>9 DEF FramesAreTrue
<1>11. FeedTypes'
  <2>1. observed' \in 0..Len(story)
    BY <1>1, <1>2 DEF Feed!Larger, FeedInv, FeedTypes
  <2> QED BY <1>1, <1>2, <1>4, <1>8, <2>1 DEF FeedInv, FeedTypes, Frames
<1>12. JoinAnswered'
  <2>1. pipe' # <<>>
    BY <1>8
  <2> QED BY <1>1, <1>2, <1>4, <1>7, <1>8, <1>9, <2>1 DEF JoinAnswered
<1>13. JoinStands'
  BY <1>1, <1>2, <1>12 DEF FeedInv, JoinStands
<1>14. InJoin => UnderWay'
  <2>1. End' = End /\ End = Len(story) /\ \A i \in DOMAIN session.buffer : session.buffer[i].rev \in Nat
    <3>1. \A i \in DOMAIN session.buffer : session.buffer[i] \in Frames
      BY <1>5
    <3> QED BY <1>2, <3>1 DEF End, Frames
  <2>2. CASE session.snap = End
    BY <1>7, <1>8, <2>1, <2>2 DEF UnderWay
  <2>3. CASE session.snap # End /\ \E i \in DOMAIN session.buffer : session.buffer[i].rev = End
    <3>1. PICK i \in DOMAIN session.buffer : session.buffer[i].rev = End
      BY <2>3
    <3>2. session.buffer[i].rev > session.snap
      BY <1>1, <2>1, <2>3, <3>1
    <3>3. PICK k \in DOMAIN kept : kept[k] = session.buffer[i]
      BY <1>6, <3>2
    <3> QED BY <1>8, <2>1, <3>1, <3>3 DEF UnderWay
  <2> QED BY <2>2, <2>3 DEF InJoin
<1>15. EndIsKnown'
  <2>1. (Elsewhere => Elsewhere') /\ End' = End
    BY <1>2 DEF Elsewhere, End
  <2> QED BY <1>1, <1>2, <1>4, <1>14, <2>1 DEF FeedInv, EndIsKnown
<1>16. Sound(client, story)' /\ Alert(client)'
  BY <1>2 DEF FeedInv
<1> QED BY <1>10, <1>11, <1>13, <1>15, <1>16 DEF FeedInv

\* A join that fails keeps it: the client is told.
LEMMA JoinFailsKeeps ==
  ASSUME FeedInv, Feed!JoinFails
  PROVE  FeedInv'
<1> DEFINE refusal == Feed!Frame("reject", 0)
<1>1. /\ InProgress /\ client.awaiting /\ ~client.connected /\ session \in Sessions /\ pipe = <<>> /\ client.up = <<>>
      /\ Len(story) \in Nat /\ session.resume = "none" /\ ~session.member
  BY WhereAJoinIs DEF Feed!JoinFails, FeedInv, FeedTypes, Story, InProgress
<1>2. /\ UNCHANGED <<story, owner, unsent, replies, others, refresh, client, lost, lossy>>
      /\ session' = [session EXCEPT !.join = "none", !.snap = 0, !.buffer = <<>>]
      /\ pipe' = Append(pipe, refusal)
      /\ UNCHANGED <<sub, observed, lastFull>> \/ (sub' = "none" /\ observed' = 0 /\ lastFull' = 0)
  BY DEF Feed!JoinFails, Feed!Left, Feed!gameVars, Feed!roomVars, Feed!history
<1>3. <<>> \in Seq(Frames) /\ refusal \in Frames /\ True(refusal, story)
  BY DEF Frames, True, Feed!Frame, Feed!FrameType
<1>4. /\ session' \in Sessions /\ session'.join = "none" /\ session'.member = session.member
      /\ session'.resume = session.resume /\ session'.snap = 0 /\ session'.held = session.held /\ session'.buffer = <<>>
  BY <1>1, <1>2, <1>3 DEF Sessions, Frames
<1> HIDE DEF Frames, refusal
<1>5. pipe' = <<refusal>> /\ pipe' \in Seq(Frames) /\ (\A i \in DOMAIN pipe' : pipe'[i] = refusal)
  BY <1>1, <1>2, <1>3
<1>6. FeedTypes'
  BY <1>1, <1>2, <1>4, <1>5 DEF FeedInv, FeedTypes, Frames
<1>7. FramesAreTrue'
  BY <1>1, <1>2, <1>3, <1>4, <1>5 DEF FeedInv, FramesAreTrue
<1>8. Refused'
  BY <1>1, <1>2, <1>4, <1>5 DEF Refused, NoJoin, refusal
<1>9. JoinStands'
  BY <1>1, <1>2, <1>8 DEF FeedInv, JoinStands
<1>10. EndIsKnown'
  BY <1>1, <1>4 DEF EndIsKnown
<1>11. Sound(client, story)' /\ Alert(client)'
  BY <1>2 DEF FeedInv
<1> QED BY <1>6, <1>7, <1>9, <1>10, <1>11 DEF FeedInv

\* Starting a resume keeps the invariant.
LEMMA StartResumeKeeps ==
  ASSUME FeedInv, Feed!StartResume
  PROVE  FeedInv'
<1>1. /\ Joined /\ client.connected /\ ~client.awaiting /\ client \in Clients /\ session \in Sessions
      /\ client.up # <<>> /\ Len(story) \in Nat /\ client.up \in Seq({"join", "resume"})
  BY WhereAJoinIs DEF Feed!StartResume, Feed!Requests, FeedInv, FeedTypes, Story, Clients
<1>2. /\ UNCHANGED <<story, owner, unsent, replies, sub, observed, lastFull, others, refresh, pipe, lost, lossy>>
      /\ session' = [session EXCEPT !.resume = "reading", !.held = 0]
      /\ client' = [client EXCEPT !.up = Tail(@)]
  BY DEF Feed!StartResume, Feed!gameVars, Feed!roomVars, Feed!history, Feed!Taken
<1>3. /\ client' \in Clients /\ SameGame(client, client') /\ Alert(client') /\ client'.open = client.open
      /\ client'.connected = client.connected /\ client'.awaiting = client.awaiting /\ client'.up = Tail(client.up)
  BY <1>1, <1>2, TakenIs DEF FeedInv
<1>4. /\ session' \in Sessions /\ session'.join = session.join /\ session'.member = session.member
      /\ session'.resume = "reading" /\ session'.snap = session.snap /\ session'.held = 0
      /\ session'.buffer = session.buffer
  BY <1>1, <1>2 DEF Sessions
<1>5. FeedTypes'
  BY <1>1, <1>2, <1>3, <1>4 DEF FeedInv, FeedTypes
<1>6. FramesAreTrue'
  BY <1>2, <1>4 DEF FeedInv, FramesAreTrue
<1>7. Joined'
  <2>1. \A i \in DOMAIN client'.up : client'.up[i] = "resume"
    BY <1>1, <1>3 DEF Joined
  <2> QED BY <1>1, <1>2, <1>4, <2>1 DEF Joined
<1>8. JoinStands'
  BY <1>1, <1>3, <1>7 DEF FeedInv, JoinStands
<1>9. Sound(client, story)' /\ Reach(client') = Reach(client)
  BY <1>1, <1>2, <1>3, SameGameKeeps DEF FeedInv
<1>10. EndIsKnown'
  BY <1>2, <1>4, <1>9 DEF FeedInv, EndIsKnown, UnderWay, InJoin, Elsewhere, End
<1> QED BY <1>3, <1>5, <1>6, <1>8, <1>9, <1>10 DEF FeedInv

\* A resume that reads the log keeps it.
LEMMA ResumeReadsKeeps ==
  ASSUME FeedInv, Feed!ResumeReads
  PROVE  FeedInv'
<1>1. /\ Joined /\ client.connected /\ ~client.awaiting /\ session \in Sessions /\ Len(story) \in Nat /\ Len(story) > 0
  BY WhereAJoinIs DEF Feed!ResumeReads, FeedInv, FeedTypes, Story
<1>2. /\ UNCHANGED <<story, owner, unsent, replies, sub, observed, lastFull, others, refresh, pipe, client, lost, lossy>>
      /\ session' = [session EXCEPT !.resume = "read", !.held = Len(story)]
  BY DEF Feed!ResumeReads, Feed!gameVars, Feed!roomVars, Feed!history
<1>3. /\ session' \in Sessions /\ session'.join = session.join /\ session'.member = session.member
      /\ session'.resume = "read" /\ session'.snap = session.snap /\ session'.held = Len(story)
      /\ session'.buffer = session.buffer
  BY <1>1, <1>2 DEF Sessions
<1>4. FeedTypes'
  BY <1>1, <1>2, <1>3 DEF FeedInv, FeedTypes
<1>5. FramesAreTrue'
  BY <1>1, <1>2, <1>3 DEF FeedInv, FramesAreTrue
<1>6. JoinStands'
  BY <1>1, <1>2, <1>3 DEF FeedInv, JoinStands, Joined
<1>7. EndIsKnown'
  BY <1>2, <1>3 DEF FeedInv, EndIsKnown, UnderWay, InJoin, Elsewhere, End
<1> QED BY <1>2, <1>4, <1>5, <1>6, <1>7 DEF FeedInv

\* A resume that is answered, or fails, keeps it.
LEMMA ResumeEndsKeeps ==
  ASSUME FeedInv, Feed!SendResumed \/ Feed!ResumeFails
  PROVE  FeedInv'
<1>1. /\ Joined /\ client.connected /\ ~client.awaiting /\ session \in Sessions /\ Len(story) \in Nat
      /\ session.held \in 0..Len(story) /\ pipe \in Seq(Frames)
  BY WhereAJoinIs DEF Feed!SendResumed, Feed!ResumeFails, FeedInv, FeedTypes, Story, Frames
<1>2. UNCHANGED <<story, owner, unsent, replies, sub, observed, lastFull, others, refresh, client, lost, lossy>>
  BY DEF Feed!SendResumed, Feed!ResumeFails, Feed!gameVars, Feed!roomVars, Feed!history
<1>3. /\ session' \in Sessions /\ session'.join = session.join /\ session'.member = session.member
      /\ session'.resume = "none" /\ session'.snap = session.snap /\ session'.held \in 0..Len(story)
      /\ session'.buffer = session.buffer
  <2>1. CASE Feed!SendResumed
    <3>1. session' = [session EXCEPT !.resume = "none", !.held = 0]
      BY <2>1 DEF Feed!SendResumed
    <3>2. 0 \in 0..Len(story)
      BY <1>1
    <3>3. /\ session' \in Sessions /\ session'.join = session.join /\ session'.member = session.member
          /\ session'.resume = "none" /\ session'.snap = session.snap /\ session'.held = 0
          /\ session'.buffer = session.buffer
      BY <1>1, <3>1 DEF Sessions
    <3> QED BY <3>2, <3>3
  <2>2. CASE Feed!ResumeFails
    <3>1. session' = [session EXCEPT !.resume = "none"]
      BY <2>2 DEF Feed!ResumeFails
    <3> QED BY <1>1, <3>1 DEF Sessions
  <2> QED BY <2>1, <2>2
<1>4. PICK f \in Frames : True(f, story) /\ f.t # "joined" /\ pipe' = Append(pipe, f)
  <2>1. CASE Feed!SendResumed
    <3>1. session.held \in 1..Len(story)
      BY <1>1, <2>1 DEF Feed!SendResumed, FeedInv, FramesAreTrue
    <3>2. LET f == Feed!Frame("resumed", session.held) IN f \in Frames /\ True(f, story) /\ f.t # "joined"
      BY <1>1, <3>1 DEF Frames, True, Feed!Frame, Feed!FrameType
    <3> QED BY <2>1, <3>2 DEF Feed!SendResumed
  <2>2. CASE Feed!ResumeFails
    <3>1. LET f == Feed!Frame("reject", 0) IN f \in Frames /\ True(f, story) /\ f.t # "joined"
      BY DEF Frames, True, Feed!Frame, Feed!FrameType
    <3> QED BY <2>2, <3>1 DEF Feed!ResumeFails
  <2> QED BY <2>1, <2>2
<1> HIDE DEF Frames
<1>5. /\ pipe' \in Seq(Frames) /\ \A i \in DOMAIN pipe : i \in DOMAIN pipe' /\ pipe'[i] = pipe[i]
      /\ \A i \in DOMAIN pipe' : pipe'[i] = f \/ (i \in DOMAIN pipe /\ pipe'[i] = pipe[i])
  BY <1>1, <1>4
<1>6. FeedTypes'
  BY <1>1, <1>2, <1>3, <1>5 DEF FeedInv, FeedTypes, Frames
<1>7. FramesAreTrue'
  BY <1>2, <1>3, <1>4, <1>5 DEF FeedInv, FramesAreTrue
<1>8. Joined'
  BY <1>1, <1>2, <1>3, <1>4, <1>5 DEF Joined
<1>9. JoinStands'
  BY <1>1, <1>2, <1>8 DEF FeedInv, JoinStands
<1>10. (UnderWay => UnderWay') /\ (InJoin <=> InJoin') /\ (Elsewhere <=> Elsewhere') /\ End' = End
  BY <1>2, <1>3, <1>5 DEF UnderWay, InJoin, Elsewhere, End
<1>11. EndIsKnown'
  BY <1>2, <1>3, <1>10 DEF FeedInv, EndIsKnown
<1> QED BY <1>2, <1>6, <1>7, <1>9, <1>11 DEF FeedInv

-----------------------------------------------------------------------------
(* The browser. *)

\* A board never goes back.
LEMMA OnwardIs ==
  ASSUME FeedInv, client' \in Clients, Onward(client, client')
  PROVE  Feed!NeverGoesBack
<1>1. client.screen.moves \in Seq(Nat) /\ client'.screen.moves \in Seq(Nat)
  BY DEF FeedInv, FeedTypes, Clients, Screens
<1> QED BY <1>1, BeginsWith DEF Onward, Feed!NeverGoesBack

\* Nor does one whose screen stands.
LEMMA SameScreenIs ==
  ASSUME FeedInv, client'.screen = client.screen, client'.floor = client.floor
  PROVE  Feed!NeverGoesBack
<1>1. client.screen.moves \in Seq(Nat) /\ client.floor \in Nat
  BY DEF FeedInv, FeedTypes, Clients, Screens
<1> QED BY <1>1, BeginsWith DEF Feed!NeverGoesBack

\* What is heard leaves the client sound, and its revision reached.
LEMMA HeardKeeps ==
  ASSUME NEW g, Story(g), NEW c \in Clients, Sound(c, g), NEW f, True(f, g), f.t \notin Answers, c.connected
  PROVE  Hears(c, Feed!Heard(c, g, f), g, f.rev)
<1>1. f.t # "joined" /\ f.t # "reject" /\ f.t \in Feed!FrameType /\ f.rev \in 1..Len(g)
      /\ (f.t \in {"ready", "move", "ended"} => g[f.rev] = f.t)
  BY DEF True, Answers, Feed!Frame
<1>2. CASE f.t \in {"state", "resumed"}
  <2>1. Feed!Heard(c, g, f) = Feed!OnSnapshot(c, g, f.rev)
    BY <1>1, <1>2 DEF Feed!Heard
  <2> QED BY <1>1, <2>1, OnSnapshotKeeps
<1>3. CASE f.t = "move"
  <2>1. Feed!Heard(c, g, f) = Feed!OnMove(c, g, f.rev)
    BY <1>1, <1>3 DEF Feed!Heard
  <2> QED BY <1>1, <1>3, <2>1, OnMoveKeeps
<1>4. CASE f.t = "ready"
  <2>1. Feed!Heard(c, g, f) = Feed!OnReady(c, g, f.rev)
    BY <1>1, <1>4 DEF Feed!Heard
  <2> QED BY <1>1, <1>4, <2>1, OnReadyKeeps
<1>5. CASE f.t = "ended"
  <2>1. Feed!Heard(c, g, f) = Feed!OnEnded(c, g, f.rev)
    BY <1>1, <1>5 DEF Feed!Heard
  <2> QED BY <1>1, <1>5, <2>1, OnEndedKeeps
<1> QED BY <1>1, <1>2, <1>3, <1>4, <1>5 DEF Feed!FrameType

\* The two answers of a join go to their own handlers.
LEMMA AnswerIs ==
  ASSUME NEW c, NEW g, NEW f
  PROVE  /\ f.t = "joined" => Feed!Heard(c, g, f) = Feed!OnJoined(c, g, f.rev)
         /\ f.t = "reject" => Feed!Heard(c, g, f) = Feed!OnReject(c)
BY DEF Feed!Heard

\* Hearing the oldest frame of the pipe keeps the invariant, and the screen goes onward.
LEMMA HearKeeps ==
  ASSUME FeedInv, Feed!Hear
  PROVE  FeedInv' /\ Feed!NeverGoesBack
<1> DEFINE f == Head(pipe)
           d == Feed!Heard(client, story, f)
<1>1. /\ pipe # <<>> /\ client' = d /\ pipe' = Tail(pipe)
      /\ UNCHANGED <<story, owner, unsent, replies, sub, observed, lastFull, others, session, refresh, lost, lossy>>
  BY DEF Feed!Hear, Feed!restOfClient, Feed!gameVars, Feed!roomVars, Feed!history
<1>2. /\ pipe \in Seq(Frames) /\ client \in Clients /\ Story(story) /\ Sound(client, story) /\ Alert(client)
      /\ session \in Sessions /\ Len(story) \in Nat /\ Len(story) > 0 /\ client.up \in Seq({"join", "resume"})
  BY DEF FeedInv, FeedTypes, Frames, Story, Clients
<1> HIDE DEF Frames, d
<1>3. /\ f = pipe[1] /\ 1 \in DOMAIN pipe /\ pipe' \in Seq(Frames) /\ Len(pipe) \in Nat /\ Len(pipe') = Len(pipe) - 1
      /\ \A i \in DOMAIN pipe' : i + 1 \in 2..Len(pipe) /\ i + 1 \in DOMAIN pipe /\ pipe'[i] = pipe[i + 1]
      /\ \A i \in DOMAIN pipe : i = 1 \/ (i - 1 \in DOMAIN pipe' /\ pipe'[i - 1] = pipe[i])
  BY <1>1, <1>2
<1> HIDE DEF f
<1>4. True(f, story)
  BY <1>3 DEF FeedInv, FramesAreTrue
<1>5. FramesAreTrue'
  BY <1>1, <1>3 DEF FeedInv, FramesAreTrue
\* It is enough to know where the join stands, and that the revision is reached.
<1>6. ASSUME client' \in Clients, Sound(client', story), Onward(client, client'), Alert(client'), JoinStands',
             session.member => (f.rev = End => Reach(client') = End)
      PROVE  FeedInv' /\ Feed!NeverGoesBack
  <2>1. FeedTypes'
    BY <1>1, <1>3, <1>6 DEF FeedInv, FeedTypes, Frames
  <2>2. Reach(client) = End => Reach(client') = End
    <3>1. Reach(client) \in Nat /\ Reach(client') \in Nat
      BY <1>2, <1>6, ReachIs
    <3> QED BY <1>2, <1>6, <3>1 DEF Onward, Sound, End
  <2>3. (Elsewhere <=> Elsewhere') /\ (InJoin <=> InJoin') /\ End' = End
    BY <1>1 DEF Elsewhere, InJoin, End
  <2>4. session.member /\ UnderWay => UnderWay'
    <3>1. ASSUME session.member, NEW i \in DOMAIN pipe, pipe[i].rev = End PROVE UnderWay'
      <4>1. CASE i = 1
        BY <1>3, <1>6, <2>3, <3>1, <4>1 DEF UnderWay
      <4>2. CASE i - 1 \in DOMAIN pipe' /\ pipe'[i - 1] = pipe[i]
        BY <2>3, <3>1, <4>2 DEF UnderWay
      <4> QED BY <1>3, <4>1, <4>2
    <3> QED BY <2>2, <2>3, <3>1 DEF UnderWay
  <2>5. EndIsKnown'
    BY <1>1, <2>3, <2>4 DEF FeedInv, EndIsKnown
  <2> QED BY <1>1, <1>5, <1>6, <2>1, <2>5, OnwardIs DEF FeedInv
<1>7. CASE client.awaiting /\ f.t = "joined"
  <2>1. ~client.connected /\ JoinAnswered
    BY <1>3, <1>7 DEF FeedInv, JoinStands, Asked, InProgress, Refused, JoinAnswered, Feed!Frame
  <2>2. f.rev \in 1..Len(story)
    BY <1>4, <1>7 DEF True, Feed!Frame
  <2>3. d = Feed!OnJoined(client, story, f.rev)
    BY <1>7, AnswerIs DEF d
  <2>4. /\ Carries(client, d, story) /\ f.rev <= Reach(d) /\ d.connected /\ ~d.awaiting
        /\ d.up = client.up \/ d.up = Append(client.up, "resume")
        /\ client.open => Alert(d)
    BY <1>2, <1>7, <2>1, <2>2, <2>3, OnJoinedKeeps
  <2>5. client.open /\ client.up = <<>>
    BY <1>7, <2>1 DEF FeedInv, JoinStands, JoinAnswered
  <2>6. \A i \in DOMAIN d.up : d.up[i] = "resume"
    <3>1. d.up = <<>> \/ d.up = <<"resume">>
      BY <2>4, <2>5
    <3>2. CASE d.up = <<>>
      BY <3>2
    <3>3. CASE d.up = <<"resume">>
      BY <3>3
    <3> QED BY <3>1, <3>2, <3>3
  <2>7. Joined'
    BY <1>1, <1>3, <2>1, <2>6 DEF JoinAnswered, Joined, Answers
  <2>8. JoinStands'
    BY <1>1, <2>4, <2>5, <2>7 DEF JoinStands, Carries
  <2>9. f.rev = End => Reach(d) = End
    BY <1>2, <2>2, <2>4, ReachIs DEF Carries, Sound, End
  <2> QED BY <1>1, <1>6, <2>4, <2>5, <2>8, <2>9 DEF Carries
<1>8. CASE client.awaiting /\ f.t # "joined"
  <2>1. ~client.connected /\ Refused /\ f.t = "reject" /\ client.open
    <3>1. pipe[1].t = f.t
      BY <1>3
    <3> QED BY <1>1, <1>8, <3>1 DEF FeedInv, JoinStands, Asked, InProgress, Refused, JoinAnswered, Feed!Frame
  <2>2. d = Feed!OnReject(client)
    BY <2>1, AnswerIs DEF d
  <2>3. /\ d \in Clients /\ SameGame(client, d) /\ d.open = client.open /\ ~d.connected /\ ~d.awaiting
        /\ d.up = client.up /\ (d.retry \/ d.out) /\ Alert(d)
    BY <1>2, <1>8, <2>2, OnRejectKeeps
  <2>4. Sound(d, story) /\ Onward(client, d)
    BY <1>2, <2>3, SameGameKeeps
  <2>5. pipe' = <<>>
    BY <1>1, <2>1 DEF Refused
  <2>6. JoinStands'
    BY <1>1, <2>1, <2>3, <2>5 DEF JoinStands, Resting, Refused, NoJoin
  <2> QED BY <1>1, <1>6, <2>1, <2>3, <2>4, <2>6 DEF Refused, NoJoin
<1>9. CASE ~client.awaiting
  <2>1. client.connected /\ client.open /\ Joined
    BY <1>1, <1>9 DEF FeedInv, JoinStands, Resting
  <2>2. f.t # "joined"
    BY <1>3, <2>1 DEF Joined
  <2>3. CASE f.t = "reject"
    <3>1. d = client
      BY <1>2, <1>9, <2>3, OnRejectKeeps DEF Feed!Heard, d
    <3>2. f.rev = 0
      BY <1>4, <2>3 DEF True, Feed!Frame
    <3>3. Onward(client, client)
      BY <1>2, SameGameKeeps DEF SameGame
    <3>4. Joined'
      BY <1>1, <1>3, <2>1, <3>1 DEF Joined
    <3>5. JoinStands'
      BY <1>1, <1>9, <2>1, <3>1, <3>4 DEF JoinStands
    <3> QED BY <1>1, <1>2, <1>6, <3>1, <3>2, <3>3, <3>5 DEF End
  <2>4. CASE f.t # "reject"
    <3>1. Hears(client, d, story, f.rev)
      <4>1. f.t \notin Answers
        BY <2>2, <2>4 DEF Answers
      <4> QED BY <1>2, <1>4, <2>1, <4>1, HeardKeeps DEF d
    <3>2. \A i \in DOMAIN d.up : d.up[i] = "resume"
      <4>1. CASE d.up = client.up
        BY <2>1, <4>1 DEF Joined
      <4>2. CASE d.up = Append(client.up, "resume")
        BY <1>2, <2>1, <4>2 DEF Joined
      <4> QED BY <3>1, <4>1, <4>2 DEF Hears
    <3>3. Joined'
      BY <1>1, <1>3, <2>1, <3>2 DEF Joined
    <3>4. JoinStands'
      BY <1>1, <1>9, <2>1, <3>1, <3>3 DEF JoinStands, Hears, Keeps, Carries
    <3>5. f.rev = End => Reach(d) = End
      BY <1>2, <3>1, ReachIs DEF Hears, Keeps, Carries, Sound, End
    <3> QED BY <1>1, <1>2, <1>6, <2>1, <3>1, <3>4, <3>5 DEF Hears, Keeps, Carries
  <2> QED BY <2>3, <2>4
<1> QED BY <1>7, <1>8, <1>9

\* The socket opens or is lost, a timer runs out, or the player asks.
LEMMA SameGameFeeds ==
  ASSUME FeedInv, client' \in Clients, SameGame(client, client'), Alert(client'), JoinStands',
         UNCHANGED <<story, owner, unsent, replies, sub, observed, lastFull, others, session, refresh, pipe, lost, lossy>>
  PROVE  FeedInv' /\ Feed!NeverGoesBack
<1>1. Sound(client', story) /\ Reach(client') = Reach(client)
  BY SameGameKeeps DEF FeedInv, FeedTypes
<1>2. FeedTypes'
  BY DEF FeedInv, FeedTypes
<1>3. FramesAreTrue'
  BY DEF FeedInv, FramesAreTrue
<1>4. EndIsKnown'
  BY <1>1 DEF FeedInv, EndIsKnown, UnderWay, InJoin, Elsewhere, End
<1>5. Feed!NeverGoesBack
  BY SameScreenIs DEF SameGame
<1> QED BY <1>1, <1>2, <1>3, <1>4, <1>5 DEF FeedInv

\* A connection keeps the invariant.
LEMMA ConnectKeeps ==
  ASSUME FeedInv, Feed!Connect
  PROVE  FeedInv' /\ Feed!NeverGoesBack
<1>1. /\ ~client.open /\ client' = Feed!Opened(client)
      /\ UNCHANGED <<story, owner, unsent, replies, sub, observed, lastFull, others, session, refresh, pipe, lost, lossy>>
  BY DEF Feed!Connect, Feed!restOfClient, Feed!gameVars, Feed!roomVars, Feed!history
<1>2. client \in Clients /\ ~client.connected /\ ~client.awaiting /\ Resting
  BY <1>1 DEF FeedInv, FeedTypes, JoinStands
<1>3. /\ client' \in Clients /\ SameGame(client, client') /\ client'.open /\ ~client'.connected /\ client'.awaiting
      /\ client'.up = <<"join">>
  <2>1. Append(client.up, "join") = <<"join">>
    BY <1>2 DEF Resting
  <2> QED BY <1>1, <1>2, <2>1, SocketIs
<1>4. Asked'
  BY <1>1, <1>2, <1>3 DEF Resting, Asked, NoJoin
<1>5. JoinStands' /\ Alert(client')
  BY <1>3, <1>4 DEF JoinStands, Alert
<1> QED BY <1>1, <1>3, <1>5, SameGameFeeds

\* So do the timers and the player's retry.
LEMMA TimerKeeps ==
  ASSUME FeedInv, Feed!Timer \/ Feed!PlayerRetries
  PROVE  FeedInv' /\ Feed!NeverGoesBack
<1>1. UNCHANGED <<story, owner, unsent, replies, sub, observed, lastFull, others, session, refresh, pipe, lost, lossy>>
  BY DEF Feed!Timer, Feed!PlayerRetries, Feed!restOfClient, Feed!gameVars, Feed!roomVars, Feed!history
<1>2. /\ client \in Clients /\ Alert(client) /\ (client.connected => client.open) /\ JoinStands
      /\ client.open /\ ~client.connected => client.awaiting \/ client.retry \/ client.out
      /\ client.up \in Seq({"join", "resume"})
  BY DEF FeedInv, FeedTypes, JoinStands, Clients
<1>3. Proceeds(client, client')
  BY <1>2, TimersProceed DEF Feed!Timer, Feed!PlayerRetries
<1>4. CASE client'.awaiting = client.awaiting /\ client'.up = client.up
  <2>1. JoinStands'
    BY <1>1, <1>2, <1>3, <1>4 DEF Proceeds, JoinStands, NoJoin, Resting, Asked, InProgress, Refused, JoinAnswered, Joined
  <2> QED BY <1>1, <1>3, <2>1, SameGameFeeds DEF Proceeds
<1>5. CASE client'.awaiting = client.awaiting /\ client.connected /\ client'.up = Append(client.up, "resume")
  <2>1. Joined /\ ~client.awaiting
    BY <1>2, <1>5 DEF JoinStands
  <2>2. \A i \in DOMAIN client'.up : client'.up[i] = "resume"
    BY <1>2, <1>5, <2>1 DEF Joined
  <2>3. Joined'
    BY <1>1, <2>1, <2>2 DEF Joined
  <2>4. JoinStands'
    BY <1>2, <1>3, <1>5, <2>1, <2>3 DEF Proceeds, JoinStands
  <2> QED BY <1>1, <1>3, <2>4, SameGameFeeds DEF Proceeds
<1>6. CASE /\ client.open /\ ~client.connected /\ ~client.awaiting /\ client'.awaiting
           /\ client'.up = Append(client.up, "join")
  <2>1. Resting
    BY <1>2, <1>6 DEF JoinStands
  <2>2. client'.up = <<"join">>
    BY <1>6, <2>1 DEF Resting
  <2>3. Asked'
    BY <1>1, <2>1, <2>2 DEF Resting, Asked, NoJoin
  <2>4. JoinStands'
    BY <1>3, <1>6, <2>3 DEF Proceeds, JoinStands
  <2> QED BY <1>1, <1>3, <2>4, SameGameFeeds DEF Proceeds
<1> QED BY <1>3, <1>4, <1>5, <1>6 DEF Proceeds

\* A disconnection keeps it: the pipe is gone, and the client's gap is not.
LEMMA DisconnectKeeps ==
  ASSUME FeedInv, Feed!Disconnect
  PROVE  FeedInv' /\ Feed!NeverGoesBack
<1>1. /\ client' = Feed!Dropped(client) /\ session' = Feed!NoSession /\ pipe' = <<>>
      /\ UNCHANGED <<story, owner, unsent, replies, others, refresh, lost, lossy>>
      /\ UNCHANGED <<sub, observed, lastFull>> \/ (sub' = "none" /\ observed' = 0 /\ lastFull' = 0)
  BY DEF Feed!Disconnect, Feed!Left, Feed!gameVars, Feed!roomVars, Feed!history
<1>2. client \in Clients /\ Len(story) \in Nat /\ Sound(client, story)
  BY DEF FeedInv, FeedTypes, Story
<1>3. /\ client' \in Clients /\ SameGame(client, client') /\ ~client'.open /\ ~client'.connected /\ ~client'.awaiting
      /\ client'.up = <<>>
  BY <1>1, <1>2, SocketIs
<1>4. <<>> \in Seq(Frames)
  OBVIOUS
<1>5. /\ session' \in Sessions /\ session'.join = "none" /\ ~session'.member /\ session'.resume = "none"
      /\ session'.snap = 0 /\ session'.held = 0 /\ session'.buffer = <<>>
  BY <1>1, <1>4 DEF Sessions, Frames, Feed!NoSession
<1>6. FeedTypes'
  BY <1>1, <1>2, <1>3, <1>4, <1>5 DEF FeedInv, FeedTypes, Frames
<1>7. FramesAreTrue'
  BY <1>1, <1>5 DEF FramesAreTrue
<1>8. JoinStands'
  BY <1>1, <1>3, <1>5 DEF JoinStands, Resting, NoJoin
<1>9. EndIsKnown'
  BY <1>5 DEF EndIsKnown
<1>10. Sound(client', story)
  BY <1>2, <1>3, SameGameKeeps
<1>11. Alert(client')
  BY <1>3 DEF Alert
<1>12. Feed!NeverGoesBack
  BY <1>3, SameScreenIs DEF SameGame
<1> QED BY <1>1, <1>6, <1>7, <1>8, <1>9, <1>10, <1>11, <1>12 DEF FeedInv

-----------------------------------------------------------------------------
(* The browser's feed is true. *)

\* The invariant holds at the start.
LEMMA FeedBegins ==
  ASSUME Feed!Init
  PROVE  FeedInv
<1>1. /\ story = <<"created">> /\ unsent = {} /\ replies = {} /\ others \in BOOLEAN /\ owner \in {"here", "there"}
      /\ sub \in {"none", "waiting"} /\ session = Feed!NoSession /\ observed = 0 /\ lastFull = 0
      /\ refresh = Feed!NoRefresh /\ pipe = <<>> /\ client = Feed!NewClient /\ lost = 0 /\ lossy = FALSE
  BY DEF Feed!Init
<1>2. Story(story) /\ Len(story) = 1
  BY <1>1 DEF Story, Feed!Kind
<1>3. <<>> \in Seq(Frames) /\ <<>> \in Seq({"join", "resume"}) /\ <<>> \in Seq(Nat)
  OBVIOUS
<1>4. /\ session \in Sessions /\ session.join = "none" /\ ~session.member /\ session.resume = "none"
      /\ session.snap = 0 /\ session.held = 0 /\ session.buffer = <<>>
  BY <1>1, <1>3 DEF Sessions, Frames, Feed!NoSession
<1>5. refresh \in [attempt : Nat, again : BOOLEAN, snap : Nat] /\ refresh.snap = 0
  BY <1>1 DEF Feed!NoRefresh
<1>6. /\ client.open = FALSE /\ client.connected = FALSE /\ client.awaiting = FALSE /\ client.up = <<>>
      /\ client.screen = Feed!Blank /\ client.floor = 0 /\ client.debtRev = 0 /\ client.debtPly = 0
      /\ client \in Clients
  <2>1. Feed!Blank \in Screens
    BY <1>3 DEF Screens, Feed!Blank
  <2> QED BY <1>1, <1>3, <2>1 DEF Feed!NewClient, Clients, Timers
<1>7. FeedTypes
  <2>1. {observed, lastFull, lost, refresh.snap, session.snap, session.held} \subseteq 0..Len(story)
    <3>1. 0 \in 0..Len(story)
      BY <1>2
    <3> QED BY <1>1, <1>4, <1>5, <3>1
  <2>2. unsent \subseteq [rev : 2..Len(story), by : {"here", "there"}] /\ replies \subseteq 1..Len(story)
    BY <1>1
  <2>3. pipe \in Seq([t : Feed!FrameType, rev : Nat])
    BY <1>1, <1>3 DEF Frames
  <2>4. lossy \in BOOLEAN /\ sub \in {"none", "waiting", "ok"}
    BY <1>1
  <2> QED BY <1>1, <1>2, <1>4, <1>5, <1>6, <2>1, <2>2, <2>3, <2>4 DEF FeedTypes
<1>8. FramesAreTrue
  BY <1>1, <1>4 DEF FramesAreTrue
<1>9. JoinStands
  BY <1>1, <1>4, <1>6 DEF JoinStands, Resting, NoJoin
<1>10. EndIsKnown
  BY <1>4 DEF EndIsKnown
<1>11. Sound(client, story)
  <2>1. Reach(client) = 0
    BY <1>6 DEF Reach, Feed!Larger
  <2>2. /\ client.screen.moves = <<>> /\ client.screen.over = FALSE /\ client.screen.ready = {} /\ client.screen.offer = FALSE
    BY <1>6 DEF Feed!Blank
  <2>3. \A k : Feed!At(story, 0, k) = {}
    BY DEF Feed!At
  <2>4. /\ Feed!View(story, 0).moves \in Seq(Nat) /\ Feed!View(story, 0).moves = Played(story, 0)
        /\ (Feed!View(story, 0).over <=> Feed!At(story, 0, "ended") # {})
        /\ Feed!View(story, 0).ready = Feed!At(story, 0, "ready") /\ Feed!View(story, 0).over \in BOOLEAN
        /\ Len(Played(story, 0)) = Feed!Ply(story, 0) /\ 0 \in 0..Len(story)
    BY <1>2, ViewIs DEF Story, Screens
  <2>5. Feed!Ply(story, 0) = 0
    BY <2>3, FeedCounts, FS_EmptySet DEF Feed!Ply
  <2>6. Feed!View(story, 0).moves = <<>>
    BY <2>4, <2>5
  <2>7. ~Feed!View(story, 0).offer
    BY <2>3 DEF Feed!View
  <2>8. Feed!View(story, 0).offer = FALSE
    BY <1>2, <2>4, <2>7, ViewIs DEF Story, Screens
  <2>9. Begins(<<>>, <<>>)
    BY DEF Begins
  <2>10. Feed!View(story, 0).over = FALSE /\ Feed!View(story, 0).ready = {}
    BY <2>3, <2>4
  <2>11. Shows(client, story)
    BY <1>6, <2>2, <2>6, <2>8, <2>10 DEF Shows
  <2>12. Reach(client) <= Len(story) /\ Begins(client.screen.moves, Feed!View(story, client.floor).moves)
    BY <1>2, <1>6, <2>1, <2>2, <2>6, <2>9
  <2> QED BY <2>2, <2>11, <2>12 DEF Sound
<1>12. Alert(client)
  BY <1>6 DEF Alert
<1> QED BY <1>7, <1>8, <1>9, <1>10, <1>11, <1>12 DEF FeedInv

\* Every step keeps it, and no step goes back.
LEMMA FeedGoesOn ==
  ASSUME FeedInv, [Feed!Next]_(Feed!vars)
  PROVE  FeedInv' /\ [Feed!NeverGoesBack]_(Feed!vars)
<1>1. CASE Feed!Play \/ Feed!Negotiate
  <2>1. UNCHANGED client
    BY <1>1 DEF Feed!Play, Feed!Negotiate, Feed!Commit
  <2> QED BY <1>1, <2>1, GameKeeps, SameScreenIs
<1>2. CASE Feed!ChangeOwner \/ Feed!Reply \/ Feed!RefreshRead \/ Feed!RefreshSettles \/ Feed!RefreshFails
  <2>1. UNCHANGED client
    BY <1>2 DEF Feed!ChangeOwner, Feed!Reply, Feed!RefreshRead, Feed!RefreshSettles, Feed!RefreshFails
  <2> QED BY <1>2, <2>1, RoomKeeps, SameScreenIs
<1>3. CASE Feed!Publish
  <2>1. UNCHANGED client
    BY <1>3 DEF Feed!Publish
  <2> QED BY <1>3, <2>1, PublishKeeps, SameScreenIs
<1>4. CASE Feed!Subscribed \/ Feed!Unsubscribed
  <2>1. UNCHANGED client
    BY <1>4 DEF Feed!Subscribed, Feed!Unsubscribed
  <2> QED BY <1>4, <2>1, SubscriptionKeeps, SameScreenIs
<1>5. CASE Feed!JoinReads \/ Feed!CompleteJoin \/ Feed!JoinFails \/ Feed!ResumeReads \/ Feed!SendResumed \/ Feed!ResumeFails
  <2>1. UNCHANGED client
    BY <1>5 DEF Feed!JoinReads, Feed!CompleteJoin, Feed!JoinFails, Feed!ResumeReads, Feed!SendResumed, Feed!ResumeFails
  <2> QED BY <1>5, <2>1, JoinReadsKeeps, CompleteJoinKeeps, JoinFailsKeeps, ResumeReadsKeeps, ResumeEndsKeeps, SameScreenIs
<1>6. CASE Feed!StartJoin \/ Feed!StartResume
  <2>1. client'.screen = client.screen /\ client'.floor = client.floor
    <3>1. client' = [client EXCEPT !.up = Tail(@)] /\ client \in Clients
      BY <1>6 DEF Feed!StartJoin, Feed!StartResume, Feed!Taken, FeedInv, FeedTypes
    <3> QED BY <3>1 DEF Clients
  <2> QED BY <1>6, <2>1, StartJoinKeeps, StartResumeKeeps, SameScreenIs
<1>7. CASE Feed!Hear \/ Feed!Connect \/ Feed!Disconnect \/ Feed!Timer \/ Feed!PlayerRetries
  BY <1>7, HearKeeps, ConnectKeeps, DisconnectKeeps, TimerKeeps
<1>8. CASE UNCHANGED Feed!vars
  <2>1. UNCHANGED <<story, owner, unsent, replies, sub, others, session, observed, lastFull, refresh, pipe, client, lost, lossy>>
    BY <1>8 DEF Feed!vars
  <2>2. owner' \in {"here", "there"} /\ refresh' \in Settled
    BY <2>1, RefreshIs DEF FeedInv, FeedTypes
  <2> QED BY <1>8, <2>1, <2>2, RestKeeps
<1> QED BY <1>1, <1>2, <1>3, <1>4, <1>5, <1>6, <1>7, <1>8 DEF Feed!Next

\* The invariant says what FeedIsTrue does of a state.
LEMMA FeedShows ==
  ASSUME FeedInv
  PROVE  Feed!ScreenIsTheGame /\ Feed!NothingIsMissed /\ Feed!NothingIsForgotten
<1>1. /\ client \in Clients /\ Story(story) /\ Sound(client, story) /\ Alert(client) /\ story \in Seq(Feed!Kind)
      /\ Len(story) \in Nat /\ client.floor \in 0..Len(story) /\ JoinStands
  BY ReachIs DEF FeedInv, FeedTypes, Story, Sound, Clients
<1>2. Feed!ScreenIsTheGame
  <2>1. Len(story) \in 0..Len(story) /\ client.floor <= Len(story)
    BY <1>1
  <2>2. Begins(Feed!View(story, client.floor).moves, Feed!View(story, Len(story)).moves)
    BY <1>1, <2>1, ViewGrows
  <2>3. /\ client.screen.moves \in Seq(Nat) /\ Feed!View(story, client.floor).moves \in Seq(Nat)
        /\ Feed!View(story, Len(story)).moves \in Seq(Nat)
    BY <1>1, <2>1, ViewIs DEF Clients, Screens
  <2>4. Begins(client.screen.moves, Feed!View(story, Len(story)).moves)
    BY <1>1, <2>2, <2>3, BeginsWith DEF Sound
  <2>5. Feed!IsPrefix(client.screen.moves, Feed!View(story, Len(story)).moves)
    BY <2>3, <2>4, BeginsWith
  <2>6. ~Feed!InDebt(client) => Shows(client, story)
    BY <1>1 DEF Sound
  <2> QED BY <2>1, <2>5, <2>6 DEF Feed!ScreenIsTheGame, Shows
<1>3. Feed!NothingIsMissed
  <2>1. ASSUME client.connected, pipe = <<>>, unsent = {}, client.floor # Len(story), ~Feed!InDebt(client)
        PROVE  lossy /\ lost = Len(story)
    <3>1. session.member
      BY <1>1, <2>1 DEF JoinStands, Joined
    <3>2. Reach(client) # End
      BY <1>1, <2>1 DEF Feed!InDebt, Reach, Feed!Larger, End, Clients
    <3>3. ~UnderWay
      BY <2>1, <3>2 DEF UnderWay
    <3> QED BY <2>1, <3>1, <3>3 DEF FeedInv, EndIsKnown, Elsewhere, End
  <2> QED BY <2>1 DEF Feed!NothingIsMissed
<1>4. Feed!NothingIsForgotten
  <2>1. ASSUME client.awaiting
        PROVE  \/ Feed!Joining \/ \E i \in DOMAIN client.up : client.up[i] = "join"
               \/ \E i \in DOMAIN pipe : pipe[i].t \in {"joined", "reject"}
    <3>1. CASE Asked
      <4>1. 1 \in DOMAIN <<"join">> /\ <<"join">>[1] = "join"
        OBVIOUS
      <4> QED BY <3>1, <4>1 DEF Asked
    <3>2. CASE InProgress
      BY <3>2 DEF InProgress, Feed!Joining
    <3>3. CASE Refused
      <4>1. LET f == Feed!Frame("reject", 0) IN 1 \in DOMAIN <<f>> /\ <<f>>[1].t = "reject"
        BY DEF Feed!Frame
      <4> QED BY <3>3, <4>1 DEF Refused
    <3>4. CASE JoinAnswered
      <4>1. pipe \in Seq(Frames)
        BY DEF FeedInv, FeedTypes, Frames
      <4>2. 1 \in DOMAIN pipe
        <5> HIDE DEF Frames
        <5> QED BY <3>4, <4>1 DEF JoinAnswered
      <4> QED BY <3>4, <4>2 DEF JoinAnswered
    <3> QED BY <1>1, <2>1, <3>1, <3>2, <3>3, <3>4 DEF JoinStands
  <2> QED BY <1>1, <2>1 DEF Feed!NothingIsForgotten, Alert, JoinStands
<1> QED BY <1>2, <1>3, <1>4

(* A browser's screen is the game, for every log, order of the frames, and *)
(* number of lost subscriptions, publications, sockets and reads: what it  *)
(* shows is what was played, it never goes back, and a revision that it    *)
(* does not have is on its way, is being repaired or asked of the player,  *)
(* or is the last one and was lost between the owner and the gateway.      *)
THEOREM FeedFollows == Feed!Spec => FeedIsTrue
<1>1. Feed!Init => FeedInv
  BY FeedBegins
<1>2. FeedInv /\ [Feed!Next]_(Feed!vars) => FeedInv' /\ [Feed!NeverGoesBack]_(Feed!vars)
  BY FeedGoesOn
<1>3. FeedInv => Feed!ScreenIsTheGame /\ Feed!NothingIsMissed /\ Feed!NothingIsForgotten
  BY FeedShows
<1> QED BY <1>1, <1>2, <1>3, PTL DEF Feed!Spec, FeedIsTrue, Feed!FeedIsTrue
=============================================================================

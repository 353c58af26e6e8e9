--------------------------- MODULE FencedStoreProofs ---------------------------
(***************************************************************************)
(* What the event log and its readers promise, for any number of games,    *)
(* processes, transactions and batches: FencedStore, the store that is to  *)
(* keep the log, with leases of any length; and Readers, the appliers of   *)
(* ratings and the projectors that follow it.                              *)
(***************************************************************************)
EXTENDS FencedStore, Readers, SequenceTheorems, FiniteSetTheorems, WellFoundedInduction, TLAPS

-----------------------------------------------------------------------------
(* The fenced store. *)

-----------------------------------------------------------------------------
(* The inductive invariant. *)

States  == {"sent", "held", "committing", "committed", "gone"}
Told4   == {"waiting", "ok", "rejected", "unknown"}
Request == [intent : Intent, op : Ops, epoch : Nat, db : Nat, head : Nat,
            state : States, reply : Told4]
Written == [epoch : Nat, owner : Intent, db : Nat, call : Nat]

Shapes ==
  /\ control \in Nat
  /\ grant \in [epoch : Nat, owner : Intent \cup {None}, db : Nat, left : Nat]
  /\ log \in Seq(Written) /\ call \in Seq(Request)
  /\ granted \in SUBSET [epoch : Nat, owner : Intent]

\* A transaction between its statement and its end holds the row.
Holding(c) == call[c].state \in {"held", "committing"}

\* One transaction holds the row at a time.
OneHolder == \A c, d \in DOMAIN call : Holding(c) /\ Holding(d) => c = d

\* What a call found when its statement ran still holds at its COMMIT, but for
\* the lease, which may have lapsed.
HolderIsCurrent ==
  \A c \in DOMAIN call : Holding(c) =>
    /\ call[c].db = control
    /\ call[c].op = "create" => call[c].epoch = 0 /\ grant.epoch = 0 /\ log = <<>>
    /\ call[c].op = "acquire" => (Active /\ Mine(c)) \/ grant.epoch = call[c].epoch
    /\ call[c].op \in {"append", "renew", "release"} =>
         grant.epoch = call[c].epoch /\ grant.owner = call[c].intent
    /\ call[c].op = "append" => log # <<>>

\* A creation is sent without an epoch, and no append with an empty log.
SentWell ==
  \A c \in DOMAIN call : /\ call[c].op = "create" => call[c].epoch = 0
                         /\ call[c].op = "append" => call[c].head > 0
                         /\ Holding(c) => call[c].reply \in {"waiting", "unknown"}
                         /\ call[c].state = "sent" => call[c].reply = "waiting"

\* The grant in force was granted, and so was its epoch alone.
GrantIsKnown == Active => [epoch |-> grant.epoch, owner |-> grant.owner] \in granted

\* No entry is ahead of the grant or of the database.
LogIsBehind == \A k \in DOMAIN log : log[k].epoch <= grant.epoch /\ log[k].db <= control

IInv == /\ Shapes /\ OneHolder /\ HolderIsCurrent /\ SentWell /\ GrantIsKnown /\ LogIsBehind
        /\ EpochsAreUnique /\ WritersAreFenced /\ RepliesAreTrue

-----------------------------------------------------------------------------
(* Lemmas about the record of calls. *)

\* A field of one call is set.
LEMMA FieldSet ==
  ASSUME NEW s \in Seq(Request), NEW c \in DOMAIN s, NEW st \in States, NEW rp \in Told4
  PROVE  /\ [s EXCEPT ![c].state = st] \in Seq(Request)
         /\ [s EXCEPT ![c].state = st][c] = [s[c] EXCEPT !.state = st]
         /\ [s EXCEPT ![c].reply = rp] \in Seq(Request)
         /\ [s EXCEPT ![c].reply = rp][c] = [s[c] EXCEPT !.reply = rp]
         /\ DOMAIN [s EXCEPT ![c].state = st] = DOMAIN s
         /\ DOMAIN [s EXCEPT ![c].reply = rp] = DOMAIN s
         /\ \A d \in DOMAIN s : d # c => /\ [s EXCEPT ![c].state = st][d] = s[d]
                                         /\ [s EXCEPT ![c].reply = rp][d] = s[d]
<1>1. c \in 1..Len(s) /\ DOMAIN s = 1..Len(s) /\ s[c] \in Request
  BY LenProperties, ElementOfSeq
<1> DEFINE u == [s[c] EXCEPT !.state = st]
           v == [s[c] EXCEPT !.reply = rp]
<1>2. u \in Request /\ v \in Request
  BY <1>1 DEF Request
<1>3. [s EXCEPT ![c].state = st] = [s EXCEPT ![c] = u] /\ [s EXCEPT ![c].reply = rp] = [s EXCEPT ![c] = v]
  OBVIOUS
<1> HIDE DEF u, v
<1>4. [s EXCEPT ![c] = u] \in Seq(Request) /\ [s EXCEPT ![c] = v] \in Seq(Request)
  BY <1>1, <1>2, ExceptSeq
<1>5. /\ DOMAIN [s EXCEPT ![c] = u] = DOMAIN s /\ DOMAIN [s EXCEPT ![c] = v] = DOMAIN s
      /\ [s EXCEPT ![c] = u][c] = u /\ [s EXCEPT ![c] = v][c] = v
      /\ \A d \in DOMAIN s : d # c => [s EXCEPT ![c] = u][d] = s[d] /\ [s EXCEPT ![c] = v][d] = s[d]
  BY <1>1
<1> QED
  BY <1>3, <1>4, <1>5 DEF u, v

\* Call c is now as described, and the other calls are as before.
CallIs(c, st, rp) ==
  /\ call' \in Seq(Request) /\ DOMAIN call' = DOMAIN call
  /\ call'[c].state = st /\ call'[c].reply = rp
  /\ \A d \in DOMAIN call :
       /\ call'[d].intent = call[d].intent /\ call'[d].op = call[d].op
       /\ call'[d].epoch = call[d].epoch /\ call'[d].db = call[d].db /\ call'[d].head = call[d].head
       /\ d # c => call'[d].state = call[d].state /\ call'[d].reply = call[d].reply

LEMMA CallTypes ==
  ASSUME Shapes, NEW c \in DOMAIN call
  PROVE  /\ call[c] \in Request /\ call[c].intent \in Intent /\ call[c].op \in Ops
         /\ call[c].epoch \in Nat /\ call[c].db \in Nat /\ call[c].head \in Nat
         /\ call[c].state \in States /\ call[c].reply \in Told4 /\ c \in Nat
<1>1. call[c] \in Request /\ c \in Nat
  BY LenProperties, ElementOfSeq DEF Shapes
<1> QED
  BY <1>1 DEF Request

LEMMA StateSet ==
  ASSUME Shapes, NEW c \in DOMAIN call, NEW st \in States, call' = [call EXCEPT ![c].state = st]
  PROVE  CallIs(c, st, call[c].reply)
<1>1. call \in Seq(Request)
  BY DEF Shapes
<1>2. /\ call' \in Seq(Request) /\ DOMAIN call' = DOMAIN call /\ call'[c] = [call[c] EXCEPT !.state = st]
      /\ \A d \in DOMAIN call : d # c => call'[d] = call[d]
  <2>1. "waiting" \in Told4
    BY DEF Told4
  <2> QED
    BY <1>1, <2>1, FieldSet
<1>3. call[c] \in Request
  BY CallTypes
<1>4. /\ call'[c].state = st /\ call'[c].reply = call[c].reply /\ call'[c].intent = call[c].intent
      /\ call'[c].op = call[c].op /\ call'[c].epoch = call[c].epoch /\ call'[c].db = call[c].db
      /\ call'[c].head = call[c].head
  BY <1>2, <1>3 DEF Request
<1> QED
  BY <1>2, <1>4 DEF CallIs

LEMMA ReplySet ==
  ASSUME Shapes, NEW c \in DOMAIN call, NEW rp \in Told4, call' = [call EXCEPT ![c].reply = rp]
  PROVE  CallIs(c, call[c].state, rp)
<1>1. call \in Seq(Request)
  BY DEF Shapes
<1>2. /\ call' \in Seq(Request) /\ DOMAIN call' = DOMAIN call /\ call'[c] = [call[c] EXCEPT !.reply = rp]
      /\ \A d \in DOMAIN call : d # c => call'[d] = call[d]
  <2>1. "sent" \in States
    BY DEF States
  <2> QED
    BY <1>1, <2>1, FieldSet
<1>3. call[c] \in Request
  BY CallTypes
<1>4. /\ call'[c].state = call[c].state /\ call'[c].reply = rp /\ call'[c].intent = call[c].intent
      /\ call'[c].op = call[c].op /\ call'[c].epoch = call[c].epoch /\ call'[c].db = call[c].db
      /\ call'[c].head = call[c].head
  BY <1>2, <1>3 DEF Request
<1> QED
  BY <1>2, <1>4 DEF CallIs

LEMMA BothSet ==
  ASSUME Shapes, NEW c \in DOMAIN call, NEW st \in States, NEW rp \in Told4,
         call' = [call EXCEPT ![c].state = st, ![c].reply = rp]
  PROVE  CallIs(c, st, rp)
<1> DEFINE u == [call EXCEPT ![c].state = st]
<1>1. call \in Seq(Request)
  BY DEF Shapes
<1>2. /\ u \in Seq(Request) /\ DOMAIN u = DOMAIN call /\ u[c] = [call[c] EXCEPT !.state = st]
      /\ \A d \in DOMAIN call : d # c => u[d] = call[d]
  BY <1>1, FieldSet
<1>3. call' = [u EXCEPT ![c].reply = rp]
  OBVIOUS
<1> HIDE DEF u
<1>4. /\ call' \in Seq(Request) /\ DOMAIN call' = DOMAIN call /\ call'[c] = [u[c] EXCEPT !.reply = rp]
      /\ \A d \in DOMAIN call : d # c => call'[d] = call[d]
  <2>1. c \in DOMAIN u
    BY <1>2
  <2>2. /\ [u EXCEPT ![c].reply = rp] \in Seq(Request)
        /\ [u EXCEPT ![c].reply = rp][c] = [u[c] EXCEPT !.reply = rp]
        /\ DOMAIN [u EXCEPT ![c].reply = rp] = DOMAIN u
        /\ \A d \in DOMAIN u : d # c => [u EXCEPT ![c].reply = rp][d] = u[d]
    BY <1>2, <2>1, FieldSet
  <2> QED
    BY <1>2, <1>3, <2>2
<1>5. call[c] \in Request
  BY CallTypes
<1>6. /\ call'[c].state = st /\ call'[c].reply = rp /\ call'[c].intent = call[c].intent
      /\ call'[c].op = call[c].op /\ call'[c].epoch = call[c].epoch /\ call'[c].db = call[c].db
      /\ call'[c].head = call[c].head
  BY <1>2, <1>4, <1>5 DEF Request
<1> QED
  BY <1>4, <1>6 DEF CallIs

-----------------------------------------------------------------------------
(* The steps that change no more than the record of calls. *)

LEMMA SendStep ==
  ASSUME IInv, NEW i \in Intent, NEW op \in Ops, NEW epoch \in Nat, NEW db \in Nat, NEW head \in Nat,
         Send(i, op, epoch, db, head),
         op = "create" => epoch = 0, op = "append" => head > 0
  PROVE  IInv'
<1> DEFINE r == [intent |-> i, op |-> op, epoch |-> epoch, db |-> db, head |-> head,
                 state |-> "sent", reply |-> "waiting"]
           n == Len(call) + 1
<1>1. r \in Request
  BY DEF Request, States, Told4
<1>2. call \in Seq(Request) /\ Len(call) \in Nat /\ DOMAIN call = 1..Len(call)
  BY LenProperties DEF IInv, Shapes
<1>3. UNCHANGED <<control, grant, log, granted>> /\ call' = Append(call, r)
  BY DEF Send
<1>4. r.op = op /\ r.epoch = epoch /\ r.head = head /\ r.state = "sent" /\ r.reply = "waiting"
  OBVIOUS
<1> HIDE DEF r
<1>5. /\ call' \in Seq(Request) /\ DOMAIN call' = 1..n /\ call'[n] = r
      /\ \A c \in DOMAIN call : call'[c] = call[c]
  BY <1>1, <1>2, <1>3, AppendProperties, LenProperties
<1>6. \A c \in DOMAIN call' : c \in DOMAIN call \/ c = n
  BY <1>2, <1>5
<1> HIDE DEF n
<1>7. \A c \in DOMAIN call' : Holding(c)' => c \in DOMAIN call /\ Holding(c)
  BY <1>4, <1>5, <1>6 DEF Holding
<1>8. Shapes'
  BY <1>3, <1>5 DEF IInv, Shapes
<1>9. OneHolder'
  BY <1>7 DEF IInv, OneHolder
<1>10. HolderIsCurrent'
  BY <1>3, <1>5, <1>7 DEF IInv, HolderIsCurrent, Active, Mine
<1>11. SentWell'
  BY <1>4, <1>5, <1>6, <1>7 DEF IInv, SentWell
<1>12. GrantIsKnown' /\ LogIsBehind' /\ EpochsAreUnique' /\ WritersAreFenced'
  BY <1>3 DEF IInv, GrantIsKnown, LogIsBehind, EpochsAreUnique, WritersAreFenced, Active
<1>13. RepliesAreTrue'
  BY <1>3, <1>4, <1>5, <1>6 DEF IInv, RepliesAreTrue
<1> QED
  BY <1>8, <1>9, <1>10, <1>11, <1>12, <1>13 DEF IInv

\* A call goes on without touching the row, the log or the control row; it may
\* begin to hold the row when nobody else does and it is accepted.
LEMMA CallStep ==
  ASSUME IInv, NEW c \in DOMAIN call, NEW st \in States, NEW rp \in Told4, CallIs(c, st, rp),
         UNCHANGED <<control, grant, log, granted>>,
         call[c].state \in {"sent", "held", "committing"}, st \notin {"sent", "committed"},
         st \in {"held", "committing"} =>
           /\ rp \in {"waiting", "unknown"}
           /\ Holding(c) \/ (Accepted(c) /\ \A d \in DOMAIN call : d # c => ~Holding(d)),
         rp # "ok", rp = "rejected" => st = "gone"
  PROVE  IInv'
<1>1. Shapes'
  BY DEF CallIs, IInv, Shapes
<1>2. \A d \in DOMAIN call' : d # c => (Holding(d)' <=> Holding(d))
  BY DEF CallIs, Holding
<1>3. Holding(c)' <=> st \in {"held", "committing"}
  BY DEF CallIs, Holding
<1>4. OneHolder'
  BY <1>2, <1>3 DEF CallIs, IInv, OneHolder
<1>5. ASSUME Holding(c)'
      PROVE  /\ call[c].db = control
             /\ call[c].op = "create" => call[c].epoch = 0 /\ grant.epoch = 0 /\ log = <<>>
             /\ call[c].op = "acquire" => (Active /\ Mine(c)) \/ grant.epoch = call[c].epoch
             /\ call[c].op \in {"append", "renew", "release"} =>
                  grant.epoch = call[c].epoch /\ grant.owner = call[c].intent
             /\ call[c].op = "append" => log # <<>>
  <2>1. CASE Holding(c)
    BY <2>1 DEF IInv, HolderIsCurrent
  <2>2. CASE Accepted(c)
    <3>1. call[c].db = control
      BY <2>2 DEF Accepted
    <3>2. call[c].op \in Ops
      BY CallTypes DEF IInv
    <3>3. CASE call[c].op = "create"
      BY <2>2, <3>1, <3>3 DEF Accepted, IInv, SentWell
    <3>4. CASE call[c].op = "acquire"
      BY <2>2, <3>1, <3>4 DEF Accepted, Acquirable, LiveHere
    <3>5. CASE call[c].op = "append"
      <4>1. Validates(c) /\ Len(log) = call[c].head
        BY <2>2, <3>5 DEF Accepted
      <4>2. log # <<>>
        <5>1. Len(log) > 0
          BY <3>5, <4>1 DEF IInv, SentWell
        <5> QED
          BY <5>1, EmptySeq
      <4> QED
        BY <3>1, <3>5, <4>1, <4>2 DEF Validates
    <3>6. CASE call[c].op \in {"renew", "release"}
      BY <2>2, <3>1, <3>6 DEF Accepted, Validates
    <3> QED
      BY <3>2, <3>3, <3>4, <3>5, <3>6 DEF Ops
  <2> QED
    BY <1>3, <1>5, <2>1, <2>2
<1>6. HolderIsCurrent'
  <2> SUFFICES ASSUME NEW d \in DOMAIN call', Holding(d)'
               PROVE  /\ call'[d].db = control'
                      /\ call'[d].op = "create" => call'[d].epoch = 0 /\ grant'.epoch = 0 /\ log' = <<>>
                      /\ call'[d].op = "acquire" => (Active' /\ Mine(d)') \/ grant'.epoch = call'[d].epoch
                      /\ call'[d].op \in {"append", "renew", "release"} =>
                           grant'.epoch = call'[d].epoch /\ grant'.owner = call'[d].intent
                      /\ call'[d].op = "append" => log' # <<>>
    BY DEF HolderIsCurrent
  <2>1. d \in DOMAIN call /\ (Active' <=> Active) /\ (Mine(d)' <=> Mine(d))
    BY DEF CallIs, Active, Mine
  <2>2. CASE d = c
    BY <1>5, <2>1, <2>2 DEF CallIs
  <2>3. CASE d # c
    <3>1. Holding(d)
      BY <1>2, <2>3
    <3> QED
      BY <2>1, <3>1 DEF CallIs, IInv, HolderIsCurrent
  <2> QED
    BY <2>2, <2>3
<1>7. SentWell'
  BY <1>2, <1>3 DEF CallIs, IInv, SentWell
<1>8. GrantIsKnown' /\ LogIsBehind' /\ EpochsAreUnique' /\ WritersAreFenced'
  BY DEF IInv, GrantIsKnown, LogIsBehind, EpochsAreUnique, WritersAreFenced, Active
<1>9. RepliesAreTrue'
  BY DEF CallIs, IInv, RepliesAreTrue
<1> QED
  BY <1>1, <1>4, <1>6, <1>7, <1>8, <1>9 DEF IInv

LEMMA CreateStep ==
  ASSUME IInv, NEW i \in Intent, Create(i)
  PROVE  IInv'
<1>1. control \in Nat /\ "create" \in Ops
  BY DEF IInv, Shapes, Ops
<1>2. Send(i, "create", 0, control, 0)
  BY DEF Create
<1> QED
  BY <1>1, <1>2, SendStep

LEMMA AcquireStep ==
  ASSUME IInv, NEW i \in Intent, Acquire(i)
  PROVE  IInv'
<1>1. control \in Nat /\ grant.epoch \in Nat /\ "acquire" \in Ops
  BY DEF IInv, Shapes, Ops
<1>2. CASE Calls(i, "acquire") = {}
  <2>1. Send(i, "acquire", grant.epoch, control, 0)
    BY <1>2 DEF Acquire
  <2> QED
    BY <1>1, <2>1, SendStep
<1>3. CASE Calls(i, "acquire") # {}
  <2>1. PICK c \in Calls(i, "acquire") : c = (CHOOSE d \in Calls(i, "acquire") : TRUE)
    BY <1>3
  <2>2. Send(i, "acquire", call[c].epoch, call[c].db, 0)
    BY <1>3, <2>1 DEF Acquire
  <2>3. call[c].epoch \in Nat /\ call[c].db \in Nat
    <3>1. c \in DOMAIN call
      BY <2>1 DEF Calls
    <3> QED
      BY <3>1, CallTypes DEF IInv
  <2> QED
    BY <1>1, <2>2, <2>3, SendStep
<1> QED
  BY <1>2, <1>3

LEMMA UseStep ==
  ASSUME IInv, NEW i \in Intent, NEW op \in {"renew", "release", "append"}, Use(i, op)
  PROVE  IInv'
<1>1. op \in Ops /\ op # "create"
  BY DEF Ops
<1>2. PICK c \in Calls(i, "acquire") :
        IF op = "append" THEN \E h \in DOMAIN log : Send(i, op, call[c].epoch + 1, call[c].db, h)
        ELSE Send(i, op, call[c].epoch + 1, call[c].db, 0)
  BY DEF Use
<1>3. call[c].epoch + 1 \in Nat /\ call[c].db \in Nat
  <2>1. c \in DOMAIN call
    BY DEF Calls
  <2>2. call[c].epoch \in Nat /\ call[c].db \in Nat
    BY <2>1, CallTypes DEF IInv
  <2> QED
    BY <2>2
<1>4. CASE op = "append"
  <2>1. PICK h \in DOMAIN log : Send(i, op, call[c].epoch + 1, call[c].db, h)
    BY <1>2, <1>4
  <2>2. h \in Nat /\ h > 0
    BY LenProperties DEF IInv, Shapes
  <2> QED
    BY <1>1, <1>3, <2>1, <2>2, SendStep
<1>5. CASE op # "append"
  BY <1>1, <1>2, <1>3, <1>5, SendStep
<1> QED
  BY <1>4, <1>5

LEMMA ExecuteStep ==
  ASSUME IInv, NEW c \in DOMAIN call, Execute(c)
  PROVE  IInv'
<1>1. Shapes /\ call[c].state = "sent" /\ call[c].reply = "waiting"
  BY DEF IInv, SentWell, Execute
<1>2. UNCHANGED <<control, grant, log, granted>>
  BY DEF Execute
<1>3. \A d \in DOMAIN call : d # c => ~Holding(d)
  BY DEF Execute, RowIsFree, Holding
<1>4. CASE Accepted(c)
  <2>1. CallIs(c, "held", "waiting")
    <3>1. call' = [call EXCEPT ![c].state = "held"] /\ "held" \in States
      BY <1>4 DEF Execute, States
    <3> QED
      BY <1>1, <3>1, StateSet
  <2>2. "held" \in States /\ "waiting" \in Told4
    BY DEF States, Told4
  <2> QED
    BY <1>1, <1>2, <1>3, <1>4, <2>1, <2>2, CallStep
<1>5. CASE ~Accepted(c)
  <2>1. "gone" \in States /\ "rejected" \in Told4
    BY DEF States, Told4
  <2>2. CallIs(c, "gone", "rejected")
    <3>1. call' = [call EXCEPT ![c].state = "gone", ![c].reply = "rejected"]
      BY <1>5 DEF Execute
    <3> QED
      BY <1>1, <2>1, <3>1, BothSet
  <2> QED
    BY <1>1, <1>2, <2>1, <2>2, CallStep
<1> QED
  BY <1>4, <1>5

LEMMA FailStep ==
  ASSUME IInv, NEW c \in DOMAIN call, Fail(c)
  PROVE  IInv'
<1>1. PICK told \in {"rejected", "unknown"} :
        call' = [call EXCEPT ![c].state = "gone", ![c].reply = told]
  BY DEF Fail
<1>2. "gone" \in States /\ told \in Told4
  BY DEF States, Told4
<1>3. CallIs(c, "gone", told)
  BY <1>1, <1>2, BothSet DEF IInv
<1>4. UNCHANGED <<control, grant, log, granted>> /\ call[c].state \in {"sent", "held"}
  BY DEF Fail
<1> QED
  BY <1>2, <1>3, <1>4, CallStep

LEMMA SendCommitStep ==
  ASSUME IInv, NEW c \in DOMAIN call, SendCommit(c)
  PROVE  IInv'
<1>1. call[c].state = "held" /\ UNCHANGED <<control, grant, log, granted>>
  BY DEF SendCommit
<1>2. Holding(c)
  BY <1>1 DEF Holding
<1>3. call[c].reply \in {"waiting", "unknown"}
  BY <1>2 DEF IInv, SentWell
<1>4. "committing" \in States /\ call[c].reply \in Told4
  BY <1>3 DEF States, Told4
<1>5. CallIs(c, "committing", call[c].reply)
  <2>1. call' = [call EXCEPT ![c].state = "committing"]
    BY DEF SendCommit
  <2> QED
    BY <1>4, <2>1, StateSet DEF IInv
<1> QED
  BY <1>1, <1>2, <1>3, <1>4, <1>5, CallStep

LEMMA VanishStep ==
  ASSUME IInv, NEW c \in DOMAIN call, Vanish(c)
  PROVE  IInv'
<1>1. call[c].state = "committing" /\ UNCHANGED <<control, grant, log, granted>>
  BY DEF Vanish
<1>2. "gone" \in States /\ "unknown" \in Told4
  BY DEF States, Told4
<1>3. CallIs(c, "gone", "unknown")
  <2>1. call' = [call EXCEPT ![c].state = "gone", ![c].reply = "unknown"]
    BY DEF Vanish
  <2> QED
    BY <1>2, <2>1, BothSet DEF IInv
<1> QED
  BY <1>1, <1>2, <1>3, CallStep

LEMMA LoseReplyStep ==
  ASSUME IInv, NEW c \in DOMAIN call, LoseReply(c)
  PROVE  IInv'
<1>1. call[c].state = "committing" /\ UNCHANGED <<control, grant, log, granted>>
  BY DEF LoseReply
<1>2. Holding(c) /\ "committing" \in States /\ "unknown" \in Told4
  BY <1>1 DEF Holding, States, Told4
<1>3. CallIs(c, "committing", "unknown")
  <2>1. call' = [call EXCEPT ![c].reply = "unknown"]
    BY DEF LoseReply, LostReply
  <2>2. CallIs(c, call[c].state, "unknown")
    BY <1>2, <2>1, ReplySet DEF IInv
  <2> QED
    BY <1>1, <2>2
<1> QED
  BY <1>1, <1>2, <1>3, CallStep

-----------------------------------------------------------------------------
(* COMMIT, the rotation of the incarnation and the passing of time. *)

\* The transaction that commits is the only holder, and lets go of the row.
LEMMA LetsGo ==
  ASSUME IInv, NEW c \in DOMAIN call, Commit(c)
  PROVE  /\ CallIs(c, "committed", Told(c, "ok")) /\ Told(c, "ok") \in {"ok", "unknown"}
         /\ Holding(c) /\ control' = control /\ Staged(c)
         /\ OneHolder' /\ HolderIsCurrent' /\ SentWell'
<1>1. Shapes /\ call[c].state = "committing" /\ control' = control /\ Staged(c)
  BY DEF IInv, Commit
<1>2. Holding(c)
  BY <1>1 DEF Holding
<1>3. Told(c, "ok") \in {"ok", "unknown"}
  BY <1>2 DEF IInv, SentWell, Told
<1>4. "committed" \in States /\ Told(c, "ok") \in Told4
  BY <1>3 DEF States, Told4
<1>5. CallIs(c, "committed", Told(c, "ok"))
  <2>1. call' = [call EXCEPT ![c].state = "committed", ![c].reply = Told(c, "ok")]
    BY DEF Commit
  <2> QED
    BY <1>1, <1>4, <2>1, BothSet
<1>6. \A d \in DOMAIN call' : ~Holding(d)'
  <2>1. \A d \in DOMAIN call : d # c => ~Holding(d)
    BY <1>2 DEF IInv, OneHolder
  <2> QED
    BY <1>5, <2>1 DEF CallIs, Holding
<1>7. OneHolder' /\ HolderIsCurrent'
  BY <1>6 DEF OneHolder, HolderIsCurrent
<1>8. SentWell'
  BY <1>5, <1>6 DEF CallIs, IInv, SentWell
<1> QED
  BY <1>1, <1>2, <1>3, <1>5, <1>7, <1>8

\* A confirmed acquisition was granted.
LEMMA ToldTruly ==
  ASSUME IInv, NEW c \in DOMAIN call, CallIs(c, "committed", Told(c, "ok")), granted \subseteq granted',
         Told(c, "ok") \in {"ok", "unknown"},
         call[c].op = "acquire" => [epoch |-> call[c].epoch + 1, owner |-> call[c].intent] \in granted'
  PROVE  RepliesAreTrue'
<1>1. CASE Told(c, "ok") = "ok"
  BY <1>1 DEF CallIs, IInv, RepliesAreTrue
<1>2. CASE Told(c, "ok") = "unknown"
  BY <1>2 DEF CallIs, IInv, RepliesAreTrue
<1> QED
  BY <1>1, <1>2

\* A creation and an append write under the grant in force.
LEMMA WritesUnderTheGrant ==
  ASSUME Assumptions, IInv, NEW c \in DOMAIN call, Holding(c), call[c].op \in {"create", "append"}
  PROVE  /\ call[c].db = control /\ call[c].epoch = grant.epoch
         /\ call[c].op = "create" => log = <<>> /\ call[c].epoch = 0
         /\ call[c].op = "append" =>
              /\ grant.owner = call[c].intent /\ log # <<>>
              /\ [epoch |-> call[c].epoch, owner |-> call[c].intent] \in granted
<1>1. call[c].db = control /\ call[c].epoch = grant.epoch
  BY DEF IInv, HolderIsCurrent
<1>2. CASE call[c].op = "create"
  BY <1>1, <1>2 DEF IInv, HolderIsCurrent
<1>3. CASE call[c].op = "append"
  <2>1. grant.owner = call[c].intent /\ log # <<>>
    BY <1>3 DEF IInv, HolderIsCurrent
  <2>2. call[c].intent \in Intent
    BY CallTypes DEF IInv
  <2>3. Active
    BY <2>1, <2>2 DEF Active, Assumptions
  <2>4. [epoch |-> call[c].epoch, owner |-> call[c].intent] \in granted
    BY <1>1, <2>1, <2>3 DEF IInv, GrantIsKnown
  <2> QED
    BY <1>1, <1>3, <2>1, <2>4
<1> QED
  BY <1>2, <1>3

LEMMA WriteStep ==
  ASSUME Assumptions, IInv, NEW c \in DOMAIN call, Commit(c), call[c].op \in {"create", "append"}
  PROVE  /\ IInv' /\ log' = Append(log, Entry(c)) /\ log'[Len(log')] = Entry(c)
         /\ Entry(c).epoch = call[c].epoch /\ Entry(c).owner = call[c].intent /\ Entry(c).db = call[c].db
<1>1. /\ CallIs(c, "committed", Told(c, "ok")) /\ Told(c, "ok") \in {"ok", "unknown"}
      /\ Holding(c) /\ control' = control /\ Staged(c)
      /\ OneHolder' /\ HolderIsCurrent' /\ SentWell'
  BY LetsGo
<1>2. /\ call[c].epoch \in Nat /\ call[c].db \in Nat /\ call[c].intent \in Intent /\ c \in Nat
  BY CallTypes DEF IInv
<1>3. log' = Append(log, Entry(c)) /\ UNCHANGED <<grant, granted>>
  BY <1>1 DEF Staged
<1>4. /\ call[c].db = control /\ call[c].epoch = grant.epoch
      /\ call[c].op = "create" => log = <<>> /\ call[c].epoch = 0
      /\ call[c].op = "append" =>
           /\ grant.owner = call[c].intent /\ log # <<>>
           /\ [epoch |-> call[c].epoch, owner |-> call[c].intent] \in granted
  BY <1>1, WritesUnderTheGrant
<1> DEFINE n == Len(log) + 1
<1>5. PICK e \in Written : e = Entry(c)
  BY <1>2 DEF Entry, Written
<1>6. e.epoch = call[c].epoch /\ e.owner = call[c].intent /\ e.db = call[c].db
  BY <1>5 DEF Entry
<1>7. log \in Seq(Written) /\ Len(log) \in Nat /\ DOMAIN log = 1..Len(log) /\ control \in Nat
  BY LenProperties DEF IInv, Shapes
<1>8. /\ log' \in Seq(Written) /\ DOMAIN log' = 1..n /\ log'[n] = e /\ Len(log') = n
      /\ \A k \in DOMAIN log : log'[k] = log[k]
  BY <1>3, <1>5, <1>7, AppendProperties, LenProperties
<1>9. n \in Nat /\ n > 0 /\ (log = <<>> => n = 1) /\ (log # <<>> => n # 1)
  BY <1>7, EmptySeq
<1>10. \A k \in DOMAIN log' : k = n \/ (k \in DOMAIN log /\ k < n)
  BY <1>7, <1>8
<1> HIDE DEF n
<1>11. Shapes'
  BY <1>1, <1>3, <1>8 DEF CallIs, IInv, Shapes
<1>12. GrantIsKnown' /\ EpochsAreUnique'
  BY <1>3 DEF IInv, GrantIsKnown, EpochsAreUnique, Active
<1>13. LogIsBehind'
  <2>1. \A k \in DOMAIN log : log[k].epoch <= grant.epoch /\ log[k].db <= control
    BY DEF IInv, LogIsBehind
  <2>2. e.epoch <= grant.epoch /\ e.db <= control
    BY <1>2, <1>4, <1>6
  <2> QED
    BY <1>1, <1>3, <1>8, <1>10, <2>1, <2>2 DEF LogIsBehind
<1>14. WritersAreFenced'
  <2>1. \A j, k \in DOMAIN log' : j < k => log'[j].epoch <= log'[k].epoch /\ log'[j].db <= log'[k].db
    <3> TAKE j, k \in DOMAIN log'
    <3> HAVE j < k
    <3>1. j \in DOMAIN log
      BY <1>7, <1>8, <1>9, <1>10
    <3>2. log[j].epoch <= grant.epoch /\ log[j].db <= control
      BY <3>1 DEF IInv, LogIsBehind
    <3>3. CASE k = n
      BY <1>4, <1>6, <1>8, <3>1, <3>2, <3>3
    <3>4. CASE k \in DOMAIN log
      BY <1>8, <3>1, <3>4 DEF IInv, WritersAreFenced
    <3> QED
      BY <1>10, <3>3, <3>4
  <2>2. \A k \in DOMAIN log' :
          IF k = 1 THEN log'[k].epoch = 0
          ELSE [epoch |-> log'[k].epoch, owner |-> log'[k].owner] \in granted'
    <3> TAKE k \in DOMAIN log'
    <3>1. CASE k = n
      <4>1. CASE call[c].op = "create"
        BY <1>4, <1>6, <1>8, <1>9, <3>1, <4>1
      <4>2. CASE call[c].op = "append"
        BY <1>3, <1>4, <1>6, <1>8, <1>9, <3>1, <4>2
      <4> QED
        BY <4>1, <4>2
    <3>2. CASE k \in DOMAIN log
      BY <1>3, <1>8, <3>2 DEF IInv, WritersAreFenced
    <3> QED
      BY <1>10, <3>1, <3>2
  <2> QED
    BY <2>1, <2>2 DEF WritersAreFenced
<1>15. RepliesAreTrue'
  BY <1>1, <1>3, ToldTruly
<1> QED
  BY <1>1, <1>3, <1>5, <1>6, <1>8, <1>11, <1>12, <1>13, <1>14, <1>15 DEF IInv

\* The statement found the caller's own grant, or an epoch nobody has passed.
LEMMA AcquiredStep ==
  ASSUME Assumptions, IInv, NEW c \in DOMAIN call, Commit(c), call[c].op = "acquire"
  PROVE  IInv' /\ log' = log
<1>1. /\ CallIs(c, "committed", Told(c, "ok")) /\ Told(c, "ok") \in {"ok", "unknown"}
      /\ Holding(c) /\ control' = control /\ Staged(c)
      /\ OneHolder' /\ HolderIsCurrent' /\ SentWell'
  BY LetsGo
<1>2. /\ call[c].epoch \in Nat /\ call[c].db \in Nat /\ call[c].intent \in Intent
  BY CallTypes DEF IInv
<1>3. CASE Mine(c)
  <2>1. UNCHANGED <<grant, log, granted>>
    BY <1>1, <1>3 DEF Staged
  <2>2. Active
    BY <1>2, <1>3 DEF Mine, Active, Assumptions
  <2>3. [epoch |-> call[c].epoch + 1, owner |-> call[c].intent] \in granted'
    BY <1>3, <2>1, <2>2 DEF IInv, GrantIsKnown, Mine
  <2>4. Shapes'
    BY <1>1, <2>1 DEF CallIs, IInv, Shapes
  <2>5. GrantIsKnown' /\ EpochsAreUnique' /\ LogIsBehind' /\ WritersAreFenced'
    BY <1>1, <2>1 DEF IInv, GrantIsKnown, EpochsAreUnique, LogIsBehind, WritersAreFenced, Active
  <2>6. RepliesAreTrue'
    BY <1>1, <2>1, <2>3, ToldTruly
  <2> QED
    BY <1>1, <2>1, <2>4, <2>5, <2>6 DEF IInv
<1>4. CASE ~Mine(c)
  <2> DEFINE e == call[c].epoch + 1
             m == [epoch |-> e, owner |-> call[c].intent]
  <2>1. /\ grant' = [epoch |-> e, owner |-> call[c].intent, db |-> call[c].db, left |-> Lease]
        /\ granted' = granted \cup {m} /\ log' = log
    BY <1>1, <1>4 DEF Staged
  <2>2. grant.epoch = call[c].epoch /\ grant.epoch \in Nat /\ control \in Nat
    BY <1>1, <1>4 DEF IInv, HolderIsCurrent, Shapes
  <2>3. e \in Nat /\ e > grant.epoch
    BY <2>2
  <2>4. m \in [epoch : Nat, owner : Intent] /\ m.epoch = e /\ m.owner = call[c].intent
    BY <1>2, <2>3
  <2>5. granted' \in SUBSET [epoch : Nat, owner : Intent]
    BY <2>1, <2>4 DEF IInv, Shapes
  <2>6. grant' \in [epoch : Nat, owner : Intent \cup {None}, db : Nat, left : Nat]
        /\ grant'.epoch = e /\ grant'.owner = call[c].intent
    BY <1>2, <2>1, <2>3 DEF Assumptions
  <2> HIDE DEF e
  <2>7. Shapes'
    BY <1>1, <2>1, <2>5, <2>6 DEF CallIs, IInv, Shapes
  <2>8. GrantIsKnown'
    BY <2>1, <2>6 DEF GrantIsKnown
  <2>9. EpochsAreUnique'
    <3>1. \A k \in granted : k.epoch \in Nat /\ k.epoch <= grant.epoch
      BY DEF IInv, Shapes, EpochsAreUnique
    <3>2. \A k \in granted : k.epoch < e
      BY <2>2, <2>3, <3>1
    <3>3. \A k, l \in granted : k.epoch = l.epoch => k = l
      BY DEF IInv, EpochsAreUnique
    <3> HIDE DEF m
    <3> QED
      BY <2>1, <2>3, <2>4, <2>6, <3>1, <3>2, <3>3 DEF EpochsAreUnique
  <2>10. LogIsBehind'
    <3>1. \A k \in DOMAIN log : log[k] \in Written
      BY ElementOfSeq, LenProperties DEF IInv, Shapes
    <3>2. \A k \in DOMAIN log : log[k].epoch \in Nat
      BY <3>1 DEF Written
    <3> QED
      BY <1>1, <2>1, <2>2, <2>3, <2>6, <3>2 DEF IInv, LogIsBehind
  <2>11. WritersAreFenced'
    BY <2>1 DEF IInv, WritersAreFenced
  <2>12. RepliesAreTrue'
    <3>1. [epoch |-> call[c].epoch + 1, owner |-> call[c].intent] \in granted' /\ granted \subseteq granted'
      BY <2>1 DEF e
    <3> QED
      BY <1>1, <3>1, ToldTruly
  <2> QED
    BY <1>1, <2>1, <2>7, <2>8, <2>9, <2>10, <2>11, <2>12 DEF IInv
<1> QED
  BY <1>3, <1>4

\* A lease runs on or out, and a grant is given up, under the same epoch.
LEMMA SameEpoch ==
  ASSUME IInv, grant' \in [epoch : Nat, owner : Intent \cup {None}, db : Nat, left : Nat],
         grant'.epoch = grant.epoch, grant'.owner \in {grant.owner, None},
         UNCHANGED <<control, log, granted>>
  PROVE  GrantIsKnown' /\ EpochsAreUnique' /\ LogIsBehind' /\ WritersAreFenced'
BY DEF IInv, GrantIsKnown, EpochsAreUnique, LogIsBehind, WritersAreFenced, Active

LEMMA KeptStep ==
  ASSUME Assumptions, IInv, NEW c \in DOMAIN call, Commit(c), call[c].op \in {"renew", "release"}
  PROVE  IInv' /\ log' = log
<1>1. /\ CallIs(c, "committed", Told(c, "ok")) /\ Told(c, "ok") \in {"ok", "unknown"}
      /\ Holding(c) /\ control' = control /\ Staged(c)
      /\ OneHolder' /\ HolderIsCurrent' /\ SentWell'
  BY LetsGo
<1>2. grant \in [epoch : Nat, owner : Intent \cup {None}, db : Nat, left : Nat]
  BY DEF IInv, Shapes
<1>3. UNCHANGED <<log, granted>>
  BY <1>1 DEF Staged
<1>4. /\ grant' \in [epoch : Nat, owner : Intent \cup {None}, db : Nat, left : Nat]
      /\ grant'.epoch = grant.epoch /\ grant'.owner \in {grant.owner, None}
  <2>1. CASE call[c].op = "renew"
    <3>1. grant' = [grant EXCEPT !.left = Lease]
      BY <1>1, <2>1 DEF Staged
    <3> QED
      BY <1>2, <3>1 DEF Assumptions
  <2>2. CASE call[c].op = "release"
    <3>1. grant' = [epoch |-> grant.epoch, owner |-> None, db |-> 0, left |-> 0]
      BY <1>1, <2>2 DEF Staged, Released
    <3> QED
      BY <1>2, <3>1
  <2> QED
    BY <2>1, <2>2
<1>5. GrantIsKnown' /\ EpochsAreUnique' /\ LogIsBehind' /\ WritersAreFenced'
  BY <1>1, <1>3, <1>4, SameEpoch
<1>6. Shapes'
  BY <1>1, <1>3, <1>4 DEF CallIs, IInv, Shapes
<1>7. RepliesAreTrue'
  BY <1>1, <1>3, ToldTruly
<1> QED
  BY <1>1, <1>3, <1>5, <1>6, <1>7 DEF IInv

LEMMA RotateStep ==
  ASSUME IInv, Rotate
  PROVE  IInv'
<1>1. control \in Nat /\ control' = control + 1 /\ UNCHANGED <<grant, log, call, granted>>
  BY DEF IInv, Shapes, Rotate
<1>2. \A c \in DOMAIN call : ~Holding(c)
  BY DEF Rotate, ControlIsFree, Holding
<1>3. Shapes' /\ OneHolder' /\ HolderIsCurrent' /\ SentWell'
  BY <1>1, <1>2 DEF IInv, Shapes, OneHolder, HolderIsCurrent, SentWell, Holding
<1>4. GrantIsKnown' /\ EpochsAreUnique' /\ WritersAreFenced' /\ RepliesAreTrue'
  BY <1>1 DEF IInv, GrantIsKnown, EpochsAreUnique, WritersAreFenced, RepliesAreTrue, Active
<1>5. LogIsBehind'
  <2>1. \A k \in DOMAIN log : log[k] \in Written
    BY ElementOfSeq, LenProperties DEF IInv, Shapes
  <2>2. \A k \in DOMAIN log : log[k].db \in Nat
    BY <2>1 DEF Written
  <2> QED
    BY <1>1, <2>2 DEF IInv, LogIsBehind
<1> QED
  BY <1>3, <1>4, <1>5 DEF IInv

LEMMA TickStep ==
  ASSUME IInv, Tick
  PROVE  IInv'
<1>1. /\ grant \in [epoch : Nat, owner : Intent \cup {None}, db : Nat, left : Nat]
      /\ grant.left > 0 /\ grant' = [grant EXCEPT !.left = @ - 1]
      /\ UNCHANGED <<control, log, call, granted>>
  BY DEF IInv, Shapes, Tick
<1>2. /\ grant' \in [epoch : Nat, owner : Intent \cup {None}, db : Nat, left : Nat]
      /\ grant'.epoch = grant.epoch /\ grant'.owner = grant.owner
  BY <1>1
<1>3. GrantIsKnown' /\ EpochsAreUnique' /\ LogIsBehind' /\ WritersAreFenced'
  BY <1>1, <1>2, SameEpoch
<1>4. Shapes' /\ OneHolder' /\ SentWell' /\ RepliesAreTrue'
  BY <1>1, <1>2 DEF IInv, Shapes, OneHolder, SentWell, Holding, RepliesAreTrue
<1>5. HolderIsCurrent'
  BY <1>1, <1>2 DEF IInv, HolderIsCurrent, Holding, Active, Mine
<1> QED
  BY <1>3, <1>4, <1>5 DEF IInv

-----------------------------------------------------------------------------
(* The theorems. *)

LEMMA StartsWell ==
  ASSUME Assumptions, Init
  PROVE  IInv
<1>1. Shapes
  BY EmptySeq DEF Init, Shapes, Released
<1>2. DOMAIN log = {} /\ DOMAIN call = {} /\ granted = {} /\ ~Active
  BY DEF Init, Released, Active
<1> QED
  BY <1>1, <1>2 DEF IInv, OneHolder, HolderIsCurrent, SentWell, GrantIsKnown, LogIsBehind,
                    EpochsAreUnique, WritersAreFenced, RepliesAreTrue

\* What an entry of the log shows about the row and the incarnation it met.
Current ==
  log' # log =>
    LET e == log'[Len(log')]
    IN e.db = control /\ e.epoch = grant.epoch /\ (e.epoch > 0 => e.owner = grant.owner)

LEMMA CommitStep ==
  ASSUME Assumptions, IInv, NEW c \in DOMAIN call, Commit(c)
  PROVE  IInv' /\ Current
<1>1. call[c].op \in Ops
  BY CallTypes DEF IInv
<1>2. CASE call[c].op \in {"create", "append"}
  <2>1. /\ IInv' /\ log'[Len(log')] = Entry(c)
        /\ Entry(c).epoch = call[c].epoch /\ Entry(c).owner = call[c].intent /\ Entry(c).db = call[c].db
    BY <1>2, WriteStep
  <2>2. Holding(c)
    BY DEF Commit, Holding
  <2>3. /\ call[c].db = control /\ call[c].epoch = grant.epoch
        /\ call[c].op = "create" => call[c].epoch = 0
        /\ call[c].op = "append" => grant.owner = call[c].intent
    BY <1>2, <2>2, WritesUnderTheGrant
  <2> QED
    BY <1>2, <2>1, <2>3 DEF Current
<1>3. CASE call[c].op = "acquire"
  BY <1>3, AcquiredStep DEF Current
<1>4. CASE call[c].op \in {"renew", "release"}
  BY <1>4, KeptStep DEF Current
<1> QED
  BY <1>1, <1>2, <1>3, <1>4 DEF Ops

LEMMA NextStep ==
  ASSUME Assumptions, IInv, Next
  PROVE  IInv' /\ Current
<1>1. ASSUME NEW i \in Intent, Create(i)
      PROVE  IInv' /\ Current
  BY <1>1, CreateStep DEF Create, Send, Current
<1>2. ASSUME NEW i \in Intent, Acquire(i)
      PROVE  IInv' /\ Current
  BY <1>2, AcquireStep DEF Acquire, Send, Current
<1>3. ASSUME NEW i \in Intent, NEW op \in {"renew", "release", "append"}, Use(i, op)
      PROVE  IInv' /\ Current
  BY <1>3, UseStep DEF Use, Send, Current
<1>4. ASSUME NEW c \in DOMAIN call, Execute(c)
      PROVE  IInv' /\ Current
  BY <1>4, ExecuteStep DEF Execute, Current
<1>5. ASSUME NEW c \in DOMAIN call, Fail(c)
      PROVE  IInv' /\ Current
  BY <1>5, FailStep DEF Fail, Current
<1>6. ASSUME NEW c \in DOMAIN call, SendCommit(c)
      PROVE  IInv' /\ Current
  BY <1>6, SendCommitStep DEF SendCommit, Current
<1>7. ASSUME NEW c \in DOMAIN call, Commit(c)
      PROVE  IInv' /\ Current
  BY <1>7, CommitStep
<1>8. ASSUME NEW c \in DOMAIN call, Vanish(c)
      PROVE  IInv' /\ Current
  BY <1>8, VanishStep DEF Vanish, Current
<1>9. ASSUME NEW c \in DOMAIN call, LoseReply(c)
      PROVE  IInv' /\ Current
  BY <1>9, LoseReplyStep DEF LoseReply, Current
<1>10. CASE Rotate
  BY <1>10, RotateStep DEF Rotate, Current
<1>11. CASE Tick
  BY <1>11, TickStep DEF Tick, Current
<1> QED
  BY <1>1, <1>2, <1>3, <1>4, <1>5, <1>6, <1>7, <1>8, <1>9, <1>10, <1>11 DEF Next

LEMMA QuietStep ==
  ASSUME IInv, UNCHANGED vars
  PROVE  IInv'
BY DEF vars, IInv, Shapes, OneHolder, HolderIsCurrent, SentWell, GrantIsKnown, LogIsBehind,
       EpochsAreUnique, WritersAreFenced, RepliesAreTrue, Holding, Active, Mine

\* The inductive invariant holds of every reachable state of the fenced store.
THEOREM Invariance ==
  ASSUME Assumptions
  PROVE  Spec => []IInv
<1>1. Init => IInv
  BY StartsWell
<1>2. IInv /\ [Next]_vars => IInv'
  BY NextStep, QuietStep
<1> QED
  BY <1>1, <1>2, PTL DEF Spec

\* Whatever is lost, retried or delayed, and however leases lapse: epochs are
\* granted once, the log is written by one authority after another, callers
\* are told the truth, and no COMMIT is behind the row or the incarnation
\* (acquireFencedGrant, commitFencedTransaction and the functions they call).
THEOREM StoreSafety ==
  ASSUME Assumptions
  PROVE  Spec => StoreIsFenced
<1>1. IInv => EpochsAreUnique /\ WritersAreFenced /\ RepliesAreTrue
  BY DEF IInv
<1>2. IInv /\ [Next]_vars => [Current]_vars
  BY NextStep
<1>3. Spec => [](EpochsAreUnique /\ WritersAreFenced /\ RepliesAreTrue)
  BY <1>1, Invariance, PTL
<1>4. Spec => [][Current]_vars
  BY <1>2, Invariance, PTL DEF Spec
<1> QED
  BY <1>3, <1>4, PTL DEF StoreIsFenced, CommitsAreCurrent, Current

-----------------------------------------------------------------------------
(* The log and its horizon (Readers, CommittedPrefix). *)

LEMMA LeastNatural ==
  ASSUME NEW T \in SUBSET Nat, T # {}
  PROVE  \E m \in T : \A n \in T : m <= n
<1> DEFINE R == OpToRel(<, Nat)
<1>1. IsWellFoundedOn(R, Nat)
  BY NatLessThanWellFounded, Zenon
<1>2. \A x, y \in Nat : x < y => <<x, y>> \in R
  BY Zenon DEF OpToRel
<1> HIDE DEF R
<1>3. PICK m \in T : \A n \in T : ~ (<<n, m>> \in R)
  BY <1>1, WFMin, Zenon
<1>4. \A n \in T : ~ (n < m)
  BY <1>2, <1>3
<1> QED
  BY <1>4

LEMMA GreatestNatural ==
  ASSUME NEW b \in Nat, NEW T \in SUBSET (0..b), T # {}
  PROVE  \E m \in T : \A n \in T : m >= n
<1> DEFINE D == {b - n : n \in T}
<1>1. D \in SUBSET Nat /\ D # {}
  <2>1. \A n \in T : b - n \in Nat
    OBVIOUS
  <2> QED BY <2>1
<1>2. PICK d \in D : \A e \in D : d <= e
  BY <1>1, LeastNatural
<1>3. PICK m \in T : d = b - m
  BY <1>2
<1>4. \A n \in T : b - m <= b - n
  BY <1>2, <1>3
<1> QED BY <1>4

\* What stands in the log about ids: each is given once, and behind the next one.
IdsAreOnce ==
  /\ \A t \in open : t.x < next
  /\ \A e \in committed : e.x < next
  /\ \A t, u \in open : t.x = u.x => t = u
  /\ \A e, f \in committed : e.x = f.x => e = f
  /\ \A t \in open, e \in committed : t.x # e.x

\* A game has one append in progress, and room for it.
OneAppend ==
  /\ \A t, u \in open : t.game = u.game => t = u
  /\ \A t \in open : Height(committed, t.game) <= EndSeq

\* A game's events are numbered from 0 without a gap at the end.
Numbered(events) ==
  /\ \A e \in events : e.seq < Height(events, e.game)
  /\ \A g \in Game : /\ Height(events, g) <= EndSeq + 1
                     /\ Height(events, g) > 0 => \E e \in events : e.game = g /\ e.seq = Height(events, g) - 1

LogInv == LogTypeOK /\ IsFiniteSet(committed) /\ IdsAreOnce /\ OneAppend /\ Numbered(committed)

\* What a step of the log leaves to a reader that knows a horizon.
LogGrows ==
  /\ Horizon <= Horizon'
  /\ committed \subseteq committed'
  /\ \A e \in committed' : e \notin committed => Horizon <= e.x

LEMMA HeightFacts ==
  ASSUME NEW E, IsFiniteSet(E), NEW g
  PROVE  Height(E, g) \in Nat /\ (Height(E, g) = 0 <=> \A e \in E : e.game # g)
<1> DEFINE S == {e \in E : e.game = g}
<1>1. IsFiniteSet(S)
  BY FS_Subset
<1>2. Cardinality(S) \in Nat /\ (Cardinality(S) = 0 <=> S = {})
  BY <1>1, FS_CardinalityType, FS_EmptySet
<1>3. S = {} <=> \A e \in E : e.game # g
  OBVIOUS
<1> QED BY <1>2, <1>3 DEF Height

LEMMA HeightGrows ==
  ASSUME NEW F, IsFiniteSet(F), NEW E \in SUBSET F, NEW g
  PROVE  Height(E, g) <= Height(F, g)
<1> DEFINE S == {e \in E : e.game = g}
           T == {e \in F : e.game = g}
<1>1. IsFiniteSet(T) /\ S \in SUBSET T
  BY FS_Subset
<1>2. Cardinality(S) <= Cardinality(T)
  BY <1>1, FS_Subset
<1> QED BY <1>2 DEF Height

LEMMA HeightAdds ==
  ASSUME NEW E, IsFiniteSet(E), NEW e, e \notin E, NEW g
  PROVE  Height(E \cup {e}, g) = IF e.game = g THEN Height(E, g) + 1 ELSE Height(E, g)
<1> DEFINE S == {f \in E : f.game = g}
           T == {f \in E \cup {e} : f.game = g}
<1>1. IsFiniteSet(S) /\ e \notin S
  BY FS_Subset
<1>2. CASE e.game = g
  <2>1. T = S \cup {e}
    BY <1>2
  <2>2. Cardinality(S \cup {e}) = Cardinality(S) + 1
    BY <1>1, FS_AddElement
  <2> QED BY <1>2, <2>1, <2>2 DEF Height
<1>3. CASE e.game # g
  <2>1. T = S
    BY <1>3
  <2> QED BY <1>3, <2>1 DEF Height
<1> QED BY <1>2, <1>3

\* A page is all there is between a position and its last event.
LEMMA PageFacts ==
  ASSUME NEW E, IsFiniteSet(E), \A e \in E : e.x \in Nat,
         NEW after \in Nat, NEW horizon \in Nat, NEW n \in Nat
  PROVE  /\ Page(E, after, horizon, n) \subseteq E
         /\ \A e \in Page(E, after, horizon, n) :
              /\ after < e.x /\ e.x < horizon
              /\ \A f \in E : after < f.x /\ f.x < e.x => f \in Page(E, after, horizon, n)
<1> DEFINE ahead == {e \in E : after < e.x /\ e.x < horizon}
           before(e) == {f \in ahead : f.x < e.x}
<1>1. \A e : e \in Page(E, after, horizon, n) <=> e \in ahead /\ Cardinality(before(e)) < n
  BY DEF Page
<1>2. ASSUME NEW e \in ahead, NEW f \in ahead, f.x < e.x PROVE Cardinality(before(f)) <= Cardinality(before(e))
  <2>1. before(f) \in SUBSET before(e)
    BY <1>2
  <2>2. IsFiniteSet(before(e))
    BY FS_Subset
  <2> QED BY <2>1, <2>2, FS_Subset
<1>3. \A e \in ahead : Cardinality(before(e)) \in Nat
  <2>1. \A e \in ahead : IsFiniteSet(before(e))
    BY FS_Subset
  <2> QED BY <2>1, FS_CardinalityType
<1>4. \A e \in ahead : e \in E /\ after < e.x /\ e.x < horizon
  OBVIOUS
<1>5. \A f \in E : \A e \in ahead : after < f.x /\ f.x < e.x => f \in ahead
  OBVIOUS
<1> HIDE DEF ahead, before
<1> QED BY <1>1, <1>2, <1>3, <1>4, <1>5

LEMMA LastOf ==
  ASSUME NEW E, \A e \in E : e.x \in 1..MaxXid, E # {}
  PROVE  /\ \E e \in E : Max(Positions(E)) = e.x
         /\ \A e \in E : e.x <= Max(Positions(E))
<1>1. MaxXid \in Nat
  BY ReadersAssumptions DEF Ratings!Assumptions
<1> DEFINE P == Positions(E)
<1>2. P \in SUBSET (0..MaxXid) /\ P # {}
  BY <1>1 DEF Positions
<1>3. \E m \in P : \A n \in P : m >= n
  BY <1>1, <1>2, GreatestNatural
<1>4. Max(P) \in P /\ \A n \in P : Max(P) >= n
  BY <1>3 DEF Max
<1>5. \A n : n \in P <=> \E e \in E : n = e.x
  BY DEF Positions
<1> HIDE DEF P
<1> QED BY <1>2, <1>4, <1>5 DEF P

LEMMA HorizonFacts ==
  ASSUME LogInv
  PROVE  /\ Horizon \in Nat \ {0} /\ Horizon <= next
         /\ \A t \in open : Horizon <= t.x
         /\ Horizon = next \/ \E t \in open : Horizon = t.x
<1> DEFINE S == {next} \cup {t.x : t \in open}
<1>0. MaxXid \in Nat
  BY ReadersAssumptions DEF Ratings!Assumptions
<1>1. S \in SUBSET Nat /\ S # {} /\ 0 \notin S
  BY <1>0 DEF LogInv, LogTypeOK
<1>2. \E m \in S : \A n \in S : m <= n
  BY <1>1, LeastNatural
<1>3. Min(S) \in S /\ \A n \in S : Min(S) <= n
  BY <1>2 DEF Min
<1>4. Horizon = Min(S)
  BY DEF Horizon
<1>5. \A n : n \in S <=> n = next \/ \E t \in open : n = t.x
  OBVIOUS
<1> HIDE DEF S
<1> QED BY <1>1, <1>3, <1>4, <1>5

LEMMA Bounds == MaxXid \in Nat /\ EndSeq \in Nat /\ BatchSize \in Nat \ {0} /\ Projected \subseteq Game
BY ReadersAssumptions DEF Ratings!Assumptions, Projection!Assumptions

HorizonIsNatural == Horizon \in Nat \ {0}

LEMMA HorizonNatural == LogInv => HorizonIsNatural
BY HorizonFacts DEF HorizonIsNatural

LEMMA HorizonStaysNatural ==
  ASSUME LogInv, LogInv'
  PROVE  Horizon \in Nat \ {0} /\ Horizon' \in Nat \ {0}
<1>1. HorizonIsNatural /\ HorizonIsNatural'
  BY HorizonNatural, PTL
<1> QED BY <1>1 DEF HorizonIsNatural

HorizonIsTaken == Horizon = next \/ \E t \in open : Horizon = t.x

LEMMA HorizonIsAnId == LogInv => HorizonIsTaken
BY HorizonFacts DEF HorizonIsTaken

LEMMA HorizonMoves ==
  ASSUME LogInv, LogInv', next <= next', \A t \in open' : t \in open \/ next <= t.x
  PROVE  Horizon <= Horizon'
<1>1. Horizon' = next' \/ \E t \in open' : Horizon' = t.x
  <2>1. HorizonIsTaken'
    BY HorizonIsAnId, PTL
  <2> QED BY <2>1 DEF HorizonIsTaken
<1>2. Horizon \in Nat /\ Horizon <= next /\ next \in Nat /\ next' \in Nat /\ \A t \in open : Horizon <= t.x
  BY HorizonFacts, Bounds DEF LogInv, LogTypeOK
<1>3. \A t \in open' : t.x \in Nat
  BY Bounds DEF LogInv, LogTypeOK
<1> QED BY <1>1, <1>2, <1>3

LEMMA StartKeepsLog ==
  ASSUME LogInv, NEW g \in Game, StartAppend(g)
  PROVE  LogInv' /\ LogGrows
<1> DEFINE t0 == [x |-> next, game |-> g]
<1>0. /\ next \in 1..MaxXid /\ next' = next + 1 /\ open' = open \cup {t0} /\ committed' = committed
      /\ Height(committed, g) <= EndSeq /\ \A t \in open : t.game # g
      /\ t0 \in [x : 1..MaxXid, game : Game] /\ t0.x = next /\ t0.game = g
  BY Bounds DEF StartAppend, LogInv, LogTypeOK
<1> HIDE DEF t0
<1>1. LogTypeOK' /\ IsFiniteSet(committed')
  BY <1>0, Bounds DEF LogInv, LogTypeOK
<1>2. IdsAreOnce'
  <2>1. /\ \A t \in open : t.x \in Nat /\ t.x < next
        /\ \A e \in committed : e.x \in Nat /\ e.x < next
    BY Bounds DEF LogInv, LogTypeOK, IdsAreOnce
  <2> QED BY <1>0, <2>1 DEF LogInv, IdsAreOnce
<1>3. OneAppend'
  BY <1>0 DEF LogInv, OneAppend
<1>4. Numbered(committed)'
  BY <1>0 DEF LogInv, Numbered
<1>5. LogInv'
  BY <1>1, <1>2, <1>3, <1>4 DEF LogInv
<1>6. Horizon <= Horizon'
  BY <1>0, <1>5, HorizonMoves
<1> QED BY <1>0, <1>5, <1>6 DEF LogGrows

LEMMA AbortKeepsLog ==
  ASSUME LogInv, NEW t \in open, AbortAppend(t)
  PROVE  LogInv' /\ LogGrows
<1>0. open' \subseteq open /\ next' = next /\ committed' = committed
  BY DEF AbortAppend
<1>1. LogTypeOK' /\ IsFiniteSet(committed') /\ IdsAreOnce' /\ OneAppend' /\ Numbered(committed)'
  BY <1>0 DEF LogInv, LogTypeOK, IdsAreOnce, OneAppend, Numbered
<1>2. LogInv'
  BY <1>1 DEF LogInv
<1>3. next <= next'
  BY <1>0, Bounds DEF LogInv, LogTypeOK
<1>4. Horizon <= Horizon'
  BY <1>0, <1>2, <1>3, HorizonMoves
<1> QED BY <1>0, <1>2, <1>4 DEF LogGrows

LEMMA CommitKeepsLog ==
  ASSUME LogInv, NEW t \in open, CommitAppend(t)
  PROVE  LogInv' /\ LogGrows
<1> DEFINE g == t.game
           n == Height(committed, g)
           e0 == [x |-> t.x, game |-> t.game, seq |-> n]
<1>0. /\ open' = open \ {t} /\ next' = next /\ committed' = committed \cup {e0}
  BY DEF CommitAppend
<1>1. /\ g \in Game /\ t.x \in 1..MaxXid /\ t.x < next /\ IsFiniteSet(committed)
      /\ \A u \in open : u.game = g => u = t
      /\ \A e \in committed : e.x # t.x
      /\ n <= EndSeq
  BY DEF LogInv, LogTypeOK, IdsAreOnce, OneAppend
<1>2. n \in 0..EndSeq
  BY <1>1, HeightFacts, Bounds
<1>3. e0 \in [x : 1..MaxXid, game : Game, seq : 0..EndSeq] /\ e0.x = t.x /\ e0.game = g /\ e0.seq = n
  BY <1>1, <1>2
<1>4. e0 \notin committed
  BY <1>1, <1>3
<1> HIDE DEF e0, n
<1>5. \A h : Height(committed', h) = IF h = g THEN Height(committed, h) + 1 ELSE Height(committed, h)
  BY <1>0, <1>1, <1>3, <1>4, HeightAdds
<1>6. \A h : Height(committed, h) \in Nat
  BY <1>1, HeightFacts
<1> HIDE DEF g
<1>7. LogTypeOK' /\ IsFiniteSet(committed')
  <2>1. IsFiniteSet(committed')
    BY <1>0, <1>1, FS_AddElement
  <2> QED BY <1>0, <1>3, <2>1 DEF LogInv, LogTypeOK
<1>8. IdsAreOnce'
  BY <1>0, <1>1, <1>3 DEF LogInv, IdsAreOnce
<1>9. OneAppend'
  <2>1. \A u \in open' : u \in open /\ u.game # g
    BY <1>0, <1>1 DEF g
  <2> QED BY <1>5, <2>1 DEF LogInv, OneAppend
<1>10. Numbered(committed)'
  <2>1. \A e \in committed' : e.seq < Height(committed', e.game)
    <3>1. \A e \in committed : e.seq \in Nat /\ e.seq < Height(committed, e.game)
      BY Bounds DEF LogInv, LogTypeOK, Numbered
    <3>2. e0.seq < Height(committed', e0.game)
      BY <1>2, <1>3, <1>5 DEF n
    <3>3. \A e \in committed : e.seq < Height(committed', e.game)
      BY <1>5, <1>6, <3>1
    <3> QED BY <1>0, <3>2, <3>3
  <2>2. \A h \in Game : Height(committed', h) <= EndSeq + 1
    BY <1>2, <1>5, Bounds DEF LogInv, Numbered, n
  <2>3. ASSUME NEW h \in Game, Height(committed', h) > 0
        PROVE  \E e \in committed' : e.game = h /\ e.seq = Height(committed', h) - 1
    <3>1. CASE h = g
      <4>1. Height(committed', h) = n + 1
        BY <1>5, <3>1 DEF n
      <4> QED BY <1>0, <1>2, <1>3, <3>1, <4>1
    <3>2. CASE h # g
      BY <1>0, <1>5, <2>3, <3>2 DEF LogInv, Numbered
    <3> QED BY <3>1, <3>2
  <2> QED BY <2>1, <2>2, <2>3 DEF Numbered
<1>11. LogInv'
  BY <1>7, <1>8, <1>9, <1>10 DEF LogInv
<1>12. next <= next' /\ open' \subseteq open
  BY <1>0, Bounds DEF LogInv, LogTypeOK
<1>13. Horizon <= Horizon'
  BY <1>11, <1>12, HorizonMoves
<1>14. Horizon <= e0.x
  BY <1>3, HorizonFacts
<1> QED BY <1>0, <1>11, <1>13, <1>14 DEF LogGrows

LEMMA LogStep == LogInv /\ LogNext => LogInv' /\ LogGrows
BY StartKeepsLog, CommitKeepsLog, AbortKeepsLog DEF LogNext

LEMMA LogStands ==
  ASSUME LogInv, UNCHANGED logVars
  PROVE  LogInv' /\ Horizon' = Horizon
BY DEF logVars, LogInv, LogTypeOK, IdsAreOnce, OneAppend, Numbered, Horizon

LEMMA LogStarts == LogInit => LogInv
<1> SUFFICES ASSUME LogInit PROVE LogInv
  OBVIOUS
<1>1. IsFiniteSet(committed)
  BY FS_EmptySet DEF LogInit
<1>2. \A g : Height(committed, g) = 0
  BY <1>1, HeightFacts DEF LogInit
<1> QED BY <1>1, <1>2, Bounds DEF LogInit, LogInv, LogTypeOK, IdsAreOnce, OneAppend, Numbered

-----------------------------------------------------------------------------
(* The appliers of ratings. *)

LEMMA RatingsReadTheLog ==
  /\ Ratings!Horizon = Horizon
  /\ \A E, a, h, n : Ratings!Page(E, a, h, n) = Page(E, a, h, n)
  /\ \A E, g : Ratings!Height(E, g) = Height(E, g)
  /\ \A E : Ratings!Max(Ratings!Positions(E)) = Max(Positions(E))
BY DEF Ratings!Horizon, Horizon, Ratings!Min, Min, Ratings!Page, Page, Ratings!Height, Height,
       Ratings!Cardinality, Cardinality, Ratings!Max, Max, Ratings!Positions, Positions

Event == [x : 1..MaxXid, game : Game, seq : 0..EndSeq]

\* A game's only event is its ending.
EndingsOnly ==
  /\ \A e \in committed : e.seq = 0
  /\ \A e, f \in committed : e.game = f.game => e = f
  /\ \A t \in open, e \in committed : t.game # e.game

Decided == Ratings!Decided

\* What the checkpoint has passed is decided, and nothing else is.
DecidedToTheCheckpoint ==
  /\ applied \in Nat /\ applied < Horizon
  /\ ledger \in Seq(Game) /\ unrated \subseteq Game
  /\ \A g \in Decided : \E e \in committed : e.game = g /\ e.x <= applied
  /\ \A e \in committed : e.x <= applied => e.game \in Decided

LedgerInOrder ==
  \A i, j \in DOMAIN ledger : i < j =>
    \A e, f \in committed : e.game = ledger[i] /\ f.game = ledger[j] => e.x < f.x

\* The page of a batch that holds the checkpoint is all there is between the
\* checkpoint and its last event, below a horizon that stands.
PageIsNext(b) ==
  /\ b.rewound = FALSE /\ b.page \subseteq committed
  /\ \A e \in b.page :
       /\ applied < e.x /\ e.x < b.horizon
       /\ \A f \in committed : applied < f.x /\ f.x < e.x => f \in b.page

RBatchOK(b) ==
  /\ b.phase # "idle" => b.horizon <= Horizon
  /\ b.phase = "held" => PageIsNext(b)

RBatch == [phase : {"idle", "snapped", "held"}, horizon : Nat, page : SUBSET Event, rewound : BOOLEAN]

RBatchesOK ==
  /\ rbatch \in [Applier -> RBatch]
  /\ \A a \in Applier : RBatchOK(rbatch[a])
  /\ \A a, b \in Applier : rbatch[a].phase = "held" /\ rbatch[b].phase = "held" => a = b

RatingsInv == LogInv /\ EndingsOnly /\ DecidedToTheCheckpoint /\ LedgerInOrder /\ RBatchesOK

LEMMA PlaceInTheLog ==
  ASSUME LogInv, EndingsOnly, NEW e \in committed
  PROVE  Ratings!XidOf(e.game) = e.x
<1> DEFINE g == e.game
           R(x) == [x |-> x, game |-> g, seq |-> 0]
           P == Ratings!Positions(committed)
<1>1. e \in Event /\ e.seq = 0 /\ \A f \in committed : f.game = g => f = e
  BY DEF LogInv, LogTypeOK, EndingsOnly, Event
<1>2. e.x \in P /\ R(e.x) = e
  BY <1>1 DEF Ratings!Positions, Event
<1>3. \A x : R(x) \in committed => x = e.x
  <2>1. \A x : R(x).game = g /\ R(x).x = x
    OBVIOUS
  <2> HIDE DEF R
  <2> QED BY <1>1, <2>1
<1>4. Ratings!XidOf(g) = CHOOSE x \in P : R(x) \in committed
  BY DEF Ratings!XidOf
<1> HIDE DEF R, P, g
<1> QED BY <1>2, <1>3, <1>4 DEF g

LEMMA RatingsLogStep ==
  ASSUME LogInv, EndingsOnly, Ratings!LogNext
  PROVE  LogInv' /\ EndingsOnly' /\ LogGrows
<1>0. IsFiniteSet(committed)
  BY DEF LogInv
<1>1. ASSUME NEW g \in Game, Ratings!StartAppend(g)
      PROVE  LogInv' /\ EndingsOnly' /\ LogGrows
  <2>1. Height(committed, g) = 0
    BY <1>0, <1>1, HeightFacts, RatingsReadTheLog DEF Ratings!StartAppend
  <2>2. StartAppend(g)
    BY <1>1, <2>1, Bounds DEF Ratings!StartAppend, StartAppend
  <2>3. \A e \in committed : e.game # g
    BY <1>0, <2>1, HeightFacts
  <2>4. EndingsOnly'
    BY <2>2, <2>3 DEF StartAppend, EndingsOnly
  <2> QED BY <2>2, <2>4, StartKeepsLog
<1>2. ASSUME NEW t \in open, Ratings!CommitAppend(t)
      PROVE  LogInv' /\ EndingsOnly' /\ LogGrows
  <2>1. CommitAppend(t)
    BY <1>2, RatingsReadTheLog DEF Ratings!CommitAppend, CommitAppend
  <2>2. Height(committed, t.game) = 0
    BY <1>0, HeightFacts DEF EndingsOnly
  <2> DEFINE e0 == [x |-> t.x, game |-> t.game, seq |-> 0]
  <2>3. committed' = committed \cup {e0} /\ open' = open \ {t} /\ e0.game = t.game /\ e0.seq = 0
    BY <2>1, <2>2 DEF CommitAppend
  <2> HIDE DEF e0
  <2>4. EndingsOnly'
    BY <2>3 DEF EndingsOnly, LogInv, OneAppend
  <2> QED BY <2>1, <2>4, CommitKeepsLog
<1>3. ASSUME NEW t \in open, Ratings!AbortAppend(t)
      PROVE  LogInv' /\ EndingsOnly' /\ LogGrows
  <2>1. AbortAppend(t)
    BY <1>3 DEF Ratings!AbortAppend, AbortAppend
  <2>2. EndingsOnly'
    BY <2>1 DEF AbortAppend, EndingsOnly
  <2> QED BY <2>1, <2>2, AbortKeepsLog
<1> QED BY <1>1, <1>2, <1>3 DEF Ratings!LogNext

\* The log moves under the appliers.
LEMMA RatingsLogMoves ==
  ASSUME RatingsInv, Ratings!LogNext, UNCHANGED ratings
  PROVE  RatingsInv'
<1>1. LogInv' /\ EndingsOnly' /\ LogGrows /\ Horizon \in Nat /\ Horizon' \in Nat
  <2>1. LogInv' /\ EndingsOnly' /\ LogGrows
    BY RatingsLogStep DEF RatingsInv
  <2> QED BY <2>1, HorizonStaysNatural DEF RatingsInv
<1>2. \A e \in committed' : e \in committed \/ applied < e.x
  BY <1>1, Bounds DEF RatingsInv, DecidedToTheCheckpoint, LogGrows, LogInv, LogTypeOK
<1>3. UNCHANGED <<applied, ledger, unrated, rbatch>> /\ Decided' = Decided
  BY DEF ratings, Decided, Ratings!Decided, Ratings!ToSet
<1>4. DecidedToTheCheckpoint'
  <2>1. applied' \in Nat /\ applied' < Horizon' /\ ledger' \in Seq(Game) /\ unrated' \subseteq Game
    BY <1>1, <1>3 DEF RatingsInv, DecidedToTheCheckpoint, LogGrows
  <2>2. \A g \in Decided' : \E e \in committed' : e.game = g /\ e.x <= applied'
    BY <1>1, <1>3 DEF RatingsInv, DecidedToTheCheckpoint, LogGrows
  <2>3. \A e \in committed' : e.x <= applied' => e.game \in Decided'
    <3>1. \A e \in committed' : e.x \in Nat /\ applied \in Nat
      BY <1>1, Bounds DEF RatingsInv, DecidedToTheCheckpoint, LogInv, LogTypeOK
    <3> QED BY <1>2, <1>3, <3>1 DEF RatingsInv, DecidedToTheCheckpoint
  <2> QED BY <2>1, <2>2, <2>3 DEF DecidedToTheCheckpoint
<1>5. LedgerInOrder'
  <2>1. \A i \in DOMAIN ledger : ledger[i] \in Decided
    BY DEF Decided, Ratings!Decided, Ratings!ToSet
  <2>2. \A i \in DOMAIN ledger : \A e \in committed' : e.game = ledger[i] => e \in committed
    BY <1>1, <2>1 DEF RatingsInv, DecidedToTheCheckpoint, EndingsOnly, LogGrows
  <2> QED BY <1>3, <2>2 DEF RatingsInv, LedgerInOrder
<1>6. ASSUME NEW a \in Applier PROVE RBatchOK(rbatch[a])'
  <2>1. rbatch[a].horizon \in Nat /\ RBatchOK(rbatch[a])
    BY DEF RatingsInv, RBatchesOK, RBatch
  <2>2. rbatch[a].phase # "idle" => rbatch[a].horizon <= Horizon'
    BY <1>1, <2>1 DEF LogGrows, RBatchOK
  <2>3. rbatch[a].phase = "held" => PageIsNext(rbatch[a])'
    <3>1. SUFFICES ASSUME PageIsNext(rbatch[a]), rbatch[a].horizon <= Horizon
                   PROVE  PageIsNext(rbatch[a])'
      BY <2>1 DEF RBatchOK
    <3>2. ASSUME NEW e \in rbatch[a].page, NEW f \in committed', f.x < e.x PROVE f \in committed
      <4>1. e.x < Horizon /\ e.x \in Nat /\ f.x \in Nat
        BY <1>1, <2>1, <3>1, Bounds DEF PageIsNext, LogInv, LogTypeOK, RatingsInv
      <4> QED BY <1>1, <3>2, <4>1 DEF LogGrows
    <3> QED BY <1>1, <1>3, <3>1, <3>2 DEF PageIsNext, LogGrows
  <2> QED BY <1>3, <2>2, <2>3 DEF RBatchOK
<1>7. RBatchesOK'
  BY <1>3, <1>6 DEF RatingsInv, RBatchesOK
<1> QED BY <1>1, <1>4, <1>5, <1>7 DEF RatingsInv

\* A step of one applier's batch that leaves the tables alone.
LEMMA RatingsBatchMoves ==
  ASSUME RatingsInv, UNCHANGED <<logVars, applied, ledger, unrated>>, NEW a \in Applier, NEW to \in RBatch,
         rbatch' = [rbatch EXCEPT ![a] = to], RBatchOK(to),
         to.phase = "held" => \A b \in Applier : rbatch[b].phase # "held"
  PROVE  RatingsInv'
<1>1. LogInv' /\ Horizon' = Horizon /\ committed' = committed /\ open' = open
  BY LogStands DEF RatingsInv, logVars
<1>2. Decided' = Decided
  BY DEF Decided, Ratings!Decided, Ratings!ToSet
<1>3. EndingsOnly' /\ DecidedToTheCheckpoint' /\ LedgerInOrder'
  BY <1>1, <1>2 DEF RatingsInv, EndingsOnly, DecidedToTheCheckpoint, LedgerInOrder
<1>4. rbatch' \in [Applier -> RBatch] /\ \A b \in Applier : rbatch'[b] = IF b = a THEN to ELSE rbatch[b]
  BY DEF RatingsInv, RBatchesOK
<1>5. \A b \in Applier : RBatchOK(rbatch'[b])
  BY <1>4 DEF RatingsInv, RBatchesOK
<1>6. \A b \in Applier : RBatchOK(rbatch[b])'
  BY <1>1, <1>5 DEF RBatchOK, PageIsNext
<1>7. RBatchesOK'
  BY <1>4, <1>6 DEF RatingsInv, RBatchesOK
<1> QED BY <1>1, <1>3, <1>7 DEF RatingsInv

LEMMA RIdle == Ratings!Idle \in RBatch /\ Ratings!Idle.phase = "idle" /\ RBatchOK(Ratings!Idle)
BY DEF Ratings!Idle, RBatch, RBatchOK

LEMMA RatingsSnapshot ==
  ASSUME RatingsInv, NEW a \in Applier, Ratings!TakeSnapshot(a)
  PROVE  RatingsInv'
<1> DEFINE to == [Ratings!Idle EXCEPT !.phase = "snapped", !.horizon = Ratings!Horizon]
<1>1. Horizon \in Nat /\ Ratings!Horizon = Horizon
  BY HorizonFacts, RatingsReadTheLog DEF RatingsInv
<1>2. to \in RBatch /\ to.phase = "snapped" /\ to.horizon = Horizon
  BY <1>1 DEF RBatch, Ratings!Idle
<1>3. UNCHANGED <<logVars, applied, ledger, unrated>> /\ rbatch' = [rbatch EXCEPT ![a] = to]
  BY DEF Ratings!TakeSnapshot, Ratings!logVars, logVars
<1> HIDE DEF to
<1>4. RBatchOK(to)
  BY <1>1, <1>2 DEF RBatchOK
<1> QED BY <1>2, <1>3, <1>4, RatingsBatchMoves

LEMMA RatingsLock ==
  ASSUME RatingsInv, NEW a \in Applier, Ratings!LockCheckpoint(a)
  PROVE  RatingsInv'
<1> DEFINE h == rbatch[a].horizon
           page == Page(committed, applied, h, BatchSize)
           to == [phase |-> "held", horizon |-> h, rewound |-> FALSE, page |-> page]
<1>1. /\ rbatch \in [Applier -> RBatch] /\ rbatch[a].phase = "snapped" /\ h \in Nat /\ h <= Horizon
      /\ UNCHANGED <<logVars, applied, ledger, unrated>>
  BY DEF RatingsInv, RBatchesOK, RBatch, RBatchOK, Ratings!LockCheckpoint, Ratings!logVars, logVars
<1>2. Ratings!Rewound(a) = FALSE /\ applied \in Nat /\ Horizon \in Nat
  BY HorizonFacts, RatingsReadTheLog DEF Ratings!Rewound, RatingsInv, DecidedToTheCheckpoint
<1>3. CASE \E b \in Applier : rbatch[b].phase = "held"
  <2>1. rbatch' = [rbatch EXCEPT ![a] = Ratings!Idle]
    BY <1>3 DEF Ratings!LockCheckpoint
  <2> QED BY <1>1, <2>1, RIdle, RatingsBatchMoves
<1>4. CASE \A b \in Applier : rbatch[b].phase # "held"
  <2>1. rbatch' = [rbatch EXCEPT ![a] = to]
    BY <1>2, <1>4, RatingsReadTheLog DEF Ratings!LockCheckpoint
  <2>2. /\ page \subseteq committed
        /\ \A e \in page : /\ applied < e.x /\ e.x < h
                           /\ \A f \in committed : applied < f.x /\ f.x < e.x => f \in page
    <3>1. IsFiniteSet(committed) /\ \A e \in committed : e.x \in Nat
      BY Bounds DEF RatingsInv, LogInv, LogTypeOK
    <3> HIDE DEF h
    <3> QED BY <1>1, <1>2, <3>1, Bounds, PageFacts
  <2>3. committed \subseteq Event
    BY DEF RatingsInv, LogInv, LogTypeOK, Event
  <2> HIDE DEF page, h
  <2>4. to \in RBatch /\ to.phase = "held"
    BY <1>1, <2>2, <2>3 DEF RBatch
  <2>5. RBatchOK(to)
    BY <1>1, <2>2 DEF RBatchOK, PageIsNext
  <2> HIDE DEF to
  <2> QED BY <1>1, <1>4, <2>1, <2>4, <2>5, RatingsBatchMoves
<1> QED BY <1>3, <1>4

LEMMA RatingsFail ==
  ASSUME RatingsInv, NEW a \in Applier, Ratings!BatchFails(a)
  PROVE  RatingsInv'
<1>1. UNCHANGED <<logVars, applied, ledger, unrated>> /\ rbatch' = [rbatch EXCEPT ![a] = Ratings!Idle]
  BY DEF Ratings!BatchFails, Ratings!logVars, logVars
<1> QED BY <1>1, RIdle, RatingsBatchMoves

LEMMA SequenceOf ==
  ASSUME NEW S, NEW n \in Nat, NEW f \in [1..n -> S]
  PROVE  f \in Seq(S) /\ Len(f) = n
<1>1. f \in Seq(S)
  BY SeqDef
<1> QED BY <1>1, LenProperties

LEMMA GamesOfAPage ==
  ASSUME NEW E, IsFiniteSet(E), NEW D
  PROVE  IsFiniteSet({e.game : e \in E} \ D)
<1> DEFINE G == {e.game : e \in E}
           f == [e \in E |-> e.game]
<1>1. f \in [E -> G] /\ \A g \in G : \E e \in E : f[e] = g
  OBVIOUS
<1>2. f \in Surjection(E, G)
  BY <1>1 DEF Surjection
<1>3. IsFiniteSet(G)
  BY <1>2, FS_Surjection
<1> QED BY <1>3, FS_Subset

\* What a batch writes.
LEMMA BatchWrites ==
  ASSUME RatingsInv, NEW a \in Applier, Ratings!CommitBatch(a)
  PROVE  \E out \in SUBSET {e.game : e \in rbatch[a].page}, rated \in Seq(Game) :
           /\ Ratings!ToSet(rated) = {e.game : e \in rbatch[a].page} \ out
           /\ \A i, j \in DOMAIN rated : i < j => Ratings!XidOf(rated[i]) < Ratings!XidOf(rated[j])
           /\ ledger' = ledger \o rated
           /\ unrated' = unrated \cup out
<1> DEFINE page == rbatch[a].page
           games == {e.game : e \in page}
<1>1. page \subseteq committed /\ IsFiniteSet(committed) /\ games \subseteq Game
      /\ \A e \in page : applied < e.x /\ e.game \in Game
  BY DEF RatingsInv, RBatchesOK, RBatchOK, PageIsNext, Ratings!CommitBatch, LogInv, LogTypeOK
<1>2. \A e \in page : e.game \notin Decided
  <2>1. applied \in Nat /\ \A e \in committed : e.x \in Nat
    BY Bounds DEF RatingsInv, DecidedToTheCheckpoint, LogInv, LogTypeOK
  <2> QED BY <1>1, <2>1 DEF RatingsInv, DecidedToTheCheckpoint, EndingsOnly
<1>3. Ratings!Undecided(page) = games
  BY <1>2 DEF Ratings!Undecided, Decided
<1>4. PICK out \in SUBSET games :
        /\ \E rated \in Ratings!InLogOrder(games \ out) : ledger' = ledger \o rated
        /\ unrated' = unrated \cup out
  BY <1>3 DEF Ratings!CommitBatch
<1>5. PICK rated \in Ratings!InLogOrder(games \ out) : ledger' = ledger \o rated
  BY <1>4
<1>6. Ratings!Cardinality(games \ out) \in Nat
  <2>1. IsFiniteSet(page)
    BY <1>1, FS_Subset
  <2>2. IsFiniteSet(games \ out)
    BY <2>1, GamesOfAPage
  <2> HIDE DEF games
  <2>3. Cardinality(games \ out) \in Nat
    BY <2>2, FS_CardinalityType
  <2> QED BY <2>3 DEF Ratings!Cardinality, Cardinality
<1> HIDE DEF games
<1>7. /\ rated \in [1..Ratings!Cardinality(games \ out) -> games \ out]
      /\ Ratings!ToSet(rated) = games \ out
      /\ \A i, j \in DOMAIN rated : i < j => Ratings!XidOf(rated[i]) < Ratings!XidOf(rated[j])
  BY <1>5 DEF Ratings!InLogOrder
<1>8. rated \in [1..Ratings!Cardinality(games \ out) -> Game]
  BY <1>1, <1>7
<1>9. rated \in Seq(Game)
  BY <1>6, <1>8, SequenceOf
<1> QED BY <1>4, <1>5, <1>7, <1>9 DEF games

\* Where the checkpoint goes: past the page, and past nothing else.
LEMMA CheckpointMoves ==
  ASSUME RatingsInv, NEW a \in Applier, Ratings!CommitBatch(a)
  PROVE  /\ applied' \in Nat /\ applied <= applied' /\ applied' < Horizon
         /\ \A e \in committed : e.x <= applied' <=> (e.x <= applied \/ e \in rbatch[a].page)
<1> DEFINE page == rbatch[a].page
<1>1. /\ PageIsNext(rbatch[a]) /\ rbatch[a].horizon \in Nat /\ rbatch[a].horizon <= Horizon
      /\ applied \in Nat /\ applied < Horizon /\ Horizon \in Nat
  BY HorizonFacts DEF RatingsInv, RBatchesOK, RBatchOK, RBatch, Ratings!CommitBatch, DecidedToTheCheckpoint
<1>2. /\ page \subseteq committed
      /\ \A e \in page : /\ applied < e.x /\ e.x < Horizon
                         /\ \A f \in committed : applied < f.x /\ f.x < e.x => f \in page
      /\ \A e \in committed : e.x \in 1..MaxXid /\ e.x \in Nat
      /\ \A e, f \in committed : e.x = f.x => e = f
  <2>1. page \subseteq committed /\ \A e \in committed : e.x \in 1..MaxXid /\ e.x \in Nat
    BY <1>1, Bounds DEF PageIsNext, RatingsInv, LogInv, LogTypeOK
  <2> QED BY <1>1, <2>1 DEF PageIsNext, RatingsInv, LogInv, IdsAreOnce
<1>3. CASE page = {}
  <2>1. applied' = applied
    BY <1>1, <1>3 DEF Ratings!CommitBatch, PageIsNext
  <2> QED BY <1>1, <1>3, <2>1
<1>4. CASE page # {}
  <2>1. applied' = Max(Positions(page))
    BY <1>4, RatingsReadTheLog DEF Ratings!CommitBatch
  <2>2. (\E e \in page : Max(Positions(page)) = e.x) /\ \A e \in page : e.x <= Max(Positions(page))
    <3>1. \A e \in page : e.x \in 1..MaxXid
      BY <1>2
    <3> HIDE DEF page
    <3> QED BY <1>4, <3>1, LastOf
  <2>3. PICK last \in page : applied' = last.x
    BY <2>1, <2>2
  <2> HIDE DEF page
  <2>4. \A e \in committed : e.x <= applied' <=> (e.x <= applied \/ e \in page)
    BY <1>1, <1>2, <2>1, <2>2, <2>3
  <2> QED BY <1>1, <1>2, <2>3, <2>4 DEF page
<1> QED BY <1>3, <1>4

LEMMA RatingsCommit ==
  ASSUME RatingsInv, NEW a \in Applier, Ratings!CommitBatch(a)
  PROVE  RatingsInv'
<1> DEFINE page == rbatch[a].page
           games == {e.game : e \in page}
<1>1. PICK out \in SUBSET games, rated \in Seq(Game) :
        /\ Ratings!ToSet(rated) = games \ out
        /\ \A i, j \in DOMAIN rated : i < j => Ratings!XidOf(rated[i]) < Ratings!XidOf(rated[j])
        /\ ledger' = ledger \o rated
        /\ unrated' = unrated \cup out
  BY BatchWrites
<1>2. /\ applied' \in Nat /\ applied <= applied' /\ applied' < Horizon /\ applied \in Nat
      /\ \A e \in committed : e.x <= applied' <=> (e.x <= applied \/ e \in page)
  BY CheckpointMoves DEF RatingsInv, DecidedToTheCheckpoint
<1>3. /\ UNCHANGED logVars /\ rbatch' = [rbatch EXCEPT ![a] = Ratings!Idle] /\ rbatch[a].phase = "held"
  BY DEF Ratings!CommitBatch, Ratings!logVars, logVars
<1>4. LogInv' /\ EndingsOnly' /\ Horizon' = Horizon /\ committed' = committed
  BY <1>3, LogStands DEF RatingsInv, EndingsOnly, logVars
<1>5. /\ page \subseteq committed /\ \A e \in page : applied < e.x
      /\ \A e \in committed : e.x \in Nat /\ e.game \in Game
      /\ \A e, f \in committed : e.game = f.game => e = f
  BY <1>3, Bounds DEF RatingsInv, RBatchesOK, RBatchOK, PageIsNext, LogInv, LogTypeOK, EndingsOnly
<1>6. /\ ledger \in Seq(Game) /\ Len(ledger) \in Nat /\ Len(rated) \in Nat
      /\ DOMAIN ledger = 1..Len(ledger) /\ DOMAIN rated = 1..Len(rated)
      /\ ledger' \in Seq(Game) /\ DOMAIN ledger' = 1..(Len(ledger) + Len(rated))
      /\ \A i \in DOMAIN ledger' : ledger'[i] = IF i <= Len(ledger) THEN ledger[i] ELSE rated[i - Len(ledger)]
  <2>1. ledger \in Seq(Game)
    BY DEF RatingsInv, DecidedToTheCheckpoint
  <2>2. /\ ledger \o rated \in Seq(Game) /\ Len(ledger \o rated) = Len(ledger) + Len(rated)
        /\ \A i \in 1 .. Len(ledger) + Len(rated) :
             (ledger \o rated)[i] = IF i <= Len(ledger) THEN ledger[i] ELSE rated[i - Len(ledger)]
    BY <2>1, ConcatProperties
  <2> QED BY <1>1, <2>1, <2>2, LenProperties
<1>7. /\ \A i \in DOMAIN ledger : ledger[i] \in DOMAIN ledger' \cup {ledger[i]} /\ ledger'[i] = ledger[i]
      /\ \A j \in DOMAIN rated : Len(ledger) + j \in DOMAIN ledger' /\ ledger'[Len(ledger) + j] = rated[j]
      /\ \A i \in DOMAIN ledger' : i \in DOMAIN ledger \/ \E j \in DOMAIN rated : i = Len(ledger) + j
  <2>1. \A i \in DOMAIN ledger' : i \in DOMAIN ledger \/ i - Len(ledger) \in DOMAIN rated
    BY <1>6
  <2>2. \A i \in DOMAIN ledger' : i = Len(ledger) + (i - Len(ledger))
    BY <1>6
  <2> QED BY <1>6, <2>1, <2>2
<1>8. \A g : g \in Decided' <=> g \in Decided \/ g \in games
  <2>1. \A g : g \in Ratings!ToSet(ledger') <=> g \in Ratings!ToSet(ledger) \/ g \in Ratings!ToSet(rated)
    <3>1. \A g : g \in Ratings!ToSet(ledger) <=> \E i \in DOMAIN ledger : ledger[i] = g
      BY DEF Ratings!ToSet
    <3>2. \A g : g \in Ratings!ToSet(ledger)' <=> \E i \in DOMAIN ledger' : ledger'[i] = g
      BY DEF Ratings!ToSet
    <3>3. \A g : g \in Ratings!ToSet(rated) <=> \E i \in DOMAIN rated : rated[i] = g
      BY DEF Ratings!ToSet
    <3>4. DOMAIN ledger \subseteq DOMAIN ledger'
      BY <1>6
    <3> QED BY <1>7, <3>1, <3>2, <3>3, <3>4
  <2>2. Decided = Ratings!ToSet(ledger) \cup unrated /\ Decided' = Ratings!ToSet(ledger') \cup unrated'
    BY DEF Decided, Ratings!Decided, Ratings!ToSet
  <2> QED BY <1>1, <2>1, <2>2
<1>9. DecidedToTheCheckpoint'
  <2>1. unrated' \subseteq Game
    BY <1>1, <1>5 DEF RatingsInv, DecidedToTheCheckpoint
  <2>2. ASSUME NEW g \in Decided' PROVE \E e \in committed' : e.game = g /\ e.x <= applied'
    <3>1. CASE g \in Decided
      BY <1>2, <1>4, <1>5, <3>1 DEF RatingsInv, DecidedToTheCheckpoint
    <3>2. CASE g \in games
      BY <1>2, <1>4, <1>5, <3>2
    <3> QED BY <1>8, <3>1, <3>2
  <2>3. ASSUME NEW e \in committed, e.x <= applied' PROVE e.game \in Decided'
    BY <1>2, <1>8, <2>3 DEF RatingsInv, DecidedToTheCheckpoint
  <2> QED BY <1>2, <1>4, <1>6, <2>1, <2>2, <2>3 DEF DecidedToTheCheckpoint
<1>10. LedgerInOrder'
  <2>1. \A i \in DOMAIN ledger : ledger[i] \in Decided
    BY DEF Decided, Ratings!Decided, Ratings!ToSet
  <2>2. \A i \in DOMAIN ledger : \A e \in committed : e.game = ledger[i] => e.x <= applied
    BY <1>5, <2>1 DEF RatingsInv, DecidedToTheCheckpoint
  <2>3. \A j \in DOMAIN rated : rated[j] \in games
    BY <1>1 DEF Ratings!ToSet
  <2>4. \A j \in DOMAIN rated : \A e \in committed : e.game = rated[j] => applied < e.x
    BY <1>5, <2>3
  <2>5. \A i, j \in DOMAIN rated : i < j =>
          \A e, f \in committed : e.game = rated[i] /\ f.game = rated[j] => e.x < f.x
    <3>1. \A e \in committed : Ratings!XidOf(e.game) = e.x
      BY PlaceInTheLog DEF RatingsInv
    <3> QED BY <1>1, <3>1
  <2>6. ASSUME NEW i \in DOMAIN ledger', NEW j \in DOMAIN ledger', i < j,
               NEW e \in committed, NEW f \in committed, e.game = ledger'[i], f.game = ledger'[j]
        PROVE  e.x < f.x
    <3>0. i \in Nat /\ j \in Nat /\ e.x \in Nat /\ f.x \in Nat
      BY <1>5, <1>6
    <3>1. CASE i \in DOMAIN ledger /\ j \in DOMAIN ledger
      <4>1. e.game = ledger[i] /\ f.game = ledger[j]
        BY <1>7, <2>6, <3>1
      <4> QED BY <2>6, <3>1, <4>1 DEF RatingsInv, LedgerInOrder
    <3>2. CASE i \in DOMAIN ledger /\ j \notin DOMAIN ledger
      <4>1. PICK l \in DOMAIN rated : j = Len(ledger) + l
        BY <1>7, <3>2
      <4>2. e.game = ledger[i] /\ f.game = rated[l]
        BY <1>7, <2>6, <3>2, <4>1
      <4>3. e.x <= applied /\ applied < f.x
        BY <2>2, <2>4, <3>2, <4>2
      <4> QED BY <1>2, <3>0, <4>3
    <3>3. CASE i \notin DOMAIN ledger
      <4>1. PICK k \in DOMAIN rated : i = Len(ledger) + k
        BY <1>7, <3>3
      <4>2. j \notin DOMAIN ledger
        BY <1>6, <2>6, <3>0, <3>3
      <4>3. PICK l \in DOMAIN rated : j = Len(ledger) + l
        BY <1>7, <4>2
      <4>4. k < l /\ e.game = rated[k] /\ f.game = rated[l]
        BY <1>6, <1>7, <2>6, <4>1, <4>3
      <4> QED BY <2>5, <4>4
    <3> QED BY <3>1, <3>2, <3>3
  <2> QED BY <1>4, <2>6 DEF LedgerInOrder
<1>11. RBatchesOK'
  <2>1. /\ rbatch' \in [Applier -> RBatch]
        /\ \A b \in Applier : rbatch'[b] = IF b = a THEN Ratings!Idle ELSE rbatch[b]
    BY <1>3, RIdle DEF RatingsInv, RBatchesOK
  <2>2. \A b \in Applier : b # a => rbatch[b].phase # "held"
    BY <1>3 DEF RatingsInv, RBatchesOK
  <2>3. \A b \in Applier : RBatchOK(rbatch'[b]) /\ rbatch'[b].phase # "held"
    BY <2>1, <2>2, RIdle DEF RatingsInv, RBatchesOK
  <2>4. \A b \in Applier : RBatchOK(rbatch[b])'
    BY <1>4, <2>3 DEF RBatchOK
  <2> QED BY <2>1, <2>3, <2>4 DEF RBatchesOK
<1> QED BY <1>4, <1>9, <1>10, <1>11 DEF RatingsInv

LEMMA RatingsStart == Ratings!Init => RatingsInv
<1> SUFFICES ASSUME Ratings!Init PROVE RatingsInv
  OBVIOUS
<1>1. /\ LogInit /\ applied = 0 /\ ledger = <<>> /\ unrated = {} /\ rbatch = [a \in Applier |-> Ratings!Idle]
  BY DEF Ratings!Init, Ratings!LogInit, LogInit
<1>2. LogInv /\ Horizon \in Nat \ {0} /\ committed = {} /\ open = {}
  BY <1>1, LogStarts, HorizonFacts DEF LogInit
<1>3. Decided = {}
  BY <1>1 DEF Decided, Ratings!Decided, Ratings!ToSet
<1>4. EndingsOnly /\ LedgerInOrder /\ DecidedToTheCheckpoint
  BY <1>1, <1>2, <1>3 DEF EndingsOnly, LedgerInOrder, DecidedToTheCheckpoint
<1>5. RBatchesOK
  <2> HIDE DEF Ratings!Idle
  <2> QED BY <1>1, RIdle DEF RBatchesOK
<1> QED BY <1>2, <1>4, <1>5 DEF RatingsInv

LEMMA RatingsStep == RatingsInv /\ [Ratings!Next]_Ratings!vars => RatingsInv'
<1> SUFFICES ASSUME RatingsInv, [Ratings!Next]_Ratings!vars PROVE RatingsInv'
  OBVIOUS
<1>1. CASE UNCHANGED Ratings!vars
  <2>1. UNCHANGED <<logVars, applied, ledger, unrated, rbatch>>
    BY <1>1 DEF Ratings!vars, Ratings!logVars, logVars
  <2>2. LogInv' /\ Horizon' = Horizon /\ committed' = committed /\ open' = open
    BY <2>1, LogStands DEF RatingsInv, logVars
  <2>3. Decided' = Decided
    BY <2>1 DEF Decided, Ratings!Decided, Ratings!ToSet
  <2>4. EndingsOnly' /\ DecidedToTheCheckpoint' /\ LedgerInOrder'
    BY <2>1, <2>2, <2>3 DEF RatingsInv, EndingsOnly, DecidedToTheCheckpoint, LedgerInOrder
  <2>5. \A b \in Applier : RBatchOK(rbatch[b])'
    BY <2>1, <2>2 DEF RatingsInv, RBatchesOK, RBatchOK, PageIsNext
  <2>6. RBatchesOK'
    BY <2>1, <2>5 DEF RatingsInv, RBatchesOK
  <2> QED BY <2>2, <2>4, <2>6 DEF RatingsInv
<1>2. CASE Ratings!LogNext /\ UNCHANGED <<applied, ledger, unrated, rbatch>>
  BY <1>2, RatingsLogMoves DEF ratings
<1>3. CASE \E a \in Applier : Ratings!TakeSnapshot(a) \/ Ratings!LockCheckpoint(a)
                              \/ Ratings!CommitBatch(a) \/ Ratings!BatchFails(a)
  BY <1>3, RatingsSnapshot, RatingsLock, RatingsCommit, RatingsFail
<1> QED BY <1>1, <1>2, <1>3 DEF Ratings!Next

LEMMA RatedInTheOrderOfTheLog == RatingsInv => Ratings!RatedInOrder
<1> SUFFICES ASSUME RatingsInv PROVE Ratings!RatedInOrder
  OBVIOUS
<1>1. \A i \in DOMAIN ledger : \E e \in committed : e.game = ledger[i]
  BY DEF Decided, Ratings!Decided, Ratings!ToSet, RatingsInv, DecidedToTheCheckpoint
<1>2. \A e \in committed : Ratings!XidOf(e.game) = e.x
  BY PlaceInTheLog DEF RatingsInv
<1>3. \A i, j \in DOMAIN ledger : i < j => Ratings!XidOf(ledger[i]) < Ratings!XidOf(ledger[j])
  BY <1>1, <1>2 DEF RatingsInv, LedgerInOrder
<1> QED BY <1>3 DEF Ratings!RatedInOrder, RatingsInv, DecidedToTheCheckpoint, Decided

LEMMA AppliersNeverRewind == RatingsInv /\ [Ratings!Next]_Ratings!vars => [applied' >= applied]_applied
<1> SUFFICES ASSUME RatingsInv, Ratings!Next, applied' # applied PROVE applied' >= applied
  BY DEF Ratings!vars
<1>1. PICK a \in Applier : Ratings!CommitBatch(a)
  BY DEF Ratings!Next, Ratings!TakeSnapshot, Ratings!LockCheckpoint, Ratings!BatchFails
<1>2. applied' \in Nat /\ applied \in Nat /\ applied <= applied'
  BY <1>1, CheckpointMoves DEF RatingsInv, DecidedToTheCheckpoint
<1> QED BY <1>2

(* Every rated ending counts once, in the order of the log, and the        *)
(* checkpoint passes no undecided ending and never goes back               *)
(* (ratings-applier.ts, runBatch).                                         *)
THEOREM RatingsFollow == Ratings!Spec => Ratings!RatingsFollowTheLog
<1>1. Ratings!Spec => []RatingsInv
  BY RatingsStart, RatingsStep, PTL DEF Ratings!Spec
<1>2. Ratings!Spec => []Ratings!RatedInOrder
  BY <1>1, RatedInTheOrderOfTheLog, PTL
<1>3. Ratings!Spec => [][applied' >= applied]_applied
  BY <1>1, AppliersNeverRewind, PTL DEF Ratings!Spec
<1> QED BY <1>2, <1>3, PTL DEF Ratings!RatingsFollowTheLog, Ratings!NeverRewinds

-----------------------------------------------------------------------------
(* The projectors. *)

LEMMA ProjectionReadsTheLog ==
  /\ Projection!Horizon = Horizon
  /\ \A E, a, h, n : Projection!Page(E, a, h, n) = Page(E, a, h, n)
  /\ \A E, g : Projection!Height(E, g) = Height(E, g)
  /\ \A E : Projection!Max(Projection!Positions(E)) = Max(Positions(E))
BY DEF Projection!Horizon, Horizon, Projection!Min, Min, Projection!Page, Page, Projection!Height, Height,
       Projection!Cardinality, Cardinality, Projection!Max, Max, Projection!Positions, Positions

\* Every event is of a game the projectors follow.
ProjectedOnly ==
  /\ \A t \in open : t.game \in Projected
  /\ \A e \in committed : e.game \in Projected

\* A row shows committed events, and no ending is announced before a row shows it.
RowsShowTheLog ==
  /\ row \in [Projected -> Nat] /\ announced \in [Projected -> Nat] /\ failing \subseteq Projected
  /\ \A g \in Projected : row[g] <= Height(committed, g)
  /\ \A g \in Projected : row[g] <= EndSeq => announced[g] = 0

\* A row shows an event, or its game is on record.
Shown(e, record) == row[e.game] > e.seq \/ e.game \in record

CheckpointTrails ==
  /\ checkpoint \in Nat /\ checkpoint < Horizon
  /\ \A e \in committed : e.x <= checkpoint => Shown(e, failing)

Base(b) == IF b.rewound THEN 0 ELSE checkpoint

\* The page of a batch that holds the checkpoint is all there is between its base and
\* its last event, below a horizon that stands; the streams it has loaded hold
\* everything the checkpoint has passed or is about to pass.
PBatchOK(b) ==
  /\ b.phase # "idle" => b.horizon <= Horizon
  /\ b.phase \in {"held", "loaded"} =>
       /\ b.page \subseteq committed
       /\ \A e \in b.page :
            /\ Base(b) < e.x /\ e.x < b.horizon
            /\ \A f \in committed : Base(b) < f.x /\ f.x < e.x => f \in b.page
  /\ b.phase = "loaded" =>
       /\ \A g \in Projected : b.height[g] <= Height(committed, g)
       /\ \A e \in committed : e.x <= checkpoint \/ e \in b.page => b.height[e.game] > e.seq

PBatch == [phase : {"idle", "snapped", "held", "loaded"}, horizon : Nat, page : SUBSET Event, rewound : BOOLEAN,
           retried : SUBSET Projected, height : [Projected -> Nat]]

PBatchesOK ==
  /\ batch \in [Projector -> PBatch]
  /\ \A p \in Projector : PBatchOK(batch[p])
  /\ \A p, q \in Projector : batch[p].phase \in {"held", "loaded"} /\ batch[q].phase \in {"held", "loaded"} => p = q

PRebuild == [phase : {"idle", "read"}, log : SUBSET Event, failing : SUBSET Projected, live : SUBSET Projected,
             written : SUBSET Projected, failed : SUBSET Projected]

\* What a rebuild has read stays true of the table, up to the failures recorded beside it.
RebuildOK ==
  /\ rebuild \in PRebuild
  /\ rebuild.phase = "read" =>
       /\ rebuild.log \subseteq committed /\ Numbered(rebuild.log)
       /\ \A e \in committed : e.x <= checkpoint /\ e \notin rebuild.log => Shown(e, rebuild.failed)
       /\ \A e \in rebuild.log : e.game \notin rebuild.live => Shown(e, rebuild.failing)
       /\ rebuild.failing \subseteq failing \cup rebuild.failed

ProjectionInv == LogInv /\ ProjectedOnly /\ RowsShowTheLog /\ CheckpointTrails /\ PBatchesOK /\ RebuildOK

LEMMA ProjectionLogStep ==
  ASSUME LogInv, ProjectedOnly, Projection!LogNext
  PROVE  LogInv' /\ ProjectedOnly' /\ LogGrows
<1>1. ASSUME NEW g \in Projected, Projection!StartAppend(g)
      PROVE  LogInv' /\ ProjectedOnly' /\ LogGrows
  <2>1. StartAppend(g) /\ g \in Game
    BY <1>1, Bounds, ProjectionReadsTheLog DEF Projection!StartAppend, StartAppend
  <2> DEFINE t0 == [x |-> next, game |-> g]
  <2>2. open' = open \cup {t0} /\ committed' = committed /\ t0.game = g
    BY <2>1 DEF StartAppend
  <2> HIDE DEF t0
  <2>3. ProjectedOnly'
    BY <2>2 DEF ProjectedOnly
  <2> QED BY <2>1, <2>3, StartKeepsLog
<1>2. ASSUME NEW t \in open, Projection!CommitAppend(t)
      PROVE  LogInv' /\ ProjectedOnly' /\ LogGrows
  <2>1. CommitAppend(t)
    BY <1>2, ProjectionReadsTheLog DEF Projection!CommitAppend, CommitAppend
  <2> DEFINE e0 == [x |-> t.x, game |-> t.game, seq |-> Height(committed, t.game)]
  <2>2. committed' = committed \cup {e0} /\ open' = open \ {t} /\ e0.game = t.game
    BY <2>1 DEF CommitAppend
  <2> HIDE DEF e0
  <2>3. ProjectedOnly'
    BY <2>2 DEF ProjectedOnly
  <2> QED BY <2>1, <2>3, CommitKeepsLog
<1>3. ASSUME NEW t \in open, Projection!AbortAppend(t)
      PROVE  LogInv' /\ ProjectedOnly' /\ LogGrows
  <2>1. AbortAppend(t)
    BY <1>3 DEF Projection!AbortAppend, AbortAppend
  <2>2. ProjectedOnly'
    BY <2>1 DEF AbortAppend, ProjectedOnly
  <2> QED BY <2>1, <2>2, AbortKeepsLog
<1> QED BY <1>1, <1>2, <1>3 DEF Projection!LogNext

LEMMA HeightsOfTheLog ==
  ASSUME LogInv, NEW g
  PROVE  Height(committed, g) \in Nat
BY HeightFacts DEF LogInv

LEMMA BatchMovesWithTheLog ==
  ASSUME LogInv, LogInv', LogGrows, checkpoint \in Nat, checkpoint < Horizon, checkpoint' = checkpoint,
         NEW b \in PBatch, PBatchOK(b)
  PROVE  PBatchOK(b)'
<1>1. /\ Horizon \in Nat /\ Horizon' \in Nat /\ b.horizon \in Nat /\ b.height \in [Projected -> Nat]
      /\ \A e \in committed' : e.x \in Nat
  BY HorizonStaysNatural, Bounds DEF PBatch, LogInv, LogTypeOK
<1>2. \A e \in committed' : e.x < Horizon => e \in committed
  BY <1>1 DEF LogGrows
<1>3. b.phase # "idle" => b.horizon <= Horizon'
  BY <1>1 DEF PBatchOK, LogGrows
<1>4. ASSUME b.phase \in {"held", "loaded"}
      PROVE  /\ b.page \subseteq committed'
             /\ \A e \in b.page :
                  /\ Base(b)' < e.x /\ e.x < b.horizon
                  /\ \A f \in committed' : Base(b)' < f.x /\ f.x < e.x => f \in b.page
  <2>1. /\ b.page \subseteq committed /\ Base(b)' = Base(b)
        /\ \A e \in b.page :
             /\ Base(b) < e.x /\ e.x < b.horizon
             /\ \A f \in committed : Base(b) < f.x /\ f.x < e.x => f \in b.page
    BY <1>4 DEF PBatchOK, Base
  <2>2. \A e \in b.page : \A f \in committed' : f.x < e.x => f \in committed
    <3>1. b.horizon <= Horizon
      BY <1>4 DEF PBatchOK
    <3>2. committed \subseteq committed'
      BY DEF LogGrows
    <3> QED BY <1>1, <1>2, <2>1, <3>1, <3>2
  <2>3. b.page \subseteq committed'
    BY <2>1 DEF LogGrows
  <2> QED BY <2>1, <2>2, <2>3
<1>5. ASSUME b.phase = "loaded"
      PROVE  /\ \A g \in Projected : b.height[g] <= Height(committed', g)
             /\ \A e \in committed' : e.x <= checkpoint' \/ e \in b.page => b.height[e.game] > e.seq
  <2>1. /\ \A g \in Projected : b.height[g] <= Height(committed, g)
        /\ \A e \in committed : e.x <= checkpoint \/ e \in b.page => b.height[e.game] > e.seq
        /\ b.page \subseteq committed
    BY <1>5 DEF PBatchOK
  <2>2. \A g : /\ Height(committed, g) \in Nat /\ Height(committed', g) \in Nat
               /\ Height(committed, g) <= Height(committed', g)
    BY HeightFacts, HeightGrows DEF LogInv, LogGrows
  <2>3. \A g \in Projected : b.height[g] <= Height(committed', g)
    BY <1>1, <2>1, <2>2
  <2>4. \A e \in committed' : e.x <= checkpoint' => e \in committed
    BY <1>1, <1>2
  <2> QED BY <2>1, <2>3, <2>4
<1> QED BY <1>3, <1>4, <1>5 DEF PBatchOK

LEMMA ProjectionLogMoves ==
  ASSUME ProjectionInv, Projection!LogNext, UNCHANGED projector
  PROVE  ProjectionInv'
<1>1. LogInv /\ LogInv' /\ ProjectedOnly' /\ LogGrows /\ Horizon \in Nat /\ Horizon' \in Nat
  <2>1. LogInv' /\ ProjectedOnly' /\ LogGrows
    BY ProjectionLogStep DEF ProjectionInv
  <2> QED BY <2>1, HorizonStaysNatural DEF ProjectionInv
<1>2. checkpoint \in Nat /\ checkpoint < Horizon /\ \A e \in committed' : e.x <= checkpoint => e \in committed
  <2>1. checkpoint \in Nat /\ checkpoint < Horizon /\ \A e \in committed' : e.x \in Nat
    BY <1>1, Bounds DEF ProjectionInv, CheckpointTrails, LogInv, LogTypeOK
  <2> QED BY <1>1, <2>1 DEF LogGrows
<1>3. UNCHANGED <<checkpoint, row, failing, broken, announced, batch, rebuild>>
  BY DEF projector
<1>4. RowsShowTheLog'
  <2>1. \A g : /\ Height(committed, g) \in Nat /\ Height(committed', g) \in Nat
               /\ Height(committed, g) <= Height(committed', g)
    BY <1>1, HeightFacts, HeightGrows DEF LogInv, LogGrows
  <2>2. \A g \in Projected : row[g] \in Nat /\ row[g] <= Height(committed', g)
    BY <2>1 DEF ProjectionInv, RowsShowTheLog
  <2> QED BY <1>3, <2>2 DEF ProjectionInv, RowsShowTheLog
<1>5. CheckpointTrails'
  BY <1>1, <1>2, <1>3 DEF ProjectionInv, CheckpointTrails, Shown, LogGrows
<1>6. PBatchesOK'
  <2>1. \A p \in Projector : PBatchOK(batch[p])'
    BY <1>1, <1>2, <1>3, BatchMovesWithTheLog DEF ProjectionInv, PBatchesOK
  <2> QED BY <1>3, <2>1 DEF ProjectionInv, PBatchesOK
<1>7. RebuildOK'
  BY <1>1, <1>2, <1>3 DEF ProjectionInv, RebuildOK, Shown, LogGrows
<1> QED BY <1>1, <1>4, <1>5, <1>6, <1>7 DEF ProjectionInv

\* A step of one projector's batch that leaves the tables alone.
LEMMA ProjectionBatchMoves ==
  ASSUME ProjectionInv, UNCHANGED <<logVars, checkpoint, row, failing, announced, rebuild>>,
         NEW p \in Projector, NEW to \in PBatch, batch' = [batch EXCEPT ![p] = to], PBatchOK(to),
         to.phase \in {"held", "loaded"} => \A q \in Projector : q # p => batch[q].phase \notin {"held", "loaded"}
  PROVE  ProjectionInv'
<1>1. LogInv' /\ Horizon' = Horizon /\ committed' = committed /\ open' = open /\ checkpoint' = checkpoint
  BY LogStands DEF ProjectionInv, logVars
<1>2. ProjectedOnly' /\ RowsShowTheLog' /\ CheckpointTrails' /\ RebuildOK'
  BY <1>1 DEF ProjectionInv, ProjectedOnly, RowsShowTheLog, CheckpointTrails, RebuildOK, Shown
<1>3. batch' \in [Projector -> PBatch] /\ \A q \in Projector : batch'[q] = IF q = p THEN to ELSE batch[q]
  BY DEF ProjectionInv, PBatchesOK
<1>4. \A q \in Projector : PBatchOK(batch'[q])
  BY <1>3 DEF ProjectionInv, PBatchesOK
<1>5. \A q \in Projector : PBatchOK(batch[q])'
  BY <1>1, <1>4 DEF PBatchOK, Base
<1>6. PBatchesOK'
  BY <1>3, <1>5 DEF ProjectionInv, PBatchesOK
<1> QED BY <1>1, <1>2, <1>6 DEF ProjectionInv

LEMMA PIdle == /\ Projection!Idle \in PBatch /\ Projection!Idle.phase = "idle" /\ PBatchOK(Projection!Idle)
BY DEF Projection!Idle, PBatch, PBatchOK

LEMMA ProjectionSnapshot ==
  ASSUME ProjectionInv, NEW p \in Projector, Projection!TakeSnapshot(p)
  PROVE  ProjectionInv'
<1> DEFINE to == [Projection!Idle EXCEPT !.phase = "snapped", !.horizon = Projection!Horizon]
<1>1. Horizon \in Nat /\ Projection!Horizon = Horizon
  BY HorizonFacts, ProjectionReadsTheLog DEF ProjectionInv
<1>2. to \in PBatch /\ to.phase = "snapped" /\ to.horizon = Horizon
  BY <1>1 DEF PBatch, Projection!Idle
<1>3. UNCHANGED <<logVars, checkpoint, row, failing, announced, rebuild>> /\ batch' = [batch EXCEPT ![p] = to]
  BY DEF Projection!TakeSnapshot, Projection!logVars, logVars, Projection!projection
<1> HIDE DEF to
<1>4. PBatchOK(to)
  BY <1>1, <1>2 DEF PBatchOK
<1> QED BY <1>2, <1>3, <1>4, ProjectionBatchMoves

LEMMA ProjectionFails ==
  ASSUME ProjectionInv, NEW p \in Projector, Projection!BatchFails(p)
  PROVE  ProjectionInv'
<1>1. /\ UNCHANGED <<logVars, checkpoint, row, failing, announced, rebuild>>
      /\ batch' = [batch EXCEPT ![p] = Projection!Idle]
  BY DEF Projection!BatchFails, Projection!logVars, logVars, Projection!projection
<1> QED BY <1>1, PIdle, ProjectionBatchMoves

HeldFrom(b, w, due, page) == [b EXCEPT !.phase = "held", !.rewound = w, !.retried = due, !.page = page]

LEMMA HeldBatch ==
  ASSUME NEW b \in PBatch, NEW w \in BOOLEAN, NEW due \in SUBSET Projected, NEW page \in SUBSET Event,
         NEW to, to = HeldFrom(b, w, due, page)
  PROVE  to \in PBatch /\ to.phase = "held" /\ to.rewound = w /\ to.page = page /\ to.horizon = b.horizon
<1> DEFINE r1 == [b EXCEPT !.phase = "held"]
           r2 == [r1 EXCEPT !.rewound = w]
           r3 == [r2 EXCEPT !.retried = due]
           r4 == [r3 EXCEPT !.page = page]
<1>1. to = r4
  BY DEF PBatch, HeldFrom
<1>2. r1 \in PBatch /\ r1.phase = "held" /\ r1.horizon = b.horizon
  BY DEF PBatch
<1> HIDE DEF r1
<1>3. r2 \in PBatch /\ r2.phase = "held" /\ r2.horizon = b.horizon /\ r2.rewound = w
  BY <1>2 DEF PBatch
<1> HIDE DEF r2
<1>4. r3 \in PBatch /\ r3.phase = "held" /\ r3.horizon = b.horizon /\ r3.rewound = w
  BY <1>3 DEF PBatch
<1> HIDE DEF r3
<1>5. r4 \in PBatch /\ r4.phase = "held" /\ r4.horizon = b.horizon /\ r4.rewound = w /\ r4.page = page
  BY <1>4 DEF PBatch
<1> HIDE DEF r4
<1> QED BY <1>1, <1>5

LEMMA ProjectionLock ==
  ASSUME ProjectionInv, NEW p \in Projector, Projection!LockCheckpoint(p)
  PROVE  ProjectionInv'
<1> DEFINE h == batch[p].horizon
           w == Projection!Rewound(p)
           base == IF w THEN 0 ELSE checkpoint
           page == Page(committed, base, h, BatchSize)
<1>1. /\ batch \in [Projector -> PBatch] /\ batch[p] \in PBatch /\ batch[p].phase = "snapped"
      /\ h \in Nat /\ h <= Horizon /\ w \in BOOLEAN
      /\ checkpoint \in Nat /\ base \in Nat /\ failing \subseteq Projected
      /\ UNCHANGED <<logVars, checkpoint, row, failing, announced, rebuild>>
  BY DEF ProjectionInv, PBatchesOK, PBatch, PBatchOK, CheckpointTrails, RowsShowTheLog, Projection!LockCheckpoint,
         Projection!Rewound, Projection!logVars, logVars, Projection!projection
<1>2. PICK due \in SUBSET failing :
        batch' = [batch EXCEPT ![p] =
          IF \E q \in Projector : batch[q].phase \in {"held", "loaded"} THEN Projection!Idle
          ELSE [@ EXCEPT !.phase = "held", !.rewound = w, !.retried = due,
                         !.page = Projection!Page(committed, base, h, BatchSize)]]
  BY DEF Projection!LockCheckpoint
<1>3. CASE \E q \in Projector : batch[q].phase \in {"held", "loaded"}
  <2>1. batch' = [batch EXCEPT ![p] = Projection!Idle]
    BY <1>2, <1>3
  <2> QED BY <1>1, <2>1, PIdle, ProjectionBatchMoves
<1>4. CASE \A q \in Projector : batch[q].phase \notin {"held", "loaded"}
  <2> DEFINE to == [batch[p] EXCEPT !.phase = "held", !.rewound = w, !.retried = due, !.page = page]
  <2>0. Projection!Page(committed, base, h, BatchSize) = page
    BY ProjectionReadsTheLog
  <2> HIDE DEF base, w, page
  <2>1. batch' = [batch EXCEPT ![p] = to]
    BY <1>1, <1>2, <1>4, <2>0
  <2> USE DEF page
  <2>2. /\ page \subseteq committed
        /\ \A e \in page : /\ base < e.x /\ e.x < h
                           /\ \A f \in committed : base < f.x /\ f.x < e.x => f \in page
    <3>1. IsFiniteSet(committed) /\ \A e \in committed : e.x \in Nat
      BY Bounds DEF ProjectionInv, LogInv, LogTypeOK
    <3> HIDE DEF h
    <3> QED BY <1>1, <3>1, Bounds, PageFacts
  <2> HIDE DEF page
  <2>3. page \in SUBSET Event
    BY <2>2 DEF ProjectionInv, LogInv, LogTypeOK, Event
  <2>4. to \in PBatch /\ to.phase = "held" /\ to.rewound = w /\ to.page = page /\ to.horizon = h
    <3> DEFINE b == batch[p]
    <3>1. due \in SUBSET Projected /\ b \in PBatch
      BY <1>1
    <3>2. to = HeldFrom(b, w, due, page)
      BY DEF HeldFrom
    <3> HIDE DEF to, b
    <3>3. to \in PBatch /\ to.phase = "held" /\ to.rewound = w /\ to.page = page /\ to.horizon = b.horizon
      BY <1>1, <2>3, <3>1, <3>2, HeldBatch
    <3> QED BY <3>3 DEF b, h
  <2> HIDE DEF to, h
  <2>5. Base(to) = base
    BY <2>4 DEF Base, base
  <2>6. PBatchOK(to)
    BY <1>1, <2>2, <2>4, <2>5 DEF PBatchOK
  <2> QED BY <1>1, <1>4, <2>1, <2>4, <2>6, ProjectionBatchMoves
<1> QED BY <1>3, <1>4

LEMMA ProjectionLoad ==
  ASSUME ProjectionInv, NEW p \in Projector, Projection!LoadStreams(p)
  PROVE  ProjectionInv'
<1> DEFINE b == batch[p]
           heights == [g \in Projected |-> Height(committed, g)]
           r1 == [b EXCEPT !.phase = "loaded"]
           to == [r1 EXCEPT !.height = heights]
<1>1. /\ batch \in [Projector -> PBatch] /\ b \in PBatch /\ b.phase = "held" /\ PBatchOK(b)
      /\ UNCHANGED <<logVars, checkpoint, row, failing, announced, rebuild>>
      /\ \A q \in Projector : q # p => batch[q].phase \notin {"held", "loaded"}
      /\ \A e \in committed : e.game \in Projected
  BY DEF ProjectionInv, PBatchesOK, ProjectedOnly, Projection!LoadStreams, Projection!logVars, logVars,
         Projection!projection
<1>2. heights \in [Projected -> Nat] /\ \A g \in Projected : heights[g] = Height(committed, g)
  BY HeightsOfTheLog DEF ProjectionInv
<1>3. batch' = [batch EXCEPT ![p].phase = "loaded", ![p].height = heights]
  BY ProjectionReadsTheLog DEF Projection!LoadStreams
<1> HIDE DEF heights
<1>4. batch' = [batch EXCEPT ![p] = to]
  BY <1>1, <1>3
<1>5. r1 \in PBatch /\ r1.phase = "loaded" /\ r1.horizon = b.horizon /\ r1.page = b.page /\ r1.rewound = b.rewound
  BY <1>1 DEF PBatch
<1> HIDE DEF r1
<1>6. /\ to \in PBatch /\ to.phase = "loaded" /\ to.horizon = b.horizon /\ to.page = b.page
      /\ to.rewound = b.rewound /\ to.height = heights
  BY <1>2, <1>5 DEF PBatch
<1> HIDE DEF to, b
<1>7. \A e \in committed : heights[e.game] > e.seq
  <2>1. \A e \in committed : e.seq \in Nat /\ Height(committed, e.game) \in Nat /\ e.seq < Height(committed, e.game)
    BY Bounds, HeightsOfTheLog DEF ProjectionInv, LogInv, LogTypeOK, Numbered
  <2> QED BY <1>1, <1>2, <2>1
<1>8. \A g \in Projected : heights[g] <= Height(committed, g)
  BY <1>2
<1>9. PBatchOK(to)
  BY <1>1, <1>6, <1>7, <1>8 DEF PBatchOK, Base
<1> QED BY <1>1, <1>4, <1>6, <1>9, ProjectionBatchMoves

Marked(r, w, s, t) == [r EXCEPT !.written = @ \cup w, !.failed = @ \cup s \cup t]

MarkedIs(to, r, w, s, t) ==
  /\ to \in PRebuild /\ to.phase = r.phase /\ to.log = r.log /\ to.failing = r.failing /\ to.live = r.live
  /\ to.failed = r.failed \cup s \cup t

LEMMA MarkedRebuild ==
  ASSUME NEW r \in PRebuild, NEW w, NEW s, NEW t, w \subseteq Projected, s \subseteq Projected, t \subseteq Projected
  PROVE  MarkedIs(Marked(r, w, s, t), r, w, s, t)
<1> DEFINE r1 == [r EXCEPT !.written = r.written \cup w]
           r2 == [r1 EXCEPT !.failed = r.failed \cup s \cup t]
<1>1. Marked(r, w, s, t) = r2
  BY DEF PRebuild, Marked
<1>2. r1 \in PRebuild /\ r1.phase = r.phase /\ r1.log = r.log /\ r1.failing = r.failing /\ r1.live = r.live
  BY DEF PRebuild
<1>3. r.failed \cup s \cup t \in SUBSET Projected
  BY DEF PRebuild
<1> HIDE DEF r1
<1>4. /\ r2 \in PRebuild /\ r2.phase = r.phase /\ r2.log = r.log /\ r2.failing = r.failing /\ r2.live = r.live
      /\ r2.failed = r.failed \cup s \cup t
  BY <1>2, <1>3 DEF PRebuild
<1> HIDE DEF r2
<1> QED BY <1>1, <1>4 DEF MarkedIs

\* What a batch writes: the games that fold, and the ones recorded as failing.
FoldsInto(p, good, bad) ==
  /\ good \subseteq Projected /\ bad \subseteq Projected
  /\ \A e \in batch[p].page : e.game \in good \cup bad
  /\ row' = [g \in Projected |-> IF g \in good THEN Projection!Folded(row[g], batch[p].height[g]) ELSE row[g]]
  /\ failing' = (failing \ good) \cup bad
  /\ announced' = [g \in Projected |->
       announced[g] + IF g \in good /\ batch[p].height[g] = EndSeq + 1 /\ row[g] # EndSeq + 1 THEN 1 ELSE 0]
  /\ rebuild' \in PRebuild /\ rebuild'.phase = rebuild.phase
  /\ rebuild.phase = "read" =>
       /\ rebuild'.log = rebuild.log /\ rebuild'.failing = rebuild.failing /\ rebuild'.live = rebuild.live
       /\ rebuild'.failed = rebuild.failed \cup bad \cup (good \cap failing)
  /\ batch' = [batch EXCEPT ![p] = Projection!Idle] /\ UNCHANGED logVars

LEMMA ProjectorWrites ==
  ASSUME ProjectionInv, NEW p \in Projector, Projection!CommitBatch(p)
  PROVE  \E good, bad \in SUBSET Projected : FoldsInto(p, good, bad)
<1> DEFINE b == batch[p]
           touched == Projection!Touched(b)
           good == touched \ broken
           bad == touched \cap broken
           w == {g \in good : row[g] <= b.height[g]}
<1>1. /\ b \in PBatch /\ b.phase = "loaded" /\ b.page \subseteq committed /\ b.retried \subseteq Projected
      /\ rebuild \in PRebuild /\ \A e \in committed : e.game \in Projected
  BY DEF ProjectionInv, PBatchesOK, PBatch, PBatchOK, RebuildOK, ProjectedOnly, Projection!CommitBatch
<1>2. touched \subseteq Projected /\ \A e \in b.page : e.game \in touched
  BY <1>1 DEF Projection!Touched
<1>3. good \subseteq Projected /\ bad \subseteq Projected /\ w \subseteq Projected
      /\ \A e \in b.page : e.game \in good \cup bad
  BY <1>2
<1>4. /\ row' = [g \in Projected |-> IF g \in good THEN Projection!Folded(row[g], b.height[g]) ELSE row[g]]
      /\ failing' = (failing \ good) \cup bad
      /\ announced' = [g \in Projected |->
           announced[g] + IF g \in good /\ b.height[g] = EndSeq + 1 /\ row[g] # EndSeq + 1 THEN 1 ELSE 0]
      /\ rebuild' = IF rebuild.phase = "idle" THEN rebuild
                    ELSE [rebuild EXCEPT !.written = @ \cup w, !.failed = @ \cup bad \cup (good \cap failing)]
      /\ batch' = [batch EXCEPT ![p] = Projection!Idle]
      /\ UNCHANGED logVars
  BY DEF Projection!CommitBatch, Projection!Ended, Projection!logVars, logVars
<1> HIDE DEF b, touched, good, bad, w
<1>5. /\ rebuild' \in PRebuild /\ rebuild'.phase = rebuild.phase
      /\ rebuild.phase = "read" =>
           /\ rebuild'.log = rebuild.log /\ rebuild'.failing = rebuild.failing /\ rebuild'.live = rebuild.live
           /\ rebuild'.failed = rebuild.failed \cup bad \cup (good \cap failing)
  <2>1. CASE rebuild.phase = "idle"
    BY <1>1, <1>4, <2>1
  <2>2. CASE rebuild.phase # "idle"
    <3>1. rebuild' = Marked(rebuild, w, bad, good \cap failing)
      BY <1>4, <2>2 DEF Marked
    <3>2. MarkedIs(Marked(rebuild, w, bad, good \cap failing), rebuild, w, bad, good \cap failing)
      BY <1>1, <1>3, MarkedRebuild
    <3>3. MarkedIs(rebuild', rebuild, w, bad, good \cap failing)
      BY <3>1, <3>2
    <3> QED BY <3>3 DEF MarkedIs
  <2> QED BY <2>1, <2>2
<1>6. FoldsInto(p, good, bad)
  BY <1>3, <1>4, <1>5 DEF FoldsInto, b
<1> QED BY <1>3, <1>6

\* Where the checkpoint goes: past the page from its base, and past nothing else.
LEMMA ProjectorMoves ==
  ASSUME ProjectionInv, NEW p \in Projector, Projection!CommitBatch(p)
  PROVE  /\ checkpoint' \in Nat /\ checkpoint' < Horizon
         /\ \A e \in committed : e.x <= checkpoint' => e.x <= checkpoint \/ e \in batch[p].page
<1> DEFINE b == batch[p]
           page == b.page
           base == Base(b)
<1>1. /\ b \in PBatch /\ b.phase = "loaded" /\ PBatchOK(b) /\ b.horizon \in Nat /\ b.horizon <= Horizon
      /\ checkpoint \in Nat /\ checkpoint < Horizon /\ Horizon \in Nat
      /\ base \in Nat /\ base <= checkpoint
  BY HorizonFacts DEF ProjectionInv, PBatchesOK, PBatchOK, PBatch, Projection!CommitBatch, CheckpointTrails, Base
<1>2. /\ page \subseteq committed
      /\ \A e \in page : /\ base < e.x /\ e.x < b.horizon
                         /\ \A f \in committed : base < f.x /\ f.x < e.x => f \in page
  BY <1>1 DEF PBatchOK
<1>3. /\ \A e \in committed : e.x \in 1..MaxXid /\ e.x \in Nat
      /\ \A e, f \in committed : e.x = f.x => e = f
  BY Bounds DEF ProjectionInv, LogInv, LogTypeOK, IdsAreOnce
<1>4. checkpoint' = IF page # {} THEN Max(Positions(page)) ELSE base
  BY ProjectionReadsTheLog DEF Projection!CommitBatch, Base
<1> HIDE DEF base, b
<1>5. CASE page = {}
  BY <1>1, <1>3, <1>4, <1>5
<1>6. CASE page # {}
  <2>2. (\E e \in page : Max(Positions(page)) = e.x) /\ \A e \in page : e.x <= Max(Positions(page))
    <3>1. \A e \in page : e.x \in 1..MaxXid
      BY <1>2, <1>3
    <3> HIDE DEF page
    <3> QED BY <1>6, <3>1, LastOf
  <2>3. PICK last \in page : checkpoint' = last.x
    BY <1>4, <1>6, <2>2
  <2> HIDE DEF page
  <2>4. \A e \in committed : e.x <= checkpoint' => e.x <= checkpoint \/ e \in page
    BY <1>1, <1>2, <1>3, <2>3
  <2>5. checkpoint' \in Nat /\ checkpoint' < Horizon
    BY <1>1, <1>2, <1>3, <2>3
  <2> QED BY <2>4, <2>5 DEF page, b
<1> QED BY <1>5, <1>6 DEF b

\* What a batch does to a row.
LEMMA RowsFold ==
  ASSUME ProjectionInv, NEW p \in Projector, NEW good \in SUBSET Projected, NEW bad \in SUBSET Projected,
         Projection!CommitBatch(p), FoldsInto(p, good, bad), NEW g \in Projected
  PROVE  /\ row[g] \in Nat /\ row'[g] \in Nat /\ row[g] <= row'[g] /\ batch[p].height[g] \in Nat
         /\ batch[p].height[g] <= EndSeq + 1
         /\ g \in good => batch[p].height[g] <= row'[g]
         /\ g \notin good => row'[g] = row[g]
         /\ row'[g] = row[g] \/ (g \in good /\ row'[g] = batch[p].height[g])
         /\ row'[g] <= Height(committed, g)
         /\ announced[g] \in Nat
         /\ announced'[g] = IF g \in good /\ batch[p].height[g] = EndSeq + 1 /\ row[g] # EndSeq + 1
                            THEN announced[g] + 1 ELSE announced[g]
<1> DEFINE h == batch[p].height[g]
<1>1. /\ row[g] \in Nat /\ h \in Nat /\ announced[g] \in Nat
      /\ row[g] <= Height(committed, g) /\ h <= Height(committed, g)
      /\ Height(committed, g) \in Nat /\ Height(committed, g) <= EndSeq + 1 /\ EndSeq \in Nat
  BY Bounds, HeightsOfTheLog
     DEF ProjectionInv, RowsShowTheLog, PBatchesOK, PBatchOK, PBatch, Projection!CommitBatch, LogInv, Numbered
<1>2. /\ row'[g] = IF g \in good THEN (IF row[g] >= h THEN row[g] ELSE h) ELSE row[g]
      /\ announced'[g] = announced[g] + IF g \in good /\ h = EndSeq + 1 /\ row[g] # EndSeq + 1 THEN 1 ELSE 0
  BY DEF FoldsInto, Projection!Folded, Projection!Later
<1> HIDE DEF h
<1> QED BY <1>1, <1>2 DEF h

LEMMA ProjectionCommit ==
  ASSUME ProjectionInv, NEW p \in Projector, Projection!CommitBatch(p)
  PROVE  ProjectionInv'
<1>1. PICK good, bad \in SUBSET Projected : FoldsInto(p, good, bad)
  BY ProjectorWrites
<1>2. /\ checkpoint' \in Nat /\ checkpoint' < Horizon
      /\ \A e \in committed : e.x <= checkpoint' => e.x <= checkpoint \/ e \in batch[p].page
  BY ProjectorMoves
<1>3. LogInv' /\ Horizon' = Horizon /\ committed' = committed /\ ProjectedOnly'
  BY <1>1, LogStands DEF ProjectionInv, FoldsInto, ProjectedOnly, logVars
<1>4. \A g \in Projected :
         /\ row[g] \in Nat /\ row'[g] \in Nat /\ row[g] <= row'[g] /\ batch[p].height[g] \in Nat
         /\ batch[p].height[g] <= EndSeq + 1
         /\ g \in good => batch[p].height[g] <= row'[g]
         /\ g \notin good => row'[g] = row[g]
         /\ row'[g] = row[g] \/ (g \in good /\ row'[g] = batch[p].height[g])
         /\ row'[g] <= Height(committed, g)
         /\ announced[g] \in Nat
         /\ announced'[g] = IF g \in good /\ batch[p].height[g] = EndSeq + 1 /\ row[g] # EndSeq + 1
                            THEN announced[g] + 1 ELSE announced[g]
  BY <1>1, RowsFold
<1>5. RowsShowTheLog'
  <2>1. DOMAIN row' = Projected /\ DOMAIN announced' = Projected /\ failing' \subseteq Projected
    BY <1>1 DEF FoldsInto, ProjectionInv, RowsShowTheLog
  <2>2. row' \in [Projected -> Nat] /\ announced' \in [Projected -> Nat]
    <3>1. \A g \in Projected : row'[g] \in Nat /\ announced'[g] \in Nat
      BY <1>4
    <3>2. row' = [g \in Projected |-> row'[g]] /\ announced' = [g \in Projected |-> announced'[g]]
      BY <1>1 DEF FoldsInto
    <3> QED BY <3>1, <3>2
  <2>3. \A g \in Projected : row'[g] <= EndSeq => announced'[g] = 0
    <3>1. \A g \in Projected : row[g] <= EndSeq => announced[g] = 0
      BY DEF ProjectionInv, RowsShowTheLog
    <3> QED BY <1>4, <3>1, Bounds
  <2> QED BY <1>3, <1>4, <2>1, <2>2, <2>3 DEF RowsShowTheLog
<1>6. /\ \A e \in committed : e.game \in Projected /\ e.seq \in Nat
      /\ batch[p].page \subseteq committed
      /\ \A e \in committed : e.x <= checkpoint \/ e \in batch[p].page => batch[p].height[e.game] > e.seq
      /\ \A e \in batch[p].page : e.game \in good \cup bad
      /\ failing' = (failing \ good) \cup bad
  BY <1>1, Bounds DEF ProjectionInv, ProjectedOnly, LogInv, LogTypeOK, PBatchesOK, PBatchOK, Projection!CommitBatch,
                      FoldsInto
<1>7. \A e \in committed : e.x <= checkpoint' =>
        row'[e.game] > e.seq \/ e.game \in bad \/ (e.x <= checkpoint /\ e.game \notin good)
  BY <1>2, <1>4, <1>6
<1>8. \A e \in committed : row[e.game] > e.seq => row'[e.game] > e.seq
  BY <1>4, <1>6
<1>9. CheckpointTrails'
  <2>1. \A e \in committed : e.x <= checkpoint' => Shown(e, failing)'
    BY <1>6, <1>7, <1>8 DEF ProjectionInv, CheckpointTrails, Shown
  <2> QED BY <1>2, <1>3, <2>1 DEF CheckpointTrails
<1>10. RebuildOK'
  <2>1. rebuild' \in PRebuild /\ rebuild'.phase = rebuild.phase
    BY <1>1 DEF FoldsInto
  <2>2. ASSUME rebuild.phase = "read"
        PROVE  /\ rebuild'.log \subseteq committed' /\ Numbered(rebuild'.log)
               /\ \A e \in committed' : e.x <= checkpoint' /\ e \notin rebuild'.log => Shown(e, rebuild.failed)'
               /\ \A e \in rebuild'.log : e.game \notin rebuild'.live => Shown(e, rebuild.failing)'
               /\ rebuild'.failing \subseteq failing' \cup rebuild'.failed
    <3>1. /\ rebuild'.log = rebuild.log /\ rebuild'.failing = rebuild.failing /\ rebuild'.live = rebuild.live
          /\ rebuild'.failed = rebuild.failed \cup bad \cup (good \cap failing)
      BY <1>1, <2>2 DEF FoldsInto
    <3>2. /\ rebuild.log \subseteq committed /\ Numbered(rebuild.log)
          /\ \A e \in committed : e.x <= checkpoint /\ e \notin rebuild.log => Shown(e, rebuild.failed)
          /\ \A e \in rebuild.log : e.game \notin rebuild.live => Shown(e, rebuild.failing)
          /\ rebuild.failing \subseteq failing \cup rebuild.failed
      BY <2>2 DEF ProjectionInv, RebuildOK
    <3>3. \A e \in committed : e.x <= checkpoint' /\ e \notin rebuild.log => Shown(e, rebuild.failed)'
      BY <1>7, <1>8, <3>1, <3>2 DEF Shown
    <3>4. \A e \in rebuild.log : e.game \notin rebuild.live => Shown(e, rebuild.failing)'
      BY <1>8, <3>1, <3>2 DEF Shown
    <3>5. rebuild'.failing \subseteq failing' \cup rebuild'.failed
      BY <1>6, <3>1, <3>2
    <3> QED BY <1>3, <3>1, <3>2, <3>3, <3>4, <3>5
  <2>3. Numbered(rebuild.log)' <=> Numbered(rebuild'.log)
    BY DEF Numbered, Height
  <2> QED BY <2>1, <2>2, <2>3 DEF RebuildOK
<1>11. PBatchesOK'
  <2>1. /\ batch' \in [Projector -> PBatch]
        /\ \A q \in Projector : batch'[q] = IF q = p THEN Projection!Idle ELSE batch[q]
    BY <1>1, PIdle DEF ProjectionInv, PBatchesOK, FoldsInto
  <2>2. \A q \in Projector : q # p => batch[q].phase \notin {"held", "loaded"}
    BY DEF ProjectionInv, PBatchesOK, Projection!CommitBatch
  <2>3. \A q \in Projector : batch'[q].phase \notin {"held", "loaded"}
                             /\ (batch'[q].phase # "idle" => batch'[q].horizon <= Horizon)
    BY <2>1, <2>2, PIdle DEF ProjectionInv, PBatchesOK, PBatchOK
  <2>4. \A q \in Projector : PBatchOK(batch[q])'
    BY <1>3, <2>3 DEF PBatchOK
  <2> QED BY <2>1, <2>3, <2>4 DEF PBatchesOK
<1> QED BY <1>3, <1>5, <1>9, <1>10, <1>11 DEF ProjectionInv

-----------------------------------------------------------------------------
(* The rebuild beside the projectors, and the theorems. *)

LEMMA BatchesStand ==
  ASSUME ProjectionInv, UNCHANGED <<logVars, checkpoint, batch>>
  PROVE  LogInv' /\ ProjectedOnly' /\ PBatchesOK' /\ Horizon' = Horizon
<1>1. LogInv' /\ Horizon' = Horizon /\ committed' = committed /\ open' = open
  BY LogStands DEF ProjectionInv, logVars
<1>2. ProjectedOnly'
  BY <1>1 DEF ProjectionInv, ProjectedOnly
<1>3. \A p \in Projector : PBatchOK(batch[p])'
  BY <1>1 DEF ProjectionInv, PBatchesOK, PBatchOK, Base
<1>4. PBatchesOK'
  BY <1>3 DEF ProjectionInv, PBatchesOK
<1> QED BY <1>1, <1>2, <1>4

LEMMA NoRebuildOK == Projection!NoRebuild \in PRebuild /\ Projection!NoRebuild.phase = "idle"
BY DEF Projection!NoRebuild, PRebuild

ReadRebuild(events, fails, live) ==
  [Projection!NoRebuild EXCEPT !.phase = "read", !.log = events, !.failing = fails, !.live = live]

LEMMA ReadRebuildIs ==
  ASSUME NEW E \in SUBSET Event, NEW F \in SUBSET Projected, NEW L \in SUBSET Projected
  PROVE  ReadRebuild(E, F, L) =
           [phase |-> "read", log |-> E, failing |-> F, live |-> L, written |-> {}, failed |-> {}]
<1> DEFINE N(phase, events, fails, live) ==
             [phase |-> phase, log |-> events, failing |-> fails, live |-> live, written |-> {}, failed |-> {}]
<1>1. Projection!NoRebuild = N("idle", {}, {}, {})
  BY DEF Projection!NoRebuild
<1>2. [N("idle", {}, {}, {}) EXCEPT !.phase = "read"] = N("read", {}, {}, {})
  OBVIOUS
<1>3. [N("read", {}, {}, {}) EXCEPT !.log = E] = N("read", E, {}, {})
  OBVIOUS
<1>4. [N("read", E, {}, {}) EXCEPT !.failing = F] = N("read", E, F, {})
  OBVIOUS
<1>5. [N("read", E, F, {}) EXCEPT !.live = L] = N("read", E, F, L)
  OBVIOUS
<1>6. N("read", E, F, L) =
        [phase |-> "read", log |-> E, failing |-> F, live |-> L, written |-> {}, failed |-> {}]
  OBVIOUS
<1> HIDE DEF N
<1> QED BY <1>1, <1>2, <1>3, <1>4, <1>5, <1>6 DEF ReadRebuild

\* What the live projector is sure to reach.
LEMMA AwaitedOrPassed ==
  ASSUME ProjectionInv, NEW e \in committed, e.game \notin Projection!AwaitingLive
  PROVE  e.x <= checkpoint
<1>1. /\ checkpoint \in Nat /\ checkpoint < Horizon /\ Horizon \in Nat /\ e.x \in Nat /\ next \in Nat /\ e.x < next
      /\ Projection!Horizon = Horizon
  BY HorizonFacts, Bounds, ProjectionReadsTheLog DEF ProjectionInv, CheckpointTrails, LogInv, LogTypeOK, IdsAreOnce
<1>2. Projection!AwaitingLive = {f.game : f \in {f \in committed : checkpoint < f.x /\ f.x < next}}
  BY <1>1 DEF Projection!AwaitingLive
<1>3. e \notin {f \in committed : checkpoint < f.x /\ f.x < next}
  BY <1>2
<1>4. ~ (checkpoint < e.x /\ e.x < next)
  BY <1>3
<1> QED BY <1>1, <1>4

LEMMA RebuildStarts ==
  ASSUME ProjectionInv, Projection!StartRebuild
  PROVE  ProjectionInv'
<1> DEFINE live == Projection!AwaitingLive
<1>1. /\ UNCHANGED <<logVars, checkpoint, row, failing, announced, batch>>
      /\ rebuild' = ReadRebuild(committed, failing, live)
  BY DEF Projection!StartRebuild, Projection!logVars, logVars, Projection!projection, ReadRebuild
<1>2. LogInv' /\ ProjectedOnly' /\ PBatchesOK' /\ Horizon' = Horizon /\ committed' = committed
  BY <1>1, BatchesStand DEF logVars
<1>3. RowsShowTheLog' /\ CheckpointTrails'
  BY <1>1, <1>2 DEF ProjectionInv, RowsShowTheLog, CheckpointTrails, Shown
<1>4. committed \in SUBSET Event /\ failing \in SUBSET Projected /\ live \in SUBSET Projected
  BY DEF ProjectionInv, LogInv, LogTypeOK, Event, RowsShowTheLog, ProjectedOnly, Projection!AwaitingLive
<1>5. \A e \in committed : e.game \notin live => Shown(e, failing)
  BY AwaitedOrPassed DEF ProjectionInv, CheckpointTrails
<1> HIDE DEF live
<1>6. rebuild' = [phase |-> "read", log |-> committed, failing |-> failing, live |-> live,
                  written |-> {}, failed |-> {}]
  BY <1>1, <1>4, ReadRebuildIs
<1>7. /\ rebuild' \in PRebuild /\ rebuild'.log = committed /\ rebuild'.failing = failing /\ rebuild'.live = live
  BY <1>4, <1>6 DEF PRebuild
<1>8. Numbered(rebuild.log)'
  <2>1. Numbered(committed)
    BY DEF ProjectionInv, LogInv
  <2> QED BY <1>7, <2>1 DEF Numbered, Height
<1>9. \A e \in committed : Shown(e, rebuild.failing)' <=> Shown(e, failing)
  BY <1>1, <1>7 DEF Shown
<1>10. RebuildOK'
  BY <1>1, <1>2, <1>5, <1>7, <1>8, <1>9 DEF RebuildOK
<1> QED BY <1>2, <1>3, <1>10 DEF ProjectionInv

\* What a rebuild writes when nothing it writes was written beside it.
RebuildWrites ==
  /\ \A g \in Projected : row'[g] = row[g] \/ (g \in Projection!Rebuilt \ broken /\ row'[g] = Height(rebuild.log, g))
  /\ \A g \in Projection!Rebuilt \ broken : Height(rebuild.log, g) <= row'[g]
  /\ failing' = (failing \ ((rebuild.failing \cap Projection!Rebuilt) \ broken)) \cup (Projection!Rebuilt \cap broken)
  /\ rebuild.failed \cap Projection!Rebuilt \cap (broken \cup rebuild.failing) = {}

\* A rebuild that commits: either it writes, or a conflict makes it start again.
LEMMA RebuildCommitWrites ==
  ASSUME ProjectionInv, Projection!CommitRebuild
  PROVE  /\ row' \in [Projected -> Nat] /\ \A g \in Projected : row[g] \in Nat /\ row'[g] \in Nat /\ row[g] <= row'[g]
         /\ (row' = row /\ failing' = failing) \/ RebuildWrites
<1>1. row \in [Projected -> Nat] /\ IsFiniteSet(rebuild.log)
  BY FS_Subset DEF ProjectionInv, RowsShowTheLog, RebuildOK, LogInv, Projection!CommitRebuild
<1>2. CASE Projection!Conflicts
  BY <1>1, <1>2 DEF Projection!CommitRebuild
<1>3. CASE ~Projection!Conflicts
  <2>1. /\ row' = [g \in Projected |-> IF g \in Projection!Rebuilt \ broken
                     THEN Projection!Folded(row[g], Height(rebuild.log, g)) ELSE row[g]]
        /\ failing' = (failing \ ((rebuild.failing \cap Projection!Rebuilt) \ broken))
                        \cup (Projection!Rebuilt \cap broken)
    BY <1>3, ProjectionReadsTheLog DEF Projection!CommitRebuild
  <2>2. \A g : Height(rebuild.log, g) \in Nat
    BY <1>1, HeightFacts
  <2>3. \A g \in Projected : row'[g] = IF g \in Projection!Rebuilt \ broken
          THEN (IF row[g] >= Height(rebuild.log, g) THEN row[g] ELSE Height(rebuild.log, g)) ELSE row[g]
    BY <2>1 DEF Projection!Folded, Projection!Later
  <2>4. \A g \in Projected : row[g] \in Nat /\ row'[g] \in Nat /\ row[g] <= row'[g]
    BY <1>1, <2>2, <2>3
  <2>5. row' \in [Projected -> Nat]
    <3>1. row' = [g \in Projected |-> row'[g]]
      BY <2>1
    <3> QED BY <2>4, <3>1
  <2>6. Projection!Rebuilt \subseteq Projected
    BY DEF Projection!Rebuilt, ProjectionInv, RebuildOK, ProjectedOnly, Projection!CommitRebuild
  <2>7. \A g \in Projection!Rebuilt \ broken : Height(rebuild.log, g) <= row'[g]
    BY <1>1, <2>2, <2>3, <2>6
  <2>8. rebuild.failed \cap Projection!Rebuilt \cap (broken \cup rebuild.failing) = {}
    BY <1>3 DEF Projection!Conflicts
  <2>9. RebuildWrites
    BY <2>1, <2>3, <2>7, <2>8 DEF RebuildWrites
  <2> QED BY <2>4, <2>5, <2>9
<1> QED BY <1>2, <1>3

LEMMA RebuildCommits ==
  ASSUME ProjectionInv, Projection!CommitRebuild
  PROVE  ProjectionInv'
<1>1. /\ UNCHANGED <<logVars, checkpoint, announced, batch>> /\ rebuild' = Projection!NoRebuild
      /\ rebuild.phase = "read"
  BY DEF Projection!CommitRebuild, Projection!logVars, logVars
<1>2. LogInv' /\ ProjectedOnly' /\ PBatchesOK' /\ Horizon' = Horizon /\ committed' = committed
  BY <1>1, BatchesStand DEF logVars
<1>3. RebuildOK'
  BY <1>1, NoRebuildOK DEF RebuildOK
<1>4. /\ row' \in [Projected -> Nat] /\ \A g \in Projected : row[g] \in Nat /\ row'[g] \in Nat /\ row[g] <= row'[g]
      /\ (row' = row /\ failing' = failing) \/ RebuildWrites
  BY RebuildCommitWrites
<1>5. /\ rebuild.log \subseteq committed /\ Numbered(rebuild.log)
      /\ \A e \in committed : e.x <= checkpoint /\ e \notin rebuild.log => Shown(e, rebuild.failed)
      /\ \A e \in committed : e.game \in Projected /\ e.seq \in Nat
      /\ rebuild \in PRebuild
      /\ IsFiniteSet(committed) /\ IsFiniteSet(rebuild.log)
  BY <1>1, FS_Subset, Bounds DEF ProjectionInv, RebuildOK, ProjectedOnly, LogInv, LogTypeOK
<1>6. Projection!Rebuilt \subseteq Projected
  BY <1>5 DEF Projection!Rebuilt
<1>7. \A e \in committed : row[e.game] > e.seq => row'[e.game] > e.seq
  BY <1>4, <1>5
<1>8. CASE row' = row /\ failing' = failing
  <2>1. RowsShowTheLog' /\ CheckpointTrails'
    BY <1>1, <1>2, <1>8 DEF ProjectionInv, RowsShowTheLog, CheckpointTrails, Shown
  <2> QED BY <1>2, <1>3, <2>1 DEF ProjectionInv
<1>9. CASE RebuildWrites
  <2>1. \A g : /\ Height(rebuild.log, g) \in Nat /\ Height(committed, g) \in Nat
               /\ Height(rebuild.log, g) <= Height(committed, g)
    BY <1>5, HeightFacts, HeightGrows
  <2>2. RowsShowTheLog'
    <3>1. \A g \in Projected : row'[g] <= Height(committed, g)
      BY <1>9, <2>1 DEF RebuildWrites, ProjectionInv, RowsShowTheLog
    <3>2. failing' \subseteq Projected
      BY <1>6, <1>9 DEF RebuildWrites, ProjectionInv, RowsShowTheLog
    <3>3. \A g \in Projected : row'[g] <= EndSeq => announced'[g] = 0
      BY <1>1, <1>4, Bounds DEF ProjectionInv, RowsShowTheLog
    <3>4. announced' \in [Projected -> Nat]
      BY <1>1 DEF ProjectionInv, RowsShowTheLog
    <3> QED BY <1>2, <1>4, <3>1, <3>2, <3>3, <3>4 DEF RowsShowTheLog
  <2>3. ASSUME NEW e \in committed, e.x <= checkpoint
        PROVE  row'[e.game] > e.seq \/ e.game \in failing'
    <3>1. row[e.game] > e.seq \/ e.game \in failing
      BY <2>3 DEF ProjectionInv, CheckpointTrails, Shown
    <3>2. CASE e \in rebuild.log /\ e.game \in Projection!Rebuilt \ broken
      <4>1. e.seq < Height(rebuild.log, e.game)
        BY <1>5, <3>2 DEF Numbered
      <4>2. Height(rebuild.log, e.game) <= row'[e.game] /\ row'[e.game] \in Nat
        BY <1>4, <1>5, <1>9, <3>2 DEF RebuildWrites
      <4> QED BY <1>5, <2>1, <4>1, <4>2
    <3>3. CASE e \in rebuild.log /\ e.game \notin Projection!Rebuilt \ broken
      BY <1>7, <1>9, <3>1, <3>3 DEF RebuildWrites
    <3>4. CASE e \notin rebuild.log
      <4>1. row[e.game] > e.seq \/ e.game \in rebuild.failed
        BY <1>5, <2>3, <3>4 DEF Shown
      <4> QED BY <1>7, <1>9, <3>1, <4>1 DEF RebuildWrites
    <3> QED BY <3>2, <3>3, <3>4
  <2>4. CheckpointTrails'
    BY <1>1, <1>2, <2>3 DEF ProjectionInv, CheckpointTrails, Shown
  <2> QED BY <1>2, <1>3, <2>2, <2>4 DEF ProjectionInv
<1> QED BY <1>4, <1>8, <1>9

LEMMA ProjectionStands ==
  ASSUME ProjectionInv, UNCHANGED <<logVars, checkpoint, row, failing, announced, batch, rebuild>>
  PROVE  ProjectionInv'
<1>1. LogInv' /\ ProjectedOnly' /\ PBatchesOK' /\ Horizon' = Horizon /\ committed' = committed
  BY BatchesStand DEF logVars
<1>2. RowsShowTheLog' /\ CheckpointTrails' /\ RebuildOK'
  BY <1>1 DEF ProjectionInv, RowsShowTheLog, CheckpointTrails, RebuildOK, Shown
<1> QED BY <1>1, <1>2 DEF ProjectionInv

LEMMA ProjectionStart == Projection!Init => ProjectionInv
<1> SUFFICES ASSUME Projection!Init PROVE ProjectionInv
  OBVIOUS
<1>1. /\ LogInit /\ checkpoint = 0 /\ row = [g \in Projected |-> 0] /\ announced = [g \in Projected |-> 0]
      /\ failing = {} /\ batch = [p \in Projector |-> Projection!Idle] /\ rebuild = Projection!NoRebuild
  BY DEF Projection!Init, Projection!LogInit, LogInit
<1>2. LogInv /\ Horizon \in Nat \ {0} /\ committed = {} /\ open = {}
  BY <1>1, LogStarts, HorizonFacts DEF LogInit
<1>3. \A g : Height(committed, g) \in Nat
  BY <1>2, HeightsOfTheLog
<1>4. ProjectedOnly /\ CheckpointTrails /\ RebuildOK
  BY <1>1, <1>2, NoRebuildOK DEF ProjectedOnly, CheckpointTrails, RebuildOK
<1>5. RowsShowTheLog
  BY <1>1, <1>3 DEF RowsShowTheLog
<1>6. PBatchesOK
  BY <1>1, PIdle DEF PBatchesOK
<1> QED BY <1>2, <1>4, <1>5, <1>6 DEF ProjectionInv

LEMMA ProjectionStep == ProjectionInv /\ [Projection!Next]_Projection!vars => ProjectionInv'
<1> SUFFICES ASSUME ProjectionInv, [Projection!Next]_Projection!vars PROVE ProjectionInv'
  OBVIOUS
<1>1. CASE UNCHANGED Projection!vars
  BY <1>1, ProjectionStands DEF Projection!vars, Projection!logVars, logVars, Projection!projection
<1>2. CASE Projection!LogNext /\ UNCHANGED <<Projection!projection, broken, batch, rebuild>>
  BY <1>2, ProjectionLogMoves DEF projector, Projection!projection
<1>3. CASE \E p \in Projector :
             Projection!TakeSnapshot(p) \/ Projection!LockCheckpoint(p) \/ Projection!LoadStreams(p)
             \/ Projection!CommitBatch(p) \/ Projection!BatchFails(p)
  BY <1>3, ProjectionSnapshot, ProjectionLock, ProjectionLoad, ProjectionCommit, ProjectionFails
<1>4. CASE Projection!StartRebuild \/ Projection!CommitRebuild
  BY <1>4, RebuildStarts, RebuildCommits
<1>5. CASE \E g \in Projected : Projection!Mend(g)
  BY <1>5, ProjectionStands DEF Projection!Mend, Projection!logVars, logVars, Projection!projection
<1> QED BY <1>1, <1>2, <1>3, <1>4, <1>5 DEF Projection!Next

LEMMA RowsCover == ProjectionInv => Projection!CheckpointIsCovered
BY ProjectionReadsTheLog
   DEF ProjectionInv, CheckpointTrails, Shown, RowsShowTheLog, Projection!CheckpointIsCovered

EndingReported(g) ==
  /\ row'[g] >= row[g]
  /\ Projection!Ended(row'[g]) /\ ~Projection!Ended(row[g]) =>
       announced'[g] = 1 \/ (g \in failing /\ announced'[g] = 0)
  /\ Projection!Ended(row[g]) => announced'[g] = announced[g]

LEMMA BatchReportsEndings ==
  ASSUME ProjectionInv, NEW p \in Projector, Projection!CommitBatch(p), NEW g \in Projected
  PROVE  EndingReported(g)
<1>1. PICK good, bad \in SUBSET Projected : FoldsInto(p, good, bad)
  BY ProjectorWrites
<1>2. /\ row[g] \in Nat /\ row'[g] \in Nat /\ row[g] <= row'[g] /\ batch[p].height[g] \in Nat
      /\ row'[g] = row[g] \/ (g \in good /\ row'[g] = batch[p].height[g])
      /\ announced[g] \in Nat
      /\ announced'[g] = IF g \in good /\ batch[p].height[g] = EndSeq + 1 /\ row[g] # EndSeq + 1
                         THEN announced[g] + 1 ELSE announced[g]
  BY <1>1, RowsFold
<1>3. row'[g] = EndSeq + 1 /\ row[g] # EndSeq + 1 => announced[g] = 0
  <2>1. row[g] <= EndSeq => announced[g] = 0
    BY DEF ProjectionInv, RowsShowTheLog
  <2> QED BY <1>2, <2>1, Bounds
<1> QED BY <1>2, <1>3 DEF EndingReported, Projection!Ended

LEMMA RebuildReportsEndings ==
  ASSUME ProjectionInv, Projection!CommitRebuild, NEW g \in Projected
  PROVE  EndingReported(g)
<1>1. /\ \A h \in Projected : row[h] \in Nat /\ row'[h] \in Nat /\ row[h] <= row'[h]
      /\ (row' = row /\ failing' = failing) \/ RebuildWrites
  BY RebuildCommitWrites
<1>2. announced' = announced /\ rebuild.phase = "read"
  BY DEF Projection!CommitRebuild
<1>3. ASSUME row'[g] = EndSeq + 1, row[g] # EndSeq + 1
      PROVE  g \in failing /\ announced[g] = 0
  <2>1. RebuildWrites
    BY <1>1, <1>3
  <2>2. g \in Projection!Rebuilt \ broken /\ Height(rebuild.log, g) = EndSeq + 1 /\ row[g] \in Nat
    BY <1>1, <1>3, <2>1 DEF RebuildWrites
  <2>3. row[g] <= EndSeq
    BY <1>1, <1>3, Bounds
  <2>4. /\ Numbered(rebuild.log) /\ g \in Game
        /\ \A e \in rebuild.log : e.game \notin rebuild.live => Shown(e, rebuild.failing)
        /\ rebuild.failing \subseteq failing \cup rebuild.failed
    BY <1>2, Bounds DEF ProjectionInv, RebuildOK
  <2>5. PICK e \in rebuild.log : e.game = g /\ e.seq = EndSeq + 1 - 1
    BY <2>2, <2>4, Bounds DEF Numbered
  <2>6. g \in rebuild.failing
    <3>1. e.game \notin rebuild.live
      BY <2>2, <2>5 DEF Projection!Rebuilt
    <3>2. row[e.game] > e.seq \/ e.game \in rebuild.failing
      BY <2>4, <3>1 DEF Shown
    <3> QED BY <2>2, <2>3, <2>5, <3>2, Bounds
  <2>7. g \in failing
    BY <2>1, <2>2, <2>4, <2>6 DEF RebuildWrites
  <2>8. announced[g] = 0
    BY <2>3 DEF ProjectionInv, RowsShowTheLog
  <2> QED BY <2>7, <2>8
<1> QED BY <1>1, <1>2, <1>3 DEF EndingReported, Projection!Ended

LEMMA EveryEndingIsReported ==
  ASSUME ProjectionInv, [Projection!Next]_Projection!vars, NEW g \in Projected
  PROVE  EndingReported(g)
<1>1. row[g] \in Nat
  BY DEF ProjectionInv, RowsShowTheLog
<1>2. CASE UNCHANGED <<row, announced>>
  BY <1>1, <1>2 DEF EndingReported
<1>3. CASE ~UNCHANGED <<row, announced>>
  <2>1. Projection!CommitRebuild \/ \E p \in Projector : Projection!CommitBatch(p)
    BY <1>3 DEF Projection!Next, Projection!vars, Projection!projection, Projection!TakeSnapshot,
                Projection!LockCheckpoint, Projection!LoadStreams, Projection!BatchFails, Projection!StartRebuild,
                Projection!Mend
  <2> QED BY <2>1, BatchReportsEndings, RebuildReportsEndings
<1> QED BY <1>2, <1>3

LEMMA EndingsStep ==
  ProjectionInv /\ [Projection!Next]_Projection!vars =>
    [\A g \in Projected :
       /\ row'[g] >= row[g]
       /\ Projection!Ended(row'[g]) /\ ~Projection!Ended(row[g]) =>
            announced'[g] = 1 \/ (g \in failing /\ announced'[g] = 0)
       /\ Projection!Ended(row[g]) => announced'[g] = announced[g]]_Projection!vars
BY EveryEndingIsReported DEF EndingReported

(* What the projector's checkpoint has passed is in its game's row or      *)
(* recorded as failing, no row goes back, and an ending is reported by one *)
(* batch, also beside a rebuild (games-projector.ts: runBatch, rebuildAll).*)
THEOREM ProjectionFollows == Projection!Spec => Projection!ProjectionFollowsTheLog
<1>1. Projection!Spec => []ProjectionInv
  BY ProjectionStart, ProjectionStep, PTL DEF Projection!Spec
<1>2. Projection!Spec => []Projection!CheckpointIsCovered
  BY <1>1, RowsCover, PTL
<1>3. Projection!Spec =>
        [][\A g \in Projected :
             /\ row'[g] >= row[g]
             /\ Projection!Ended(row'[g]) /\ ~Projection!Ended(row[g]) =>
                  announced'[g] = 1 \/ (g \in failing /\ announced'[g] = 0)
             /\ Projection!Ended(row[g]) => announced'[g] = announced[g]]_Projection!vars
  BY <1>1, EndingsStep, PTL DEF Projection!Spec
<1> QED BY <1>2, <1>3, PTL DEF Projection!ProjectionFollowsTheLog, Projection!EndingsAreReported

-----------------------------------------------------------------------------
(* The readers side by side. *)

ProjectorRests == checkpoint = 0 /\ row = [g \in Projected |-> 0]
AppliersRest == applied = 0 /\ ledger = <<>>

LEMMA RestingProjectorCovers == LogInv /\ ProjectorRests => Projection!CheckpointIsCovered
<1> SUFFICES ASSUME LogInv, ProjectorRests PROVE Projection!CheckpointIsCovered
  OBVIOUS
<1>1. \A e \in committed : e.x \in Nat \ {0}
  BY Bounds DEF LogInv, LogTypeOK
<1>2. \A g : Height(committed, g) \in Nat
  BY HeightsOfTheLog
<1> QED BY <1>1, <1>2, ProjectionReadsTheLog DEF ProjectorRests, Projection!CheckpointIsCovered

LEMMA RestingAppliersRate == LogInv /\ AppliersRest => Ratings!RatedInOrder
<1> SUFFICES ASSUME LogInv, AppliersRest PROVE Ratings!RatedInOrder
  OBVIOUS
<1>1. \A e \in committed : e.x \in Nat \ {0}
  BY Bounds DEF LogInv, LogTypeOK
<1> QED BY <1>1 DEF AppliersRest, Ratings!RatedInOrder

LEMMA RestingProjectorReports ==
  ASSUME ProjectorRests, UNCHANGED projector, NEW g \in Projected
  PROVE  EndingReported(g)
BY DEF ProjectorRests, projector, EndingReported

LEMMA RatingsInvReads == RatingsInv => LogInv
BY DEF RatingsInv

LEMMA ProjectionInvReads == ProjectionInv => LogInv
BY DEF ProjectionInv

(* Each of the two readers follows the log, whatever the transactions it   *)
(* reads do meanwhile (ratings-applier.ts and games-projector.ts).         *)
THEOREM ReadersFollow == ReadersSpec => ReadersFollowTheLog
<1> DEFINE A == Ratings!Next /\ UNCHANGED projector
           P == Projection!Next /\ UNCHANGED ratings
<1>1. Ratings!Init /\ Projection!Init /\ [][A]_readers => ReadersFollowTheLog
  <2>1. [A]_readers => [Ratings!Next]_Ratings!vars
    BY DEF readers, ratings, Ratings!vars, Ratings!logVars, logVars
  <2>2. Ratings!Init /\ [][A]_readers => Ratings!Spec
    BY <2>1, PTL DEF Ratings!Spec
  <2>3. Ratings!Init /\ [][A]_readers => []RatingsInv
    BY <2>1, RatingsStart, RatingsStep, PTL
  <2>4. Projection!Init => ProjectorRests
    BY DEF Projection!Init, ProjectorRests
  <2>5. ProjectorRests /\ [A]_readers => ProjectorRests'
    BY DEF ProjectorRests, readers, projector
  <2>6. ProjectorRests /\ [A]_readers =>
          [\A g \in Projected :
             /\ row'[g] >= row[g]
             /\ Projection!Ended(row'[g]) /\ ~Projection!Ended(row[g]) =>
                  announced'[g] = 1 \/ (g \in failing /\ announced'[g] = 0)
             /\ Projection!Ended(row[g]) => announced'[g] = announced[g]]_Projection!vars
    <3> SUFFICES ASSUME ProjectorRests, [A]_readers
                 PROVE  \A g \in Projected : EndingReported(g)
      BY DEF EndingReported
    <3>1. UNCHANGED projector
      BY DEF readers
    <3> QED BY <3>1, RestingProjectorReports
  <2> HIDE DEF A
  <2>7. Ratings!Init /\ Projection!Init /\ [][A]_readers => []Projection!CheckpointIsCovered
    BY <2>3, <2>4, <2>5, RatingsInvReads, RestingProjectorCovers, PTL
  <2>8. Projection!Init /\ [][A]_readers =>
          [][\A g \in Projected :
               /\ row'[g] >= row[g]
               /\ Projection!Ended(row'[g]) /\ ~Projection!Ended(row[g]) =>
                    announced'[g] = 1 \/ (g \in failing /\ announced'[g] = 0)
               /\ Projection!Ended(row[g]) => announced'[g] = announced[g]]_Projection!vars
    BY <2>4, <2>5, <2>6, PTL
  <2> QED BY <2>2, <2>7, <2>8, RatingsFollow, PTL
          DEF ReadersFollowTheLog, Projection!ProjectionFollowsTheLog, Projection!EndingsAreReported
<1>2. Ratings!Init /\ Projection!Init /\ [][P]_readers => ReadersFollowTheLog
  <2>1. [P]_readers => [Projection!Next]_Projection!vars
    BY DEF readers, projector, Projection!vars, Projection!projection, Projection!logVars, logVars
  <2>2. Projection!Init /\ [][P]_readers => Projection!Spec
    BY <2>1, PTL DEF Projection!Spec
  <2>3. Projection!Init /\ [][P]_readers => []ProjectionInv
    BY <2>1, ProjectionStart, ProjectionStep, PTL
  <2>4. Ratings!Init => AppliersRest
    BY DEF Ratings!Init, AppliersRest
  <2>5. AppliersRest /\ [P]_readers => AppliersRest'
    BY DEF AppliersRest, readers, ratings
  <2>6. AppliersRest /\ [P]_readers => [applied' >= applied]_applied
    BY DEF AppliersRest, readers, ratings
  <2> HIDE DEF P
  <2>7. Ratings!Init /\ Projection!Init /\ [][P]_readers => []Ratings!RatedInOrder
    BY <2>3, <2>4, <2>5, ProjectionInvReads, RestingAppliersRate, PTL
  <2>8. Ratings!Init /\ [][P]_readers => [][applied' >= applied]_applied
    BY <2>4, <2>5, <2>6, PTL
  <2> QED BY <2>2, <2>7, <2>8, ProjectionFollows, PTL
          DEF ReadersFollowTheLog, Ratings!RatingsFollowTheLog, Ratings!NeverRewinds
<1> HIDE DEF A, P
<1> QED BY <1>1, <1>2, PTL DEF ReadersSpec, A, P

=============================================================================

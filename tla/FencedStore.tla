------------------------------ MODULE FencedStore ------------------------------
(***************************************************************************)
(* The fenced event store of one game: a row with an epoch and at most one *)
(* active grant, and a log that only the grant's holder appends to.        *)
(*                                                                         *)
(* An intent is one acquisition: a process and the random capability it    *)
(* drew for it, which every later call presents.  A call is a transaction  *)
(* that takes the shared lock of the control row and the row lock of the   *)
(* grant, and holds both until it ends; its client may lose sight of it.   *)
(***************************************************************************)
EXTENDS Integers, Sequences, SequencesExt

CONSTANTS Intent, None,
          Lease,         \* lease_ms
          MaxCalls,      \* bound: calls made
          MaxRotations   \* bound: rotations of the database incarnation

VARIABLES control,  \* game_fencing.control: the database incarnation
          grant,    \* game_fencing.grants: the row of the game
          log,      \* game_events, each with the authority that wrote it
          call,     \* every call made, as its transaction and as its caller see it
          granted   \* history: every epoch granted, and to whom

vars == <<control, grant, log, call, granted>>

Assumptions == None \notin Intent /\ {Lease, MaxCalls, MaxRotations} \subseteq Nat

Released(epoch) == [epoch |-> epoch, owner |-> None, db |-> 0, left |-> 0]

Init ==
  /\ control = 1 /\ log = <<>> /\ call = <<>> /\ granted = {}
  /\ grant = Released(0)

(* state: sent, held (locked, validated and staged), committing (COMMIT    *)
(* was sent), committed, gone.  reply: what the caller was told; unknown   *)
(* is FencedOutcomeUnknownError.                                           *)
Ops == {"create", "acquire", "renew", "release", "append"}
TypeOK ==
  /\ control \in 1..MaxRotations + 1
  /\ grant \in [epoch : Nat, owner : Intent \cup {None}, db : 0..control, left : 0..Lease]
  /\ \A k \in DOMAIN log : log[k] \in [epoch : Nat, owner : Intent, db : 1..control, call : DOMAIN call]
  /\ \A c \in DOMAIN call :
       call[c] \in [intent : Intent, op : Ops, epoch : Nat, db : 1..MaxRotations + 1, head : Nat,
                    state : {"sent", "held", "committing", "committed", "gone"},
                    reply : {"waiting", "ok", "rejected", "unknown"}]

Active == grant.owner # None
Calls(i, op) == {c \in DOMAIN call : call[c].intent = i /\ call[c].op = op}

-----------------------------------------------------------------------------
(* The caller. *)

Waiting(i) == \E c \in DOMAIN call : call[c].intent = i /\ call[c].reply = "waiting"

Send(i, op, epoch, db, head) ==
  /\ Len(call) < MaxCalls /\ ~Waiting(i)
  /\ call' = Append(call, [intent |-> i, op |-> op, epoch |-> epoch, db |-> db, head |-> head,
                           state |-> "sent", reply |-> "waiting"])
  /\ UNCHANGED <<control, grant, log, granted>>

Create(i) == Calls(i, "create") = {} /\ Send(i, "create", 0, control, 0)

\* An intent fixes the epoch it expects; an unknown outcome is asked for again.
Acquire(i) ==
  IF Calls(i, "acquire") = {} THEN Send(i, "acquire", grant.epoch, control, 0)
  ELSE /\ \A c \in Calls(i, "acquire") : call[c].reply = "unknown"
       /\ LET first == call[CHOOSE c \in Calls(i, "acquire") : TRUE]
          IN Send(i, "acquire", first.epoch, first.db, 0)

\* renew, release and append present the grant that was returned.
Use(i, op) ==
  \E c \in Calls(i, "acquire") :
    /\ call[c].reply = "ok"
    /\ IF op = "append" THEN \E h \in DOMAIN log : Send(i, op, call[c].epoch + 1, call[c].db, h)
       ELSE Send(i, op, call[c].epoch + 1, call[c].db, 0)

-----------------------------------------------------------------------------
(* The functions of the schema game_fencing. *)

\* Mutant: the row is read without FOR UPDATE.
RowIsFree_Read(c) == TRUE

\* SELECT .. FOR UPDATE of the grant.
RowIsFree(c) == \A d \in DOMAIN call \ {c} : call[d].state \notin {"held", "committing"}

\* Mutant: the capability is not compared.
Mine_Anyone(c) == grant.epoch = call[c].epoch + 1

\* The same acquisition, whose reply was lost.
Mine(c) == grant.owner = call[c].intent /\ grant.epoch = call[c].epoch + 1

LiveHere(c) == Active /\ grant.db = call[c].db /\ grant.left > 0

\* Mutant: a later epoch of the row is no obstacle.
Acquirable_Any(c) == log # <<>> /\ ~LiveHere(c)

Acquirable(c) == log # <<>> /\ ~LiveHere(c) /\ grant.epoch = call[c].epoch

\* validate_grant
Validates(c) ==
  /\ Active /\ grant.db = call[c].db /\ grant.left > 0
  /\ grant.epoch = call[c].epoch /\ grant.owner = call[c].intent

Accepted(c) ==
  /\ call[c].db = control
  /\ CASE call[c].op = "create" -> grant.epoch = 0 /\ ~Active /\ log = <<>>
       [] call[c].op = "acquire" -> (LiveHere(c) /\ Mine(c)) \/ Acquirable(c)
       [] call[c].op = "append" -> Validates(c) /\ Len(log) = call[c].head
       [] OTHER -> Validates(c)

Execute(c) ==
  /\ call[c].state = "sent" /\ RowIsFree(c)
  /\ IF Accepted(c) THEN call' = [call EXCEPT ![c].state = "held"]
     ELSE call' = [call EXCEPT ![c].state = "gone", ![c].reply = "rejected"]
  /\ UNCHANGED <<control, grant, log, granted>>

\* Connections, locks and statements fail or time out; COMMIT was not sent.
Fail(c) ==
  /\ call[c].state \in {"sent", "held"}
  /\ \E told \in {"rejected", "unknown"} :
       call' = [call EXCEPT ![c].state = "gone", ![c].reply = told]
  /\ UNCHANGED <<control, grant, log, granted>>

SendCommit(c) ==
  /\ call[c].state = "held"
  /\ call' = [call EXCEPT ![c].state = "committing"]
  /\ UNCHANGED <<control, grant, log, granted>>

Entry(c) == [epoch |-> call[c].epoch, owner |-> call[c].intent, db |-> call[c].db, call |-> c]

Staged(c) ==
  CASE call[c].op \in {"create", "append"} ->
         log' = Append(log, Entry(c)) /\ UNCHANGED <<grant, granted>>
    [] call[c].op = "acquire" /\ Mine(c) -> UNCHANGED <<grant, log, granted>>
    [] call[c].op = "acquire" /\ ~Mine(c) ->
         /\ grant' = [epoch |-> call[c].epoch + 1, owner |-> call[c].intent, db |-> call[c].db, left |-> Lease]
         /\ granted' = granted \cup {[epoch |-> call[c].epoch + 1, owner |-> call[c].intent]}
         /\ UNCHANGED log
    [] call[c].op = "renew" -> grant' = [grant EXCEPT !.left = Lease] /\ UNCHANGED <<log, granted>>
    [] OTHER -> grant' = Released(grant.epoch) /\ UNCHANGED <<log, granted>>

Told(c, answer) == IF call[c].reply = "waiting" THEN answer ELSE call[c].reply

Commit(c) ==
  /\ call[c].state = "committing"
  /\ call' = [call EXCEPT ![c].state = "committed", ![c].reply = Told(c, "ok")]
  /\ Staged(c)
  /\ UNCHANGED control

\* The server dies before it commits.
Vanish(c) ==
  /\ call[c].state = "committing"
  /\ call' = [call EXCEPT ![c].state = "gone", ![c].reply = "unknown"]
  /\ UNCHANGED <<control, grant, log, granted>>

\* Mutant: whatever ended the wait before an answer is a rejection.
LostReply_Rejected == "rejected"

\* commitFencedTransaction: a lost acknowledgment is uncertainty.
LostReply == "unknown"

LoseReply(c) ==
  /\ call[c].state = "committing" /\ call[c].reply = "waiting"
  /\ call' = [call EXCEPT ![c].reply = LostReply]
  /\ UNCHANGED <<control, grant, log, granted>>

\* Mutant: the rotation does not wait for the holders of the shared lock.
ControlIsFree_Any == TRUE

ControlIsFree == \A c \in DOMAIN call : call[c].state \notin {"held", "committing"}

\* prepareGameFencing, run again after a recovery: epochs remain unchanged.
Rotate ==
  /\ control <= MaxRotations /\ ControlIsFree
  /\ control' = control + 1
  /\ UNCHANGED <<grant, log, call, granted>>

Tick ==
  /\ grant.left > 0 /\ grant' = [grant EXCEPT !.left = @ - 1]
  /\ UNCHANGED <<control, log, call, granted>>

Next ==
  \/ \E i \in Intent : Create(i) \/ Acquire(i) \/ \E op \in {"renew", "release", "append"} : Use(i, op)
  \/ \E c \in DOMAIN call :
       Execute(c) \/ Fail(c) \/ SendCommit(c) \/ Commit(c) \/ Vanish(c) \/ LoseReply(c)
  \/ Rotate \/ Tick

Spec == Init /\ [][Next]_vars

-----------------------------------------------------------------------------

(* An epoch is granted once, whoever asks again for it.                    *)
EpochsAreUnique ==
  /\ \A m, n \in granted : m.epoch = n.epoch => m = n
  /\ \A m \in granted : m.epoch <= grant.epoch

(* The log is written by one authority after another: one creation, and    *)
(* then epochs that never go back, each by the intent it was granted to.   *)
WritersAreFenced ==
  /\ \A j, k \in DOMAIN log : j < k => log[j].epoch <= log[k].epoch /\ log[j].db <= log[k].db
  /\ \A k \in DOMAIN log :
       IF k = 1 THEN log[k].epoch = 0
       ELSE [epoch |-> log[k].epoch, owner |-> log[k].owner] \in granted

(* A rejected call changed nothing, a confirmed one is in force, and an    *)
(* acquisition recovered after a lost reply is the caller's own.           *)
RepliesAreTrue ==
  \A c \in DOMAIN call :
    /\ call[c].reply = "rejected" => call[c].state = "gone"
    /\ call[c].reply = "ok" => call[c].state = "committed"
    /\ call[c].reply = "ok" /\ call[c].op = "acquire" =>
         [epoch |-> call[c].epoch + 1, owner |-> call[c].intent] \in granted

(* Nothing is committed under an incarnation of the database that has been *)
(* replaced, nor under an epoch that another has followed, although leases *)
(* lapse and epochs are read long before a COMMIT.                         *)
CommitsAreCurrent ==
  [][log' # log =>
       LET e == log'[Len(log')]
       IN e.db = control /\ e.epoch = grant.epoch /\ (e.epoch > 0 => e.owner = grant.owner)]_vars

StoreIsFenced == [](EpochsAreUnique /\ WritersAreFenced /\ RepliesAreTrue) /\ CommitsAreCurrent

=============================================================================

------------------------------ MODULE Authority -------------------------------
(***************************************************************************)
(* GameAuthority for one game: the slot that serialises its commands, the  *)
(* cached record, the durable event log behind it, and the write deadline  *)
(* that answers a caller before the log does.                              *)
(*                                                                         *)
(* An event is the command that produced it: a command's events are one    *)
(* atomic append, so they are one entry of the log.  A record is the       *)
(* sequence of events it was folded from; none is the empty sequence.      *)
(***************************************************************************)
EXTENDS Integers, Sequences, SequencesExt

CONSTANTS Cmd,          \* commands, each issued once
          Creation,     \* those issued through createGame
          Foreign,      \* an event appended by another gateway
          NoCmd,        \* the job is a load or a reload
          Slot,         \* identities of slot objects
          NoSlot,       \* the game is not in the games map
          MaxJobs,      \* bound: jobs queued in one slot
          MaxLifecycle, \* bound: lifecycle generations issued
          MaxForeign    \* bound: events of other gateways

Assumptions ==
  /\ Creation \subseteq Cmd /\ Foreign \notin Cmd /\ NoCmd \notin Cmd
  /\ NoSlot \notin Slot /\ Slot # {}
  /\ MaxJobs \in Nat /\ MaxLifecycle \in Nat /\ MaxForeign \in Nat

VARIABLES log,       \* the durable events
          txn,       \* txn[c]: the append of c in the store
          slot,      \* slot[k]: a slot object, Unused when unreachable
          cur,       \* games.get(gameId)
          lifecycle, \* lifecycleSequence
          captured,  \* captured[c]: options.lifecycleGeneration, 0 for none
          outcome,   \* outcome[c]: what the caller of c was told
          published, \* the broadcasts, in order, with their stateRevision
          evicted    \* history: commands whose captured slot was evicted since

storeVars == <<log, txn>>
callVars  == <<captured, outcome, published, evicted>>
vars == <<log, txn, slot, cur, lifecycle, captured, outcome, published, evicted>>

-----------------------------------------------------------------------------
(* Data. *)

Event == Cmd \cup {Foreign}

\* Jobs of a slot; the phase of the head says what it is waiting for.
Job == [kind : {"apply", "create", "load", "reload"},
        cmd : Cmd \cup {NoCmd},
        phase : {"queued", "refresh", "admission", "append", "reconcile"},
        generation : Nat,   \* the slot generation a read was requested under
        taken : BOOLEAN,    \* the read has been executed by the store
        snapshot : Seq(Event),
        cancelled : BOOLEAN,
        timedOut : BOOLEAN,
        failure : {"none", "rejected", "error"}]

\* Mutant: a reload reads when it is requested instead of in its turn.
NewJob_ReadsAtOnce(kind, c, generation) ==
  [kind |-> kind, cmd |-> c, phase |-> "queued", generation |-> generation,
   taken |-> kind = "reload", snapshot |-> IF kind = "reload" THEN log ELSE <<>>,
   cancelled |-> FALSE, timedOut |-> FALSE, failure |-> "none"]

NewJob(kind, c, generation) ==
  [kind |-> kind, cmd |-> c, phase |-> "queued", generation |-> generation,
   taken |-> FALSE, snapshot |-> <<>>, cancelled |-> FALSE, timedOut |-> FALSE,
   failure |-> "none"]

SlotState == [events : Seq(Event), stale : BOOLEAN, jobs : Seq(Job),
              generation : Nat, dispose : BOOLEAN, reloads : Nat, stalled : BOOLEAN]

Unused == [events |-> <<>>, stale |-> FALSE, jobs |-> <<>>, generation |-> 0,
           dispose |-> FALSE, reloads |-> 0, stalled |-> FALSE]

Txn == [phase : {"none", "open", "committed", "rejected"}, head : Nat]
Outcomes == {"idle", "waiting", "confirmed", "unchanged", "unknown"}

TypeOK ==
  /\ log \in Seq(Event)
  /\ txn \in [Cmd -> Txn]
  /\ slot \in [Slot -> SlotState]
  /\ cur \in Slot \cup {NoSlot}
  /\ lifecycle \in Nat
  /\ captured \in [Cmd -> Nat]
  /\ outcome \in [Cmd -> Outcomes]
  /\ published \in Seq([revision : Nat, cmd : Cmd])
  /\ evicted \in SUBSET Cmd

Init ==
  /\ log = <<>>
  /\ txn = [c \in Cmd |-> [phase |-> "none", head |-> 0]]
  /\ slot = [k \in Slot |-> Unused]
  /\ cur = NoSlot
  /\ lifecycle = 0
  /\ captured = [c \in Cmd |-> 0]
  /\ outcome = [c \in Cmd |-> "idle"]
  /\ published = <<>>
  /\ evicted = {}

-----------------------------------------------------------------------------
(* Slots. *)

\* Mutant: a slot is dropped although jobs are queued behind it.
Releasable_Busy(s) == ~s.stalled /\ (s.dispose \/ s.events = <<>>)

Releasable(s) == s.jobs = <<>> /\ ~s.stalled /\ (s.dispose \/ s.events = <<>>)

\* Slot k becomes s and releaseSlot runs.
PutAndRelease(k, s) ==
  LET released == k = cur /\ Releasable(s)
  IN  /\ cur' = IF released THEN NoSlot ELSE cur
      /\ slot' = [slot EXCEPT ![k] =
                    IF s.jobs = <<>> /\ (released \/ k # cur) THEN Unused ELSE s]

Put(k, s) == slot' = [slot EXCEPT ![k] = s] /\ UNCHANGED cur

\* The slot slotFor returns, created when the game has none.
SlotId == IF cur # NoSlot THEN cur ELSE CHOOSE k \in Slot : slot[k] = Unused
SlotFor == IF cur # NoSlot THEN slot[cur]
           ELSE [Unused EXCEPT !.generation = lifecycle + 1]

CanCreateSlot == cur = NoSlot => lifecycle < MaxLifecycle

PutSlotFor(s) ==
  /\ slot' = [slot EXCEPT ![SlotId] = s]
  /\ cur' = SlotId
  /\ lifecycle' = IF cur = NoSlot THEN lifecycle + 1 ELSE lifecycle

Enqueue(s, kind, c) == [s EXCEPT !.jobs = Append(@, NewJob(kind, c, s.generation))]

CanEnqueue(s) == Len(s.jobs) < MaxJobs

HasFresh ==
  /\ cur # NoSlot
  /\ LET s == slot[cur]
     IN  s.events # <<>> /\ ~s.stale /\ ~s.dispose /\ s.reloads = 0

IsLifecycleCurrent(c) ==
  /\ cur # NoSlot
  /\ ~slot[cur].dispose
  /\ slot[cur].generation = captured[c]

LifecycleHolds(c) == captured[c] = 0 \/ IsLifecycleCurrent(c)

Answer(c, answer) ==
  outcome' = [outcome EXCEPT ![c] = IF @ = "waiting" THEN answer ELSE @]

-----------------------------------------------------------------------------
(* The calls. *)

Capture(c) ==
  /\ c \notin Creation /\ outcome[c] = "idle" /\ captured[c] = 0
  /\ CanCreateSlot
  /\ PutSlotFor(SlotFor)
  /\ captured' = [captured EXCEPT ![c] = SlotFor.generation]
  /\ UNCHANGED <<storeVars, outcome, published, evicted>>

Apply(c) ==
  /\ c \notin Creation /\ outcome[c] = "idle"
  /\ IF cur = NoSlot \/ slot[SlotId].dispose \/ slot[SlotId].stalled
     THEN /\ outcome' = [outcome EXCEPT ![c] = "unchanged"]
          /\ UNCHANGED slot
     ELSE /\ CanEnqueue(slot[cur])
          /\ slot' = [slot EXCEPT ![cur] = Enqueue(@, "apply", c)]
          /\ outcome' = [outcome EXCEPT ![c] = "waiting"]
  /\ UNCHANGED <<storeVars, cur, lifecycle, captured, published, evicted>>

CreateGame(c) ==
  /\ c \in Creation /\ outcome[c] = "idle"
  /\ CanCreateSlot
  /\ IF SlotFor.stalled
     THEN /\ outcome' = [outcome EXCEPT ![c] = "unchanged"]
          /\ UNCHANGED <<slot, cur, lifecycle>>
     ELSE /\ CanEnqueue(SlotFor)
          /\ PutSlotFor(Enqueue(SlotFor, "create", c))
          /\ outcome' = [outcome EXCEPT ![c] = "waiting"]
  /\ UNCHANGED <<storeVars, captured, published, evicted>>

ReloadFromLog ==
  /\ CanCreateSlot /\ ~SlotFor.stalled /\ CanEnqueue(SlotFor)
  /\ LET s == SlotFor
     IN  PutSlotFor([Enqueue(s, "reload", NoCmd)
                       EXCEPT !.stale = s.events # <<>>, !.reloads = @ + 1])
  /\ UNCHANGED <<storeVars, callVars>>

\* The step of ensureLoaded's loop that does not join a load already queued.
EnsureLoaded ==
  /\ CanCreateSlot
  /\ LET s == SlotFor
     IN /\ ~s.stalled /\ ~HasFresh /\ CanEnqueue(s)
        /\ \A i \in DOMAIN s.jobs :
             s.jobs[i].kind \in {"load", "reload"} => s.jobs[i].generation # s.generation
        /\ PutSlotFor(Enqueue(s, "load", NoCmd))
  /\ UNCHANGED <<storeVars, callVars>>

Evict ==
  /\ cur # NoSlot /\ lifecycle < MaxLifecycle
  /\ lifecycle' = lifecycle + 1
  /\ PutAndRelease(cur, [slot[cur] EXCEPT !.generation = lifecycle + 1, !.dispose = TRUE])
  /\ evicted' = evicted \cup
       {c \in Cmd : captured[c] = slot[cur].generation /\ txn[c].phase = "none"}
  /\ UNCHANGED <<storeVars, captured, outcome, published>>

-----------------------------------------------------------------------------
(* The head of a slot's queue. *)

Head1(k) == slot[k].jobs[1]

Waits(k, kinds, phase) ==
  /\ slot[k].jobs # <<>>
  /\ Head1(k).kind \in kinds /\ Head1(k).phase = phase

Goto(s, job) == [s EXCEPT !.jobs[1] = job]

\* The job at the head of s settles and its caller is told the answer.
Settle(k, s, answer) ==
  /\ PutAndRelease(k, [s EXCEPT !.jobs = Tail(@)])
  /\ IF s.jobs[1].cmd = NoCmd THEN UNCHANGED outcome ELSE Answer(s.jobs[1].cmd, answer)

\* refreshSlot up to its read.
Refresh(s, phase) ==
  [Goto(s, [s.jobs[1] EXCEPT !.phase = phase, !.generation = s.generation])
     EXCEPT !.stale = s.events # <<>>]

\* refreshSlot after its read; a load or a reload also revives the slot.
Installs(k, job) == job.generation = slot[k].generation /\ cur = k

Installed(s, job, revive) ==
  [s EXCEPT !.events = job.snapshot, !.stale = FALSE,
            !.dispose = @ /\ ~(revive /\ job.snapshot # <<>>)]

StartApply(k) ==
  /\ Waits(k, {"apply"}, "queued")
  /\ LET s == slot[k]
         c == Head1(k).cmd
     IN \/ /\ Head1(k).cancelled \/ ~LifecycleHolds(c) \/ s.events = <<>>
           /\ Settle(k, s, "unchanged")
        \/ /\ ~Head1(k).cancelled /\ LifecycleHolds(c) /\ s.events # <<>>
           /\ Put(k, IF s.stale THEN Refresh(s, "refresh")
                     ELSE Goto(s, [Head1(k) EXCEPT !.phase = "admission"]))
           /\ UNCHANGED outcome
  /\ UNCHANGED <<storeVars, lifecycle, captured, published, evicted>>

\* Mutant: the lifecycle is not looked at again once admission has resumed.
AdmissionHolds_Unfenced(k) == slot[k].events # <<>>

\* The checks between the end of admission and the domain call.
AdmissionHolds(k) ==
  LET s == slot[k]
      c == Head1(k).cmd
  IN /\ LifecycleHolds(c)
     /\ captured[c] # 0 => ~s.stale /\ s.reloads = 0
     /\ s.events # <<>>

(* beforeExecute and recheckAdmission may refuse, and so may the game; a   *)
(* command without effect is answered without touching the log.            *)
Admit(k) ==
  /\ Waits(k, {"apply"}, "admission")
  /\ LET s == slot[k]
         c == Head1(k).cmd
     IN \/ Settle(k, s, "unchanged") /\ UNCHANGED <<txn>>
        \/ /\ AdmissionHolds(k)
           /\ Put(k, Goto(s, [Head1(k) EXCEPT !.phase = "append"]))
           /\ txn' = [txn EXCEPT ![c] = [phase |-> "open", head |-> Len(s.events)]]
           /\ UNCHANGED outcome
  /\ UNCHANGED <<log, lifecycle, captured, published, evicted>>

StartCreate(k) ==
  /\ Waits(k, {"create"}, "queued")
  /\ LET s == slot[k]
         c == Head1(k).cmd
     IN \/ Settle(k, s, "unchanged") /\ UNCHANGED txn
        \/ /\ ~Head1(k).cancelled /\ s.events = <<>>
           /\ Put(k, Goto(s, [Head1(k) EXCEPT !.phase = "append"]))
           /\ txn' = [txn EXCEPT ![c] = [phase |-> "open", head |-> 0]]
           /\ UNCHANGED outcome
  /\ UNCHANGED <<log, lifecycle, captured, published, evicted>>

PayReload(s) == IF s.jobs[1].kind = "reload" THEN [s EXCEPT !.reloads = @ - 1] ELSE s

\* A reload always reads; a cold load only when nothing usable is resident.
StartLoad(k) ==
  /\ Waits(k, {"load", "reload"}, "queued")
  /\ LET s == slot[k]
         j == Head1(k)
         usable == s.events # <<>> /\ ~s.stale /\ ~s.dispose
     IN IF j.generation # s.generation \/ (j.kind = "load" /\ (cur # k \/ usable))
        THEN Settle(k, PayReload(s), "unchanged")
        ELSE Put(k, Refresh(s, "refresh")) /\ UNCHANGED outcome
  /\ UNCHANGED <<storeVars, lifecycle, captured, published, evicted>>

LoadReply(k) ==
  /\ Waits(k, {"load", "reload"}, "refresh") /\ Head1(k).taken
  /\ LET s == slot[k]
         j == Head1(k)
     IN Settle(k, PayReload(IF Installs(k, j) THEN Installed(s, j, TRUE) ELSE s), "unchanged")
  /\ UNCHANGED <<storeVars, lifecycle, captured, published, evicted>>

\* The read a command waited for; what it found may end the command.
RefreshReply(k) ==
  /\ Waits(k, {"apply"}, "refresh") /\ Head1(k).taken
  /\ LET j == Head1(k)
         s == IF Installs(k, j) THEN Installed(slot[k], j, FALSE) ELSE slot[k]
     IN IF Installs(k, j) /\ j.snapshot # <<>> /\ LifecycleHolds(j.cmd)
        THEN /\ Put(k, Goto(s, [j EXCEPT !.phase = "admission", !.taken = FALSE, !.snapshot = <<>>]))
             /\ UNCHANGED outcome
        ELSE Settle(k, s, "unchanged")
  /\ UNCHANGED <<storeVars, lifecycle, captured, published, evicted>>

\* A read fails or its deadline passes; the copy it was to replace stays stale.
ReadFails(k) ==
  /\ Waits(k, {"apply", "load", "reload"}, "refresh")
  /\ Settle(k, PayReload(slot[k]), "unchanged")
  /\ UNCHANGED <<storeVars, lifecycle, captured, published, evicted>>

-----------------------------------------------------------------------------
(* Durable writes. *)

\* Mutant: a write that fails after its deadline leaves the game stalled.
Lifted_OnSuccess(s, job) ==
  IF job.timedOut /\ job.failure = "none" THEN [s EXCEPT !.stalled = FALSE] ELSE s

\* The deadline's own mark goes when the write it was for has settled.
Lifted(s, job) == IF job.timedOut THEN [s EXCEPT !.stalled = FALSE] ELSE s

\* Mutant: a broadcast carries the revision its command was computed from.
Broadcast_OldRevision(s, c) == Append(published, [revision |-> Len(s.events), cmd |-> c])

Broadcast(s, c) == Append(published, [revision |-> Len(s.events) + 1, cmd |-> c])

AppendOk(k) ==
  /\ Waits(k, {"apply", "create"}, "append")
  /\ LET s == slot[k]
         j == Head1(k)
     IN /\ txn[j.cmd].phase = "committed"
        /\ IF j.kind = "create"
           THEN /\ Settle(k, [Lifted(s, j) EXCEPT !.events = <<j.cmd>>, !.stale = FALSE,
                                                  !.dispose = FALSE], "confirmed")
                /\ UNCHANGED published
           ELSE /\ Settle(k, [Lifted(s, j) EXCEPT !.events = Append(@, j.cmd),
                                                  !.stale = @ /\ ~j.timedOut], "confirmed")
                /\ published' = Broadcast(s, j.cmd)
  /\ UNCHANGED <<storeVars, lifecycle, captured, evicted>>

FailureAnswer(failure) == IF failure = "rejected" THEN "unchanged" ELSE "unknown"

(* The append rejects: definitely when the store refused it, with an error *)
(* of unknown outcome otherwise, committed or not, now or later.  A failed *)
(* creation is over; a command first reconciles its copy with the log.     *)
AppendFails(k) ==
  /\ Waits(k, {"apply", "create"}, "append")
  /\ LET s == slot[k]
         j == Head1(k)
     IN \E failure \in {"rejected", "error"} :
          /\ failure = "rejected" => txn[j.cmd].phase = "rejected"
          /\ IF j.kind = "create"
             THEN Settle(k, Lifted(s, j), FailureAnswer(failure))
             ELSE /\ Put(k, Refresh(Goto(s, [j EXCEPT !.failure = failure]), "reconcile"))
                  /\ UNCHANGED outcome
  /\ UNCHANGED <<storeVars, lifecycle, captured, published, evicted>>

\* The reconciling read ends, or fails and leaves the copy stale.
Reconciled(k) ==
  /\ Waits(k, {"apply"}, "reconcile")
  /\ LET s == slot[k]
         j == Head1(k)
     IN \/ Settle(k, Lifted(s, j), FailureAnswer(j.failure))
        \/ /\ j.taken /\ Installs(k, j)
           /\ Settle(k, Lifted(Installed(s, j, FALSE), j), FailureAnswer(j.failure))
  /\ UNCHANGED <<storeVars, lifecycle, captured, published, evicted>>

\* Mutant: the command in flight is answered like those that never started.
DeadlineAnswer_Refused == "unchanged"

DeadlineAnswer == "unknown"

\* Mutant: the jobs behind a write that is stuck are left to wait for it.
Unstarted_Forgotten(s) == {}

\* The commands whose turn has not come.
Unstarted(s) == {s.jobs[i].cmd : i \in 2..Len(s.jobs)} \ {NoCmd}

(* The write deadline: the slot stalls, the jobs behind the write are      *)
(* cancelled, and its own caller learns that the outcome is unknown.  The  *)
(* timer is armed from the append to the end of the reconciling read.      *)
WriteDeadline(k) ==
  /\ Waits(k, {"apply", "create"}, "append") \/ Waits(k, {"apply"}, "reconcile")
  /\ ~Head1(k).timedOut
  /\ LET s == slot[k]
     IN /\ Put(k, [s EXCEPT !.stalled = TRUE,
                            !.stale = @ \/ Head1(k).kind = "apply",
                            !.jobs = [i \in DOMAIN s.jobs |->
                               [s.jobs[i] EXCEPT !.timedOut = @ \/ i = 1,
                                                 !.cancelled = @ \/ s.jobs[i].cmd \in Unstarted(s)]]])
        /\ outcome' = [c \in Cmd |->
                         IF outcome[c] # "waiting" THEN outcome[c]
                         ELSE IF c = Head1(k).cmd THEN DeadlineAnswer
                         ELSE IF c \in Unstarted(s) THEN "unchanged" ELSE outcome[c]]
  /\ UNCHANGED <<storeVars, lifecycle, captured, published, evicted>>

-----------------------------------------------------------------------------
(* The durable log. *)

\* Mutant: the store does not compare the head inside its transaction.
StoreAppend_AnyHead(c) ==
  /\ txn[c].phase = "open"
  /\ log' = Append(log, c) /\ txn' = [txn EXCEPT ![c].phase = "committed"]
  /\ UNCHANGED <<slot, cur, lifecycle, callVars>>

(* The store decides an append: it commits exactly when the head is still  *)
(* the one the command saw.  A caller that gave up does not prevent it.    *)
StoreAppend(c) ==
  /\ txn[c].phase = "open"
  /\ IF Len(log) = txn[c].head
     THEN log' = Append(log, c) /\ txn' = [txn EXCEPT ![c].phase = "committed"]
     ELSE txn' = [txn EXCEPT ![c].phase = "rejected"] /\ UNCHANGED log
  /\ UNCHANGED <<slot, cur, lifecycle, callVars>>

StoreRead(k) ==
  /\ slot[k].jobs # <<>>
  /\ Head1(k).phase \in {"refresh", "reconcile"} /\ ~Head1(k).taken
  /\ slot' = [slot EXCEPT ![k].jobs[1].taken = TRUE, ![k].jobs[1].snapshot = log]
  /\ UNCHANGED <<storeVars, cur, lifecycle, callVars>>

ForeignAppend ==
  /\ Len(SelectSeq(log, LAMBDA e : e = Foreign)) < MaxForeign
  /\ log' = Append(log, Foreign)
  /\ UNCHANGED <<txn, slot, cur, lifecycle, callVars>>

-----------------------------------------------------------------------------

Call ==
  \/ \E c \in Cmd : Capture(c) \/ Apply(c) \/ CreateGame(c)
  \/ ReloadFromLog \/ EnsureLoaded \/ Evict

Work(k) ==
  \/ StartApply(k) \/ StartCreate(k) \/ StartLoad(k)
  \/ LoadReply(k) \/ RefreshReply(k) \/ ReadFails(k)
  \/ Admit(k) \/ Reconciled(k)

StoreAnswers(k) == AppendOk(k) \/ AppendFails(k)

Next ==
  \/ Call
  \/ \E k \in Slot : Work(k) \/ StoreAnswers(k) \/ WriteDeadline(k) \/ StoreRead(k)
  \/ \E c \in Cmd : StoreAppend(c)
  \/ ForeignAppend

Spec == Init /\ [][Next]_vars

(* The event loop runs what is runnable, reads have a deadline, and so     *)
(* does a write: its timer fires if its answer never comes.                *)
DeadlineFairness == \A k \in Slot : WF_vars(Work(k)) /\ WF_vars(WriteDeadline(k))

\* A store that answers every append, sooner or later.
StoreFairness == \A k \in Slot : WF_vars(StoreAnswers(k))

-----------------------------------------------------------------------------

(* One queue serialises a game: a slot that has work, started or not, is   *)
(* the registered one, whatever evictions, failed loads and re-creations   *)
(* came between (enqueue: "disposal cannot create a competing lock").      *)
OneQueue == \A k \in Slot : slot[k].jobs # <<>> => k = cur

(* The cached game is always a state the log has been in, also while an    *)
(* append of unknown outcome, an eviction or another gateway's event moved *)
(* the log under it.                                                       *)
RecordIsLogPrefix == \A k \in Slot : IsPrefix(slot[k].events, log)

(* A subscriber never sees a state that is not durable, and sees revisions *)
(* in the order of the log (commit publishes only after the append).       *)
PublishedIsDurable ==
  /\ \A i \in DOMAIN published :
       /\ published[i].revision <= Len(log)
       /\ log[published[i].revision] = published[i].cmd
  /\ \A i, j \in DOMAIN published : i < j => published[i].revision < published[j].revision

(* What edge reads serve without consulting the log (hasFresh) contains    *)
(* every command whose caller this process has told it was done.           *)
FreshCopyCoversConfirmed ==
  HasFresh => \A c \in Cmd : outcome[c] = "confirmed" => c \in ToSet(slot[cur].events)

(* What this process shows of a game, by a broadcast or by an edge read,   *)
(* is the log: nothing that is not durable, nothing out of order, and      *)
(* nothing that leaves out what it has confirmed.                          *)
OnlyTheLogIsShown == PublishedIsDurable /\ FreshCopyCoversConfirmed

(* A command bound to a lifecycle never writes once the slot it captured   *)
(* has been evicted, however far through its checks it had come.           *)
EvictionFences == \A c \in evicted : txn[c].phase = "none"

(* The callers of the authority see a durable log that answers each        *)
(* command once and truthfully, through every cache, timer and eviction.   *)
Promise == INSTANCE CommandLog WITH log <- log, outcome <- outcome
CallersArePromised == Promise!Spec

(* While a reload is outstanding the stale mark leaves a copy only with a  *)
(* read: the write deadline takes back its own mark, but "an independent   *)
(* reload request (reloadFromLog) keeps its own stale mark and refresh".   *)
ReloadKeepsItsMark ==
  [][\A k \in Slot :
       slot[k].stale /\ slot[k].reloads > 0 /\ slot'[k].events # <<>>
         => slot'[k].stale \/ Head1(k).taken]_vars

(* Every call is answered, even if the store never answers an append: the  *)
(* write deadline answers the command in flight and all those behind it.   *)
EveryCallAnswered == \A c \in Cmd : outcome[c] = "waiting" ~> outcome[c] # "waiting"

(* With a store that answers, a stalled game becomes available again.      *)
StallEnds == \A k \in Slot : slot[k].stalled ~> ~slot[k].stalled

=============================================================================

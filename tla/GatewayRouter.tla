----------------------------- MODULE GatewayRouter -----------------------------
(***************************************************************************)
(* How one gateway routes the commands of one game while the game changes  *)
(* hands: the reload debt a claim leaves behind, the reload that settles   *)
(* it, the tickets a command carries through all its waits, and an expiry  *)
(* that lets the game go again.  Leases are those of Ownership, the queue  *)
(* of the game that of Authority.  An append is sent by an owner and lands *)
(* later, also when the game has changed hands or its job has given up on  *)
(* it: the log takes whatever was computed from the whole of it, and       *)
(* ownership "is not durable fencing".  The log is its length.             *)
(***************************************************************************)
EXTENDS Naturals, Sequences, SequencesExt

CONSTANTS Player, Expiry,  \* commands: of players, and of the deadline workers
          None,
          MaxClaims,  \* bound: claims of this gateway
          MaxLives,   \* bound: lifecycles of the game's slot
          MaxLog,     \* bound: events
          MaxFaults   \* bound: reads and appends that fail

Cmd == Player \cup Expiry

VARIABLES log,     \* the number of events in the log
          over,    \* the event that ended the game, 0 if none
          stray,   \* appends to this very log that nobody here waits for: of another
                   \* gateway ("theirs"), or of a job here that has failed ("ours")
          key,     \* the owner key: "me", "rival" or "free"
          lease,   \* holdsValidLease
          claims,  \* the newest claim, as ticket and as claimGeneration
          base,    \* history: the events in the log when the lease was claimed, 0 without one
          debt,    \* the claim whose reload is outstanding (staleAfterClaim), or 0
          flight,  \* the claim whose reload is in flight (rehydrations), or 0
          slot,    \* the authority's slot
          cmd,     \* the commands
          faults

vars == <<log, over, stray, key, lease, claims, base, debt, flight, slot, cmd, faults>>
store == <<log, over, stray>>
owner == <<key, lease, claims, base>>

Assumptions ==
  /\ Player \cap Expiry = {} /\ None \notin Cmd
  /\ {MaxClaims, MaxLives, MaxLog, MaxFaults} \subseteq Nat

\* copy: how many events the resident copy was folded from, 0 if there is none.
EmptySlot(life) == [life |-> life, copy |-> 0, stale |-> FALSE, dispose |-> FALSE, stalled |-> FALSE, jobs |-> <<>>]
NewCmd == [pc |-> "idle", ticket |-> 0, life |-> 0, awaits |-> 0, loaded |-> FALSE, claimed |-> FALSE]

Jobs == [kind : {"load", "reload", "apply"}, cmd : Cmd \cup {None}, life : 0..MaxLives,
         claim : 0..MaxClaims, read : 0..MaxLog,
         phase : {"queued", "reading", "loaded", "validated", "appending", "landed", "repairing"}]
Phases == {"idle", "load", "loading", "routing", "claimed", "settling", "awaiting", "admitted", "queued",
           "cleanup", "evicting", "done"}

TypeOK ==
  /\ log \in 1..MaxLog /\ over \in 0..log /\ stray \subseteq {"theirs", "ours"} /\ base \in 0..log /\ key \in {"me", "rival", "free"} /\ lease \in BOOLEAN
  /\ {claims, debt, flight} \subseteq 0..MaxClaims /\ faults \in 0..MaxFaults
  /\ slot.copy \in 0..log /\ slot.life \in 1..MaxLives /\ \A i \in DOMAIN slot.jobs : slot.jobs[i] \in Jobs
  /\ {slot.stale, slot.dispose, slot.stalled} \subseteq BOOLEAN
  /\ cmd \in [Cmd -> [pc : Phases, ticket : 0..MaxClaims, life : 0..MaxLives, awaits : 0..MaxClaims,
                      loaded : BOOLEAN, claimed : BOOLEAN]]

Init ==
  /\ log = 1 /\ over = 0 /\ stray = {} /\ key = "free" /\ lease = FALSE /\ claims = 0 /\ base = 0 /\ debt = 0 /\ flight = 0
  /\ slot = EmptySlot(1) /\ cmd = [c \in Cmd |-> NewCmd] /\ faults = 0

At(c, pc) == cmd[c].pc = pc

\* On to pc, without what the command no longer needs.
Gone(call, pc) ==
  IF pc = "done" THEN [NewCmd EXCEPT !.pc = pc]
  ELSE IF pc = "cleanup" THEN [NewCmd EXCEPT !.pc = pc, !.loaded = call.loaded, !.claimed = call.claimed]
  ELSE [call EXCEPT !.pc = pc, !.awaits = 0]
Goto(c, pc) == cmd' = [cmd EXCEPT ![c] = Gone(@, pc)]

-----------------------------------------------------------------------------
(* The authority's slot. *)

Reloads(s) == \E i \in DOMAIN s.jobs : s.jobs[i].kind = "reload"
HasFresh == slot.copy > 0 /\ ~slot.stale /\ ~slot.dispose /\ ~Reloads(slot)
LifeIsCurrent(life) == ~slot.dispose /\ slot.life = life

Enqueued(s, kind, c, claim) ==
  [s EXCEPT !.jobs = Append(@, [kind |-> kind, cmd |-> c, life |-> s.life, claim |-> claim,
                                phase |-> "queued", read |-> 0])]

\* The slot is dropped once nothing waits in it and it keeps no copy.
Settled(s) == IF s.jobs = <<>> /\ (s.dispose \/ s.copy = 0) THEN EmptySlot(s.life + 1) ELSE s
Shifted(s) == Settled([s EXCEPT !.jobs = Tail(@)])
CanShift == Len(slot.jobs) > 1 \/ slot.life < MaxLives

Evicted == Settled([slot EXCEPT !.life = @ + 1, !.dispose = TRUE])
CanEvict == slot.life + 1 < MaxLives

Running(kinds, phases) ==
  slot.jobs # <<>> /\ Head(slot.jobs).kind \in kinds /\ Head(slot.jobs).phase \in phases

-----------------------------------------------------------------------------
(* Ownership. *)

\* markClaimed: onClaimed records the reload debt of this claim.
Claimed == lease' = TRUE /\ key' = "me" /\ claims' = claims + 1 /\ base' = log /\ debt' = claims + 1

\* The lease lapses; the registry notices (onReleased) or does not yet.
Lapse ==
  /\ lease /\ lease' = FALSE /\ base' = 0 /\ debt' \in {debt, 0}
  /\ UNCHANGED <<store, key, claims, flight, slot, cmd, faults>>

\* A late renewal that succeeds is a claim of its own.
RenewalClaims ==
  /\ ~lease /\ key = "me" /\ claims < MaxClaims /\ Claimed
  /\ UNCHANGED <<store, flight, slot, cmd, faults>>

KeyLapses ==
  /\ key = "rival" \/ (key = "me" /\ ~lease)
  /\ key' = "free"
  /\ UNCHANGED <<store, lease, claims, base, debt, flight, slot, cmd, faults>>

RivalClaims ==
  /\ key = "free" /\ key' = "rival"
  /\ UNCHANGED <<store, lease, claims, base, debt, flight, slot, cmd, faults>>

\* Another owner has admitted a command to its copy of the whole log.  (What was computed
\* from less never lands.)
RivalSends ==
  /\ key = "rival" /\ over = 0 /\ log < MaxLog /\ stray' = stray \cup {"theirs"}
  /\ UNCHANGED <<log, over, owner, debt, flight, slot, cmd, faults>>

\* The store takes an append to the whole log, which may end the game, and from here on
\* refuses others to what was the log.
Lands(ends) ==
  /\ log < MaxLog /\ log' = log + 1 /\ stray' = {}
  /\ over' = IF ends THEN log + 1 ELSE over

StrayLands ==
  /\ stray # {} /\ \E ends \in BOOLEAN : Lands(ends)
  /\ UNCHANGED <<owner, debt, flight, slot, cmd, faults>>

-----------------------------------------------------------------------------
(* A command: routedExpiry, route, applyLocal. *)

\* An expiry remembers what it found here.
StartExpiry(c) ==
  /\ At(c, "idle") /\ c \in Expiry
  /\ cmd' = [cmd EXCEPT ![c].loaded = slot.copy = 0 \/ slot.dispose, ![c].claimed = ~lease, ![c].pc = "load"]
  /\ UNCHANGED <<store, owner, debt, flight, slot, faults>>

\* ensureLoaded: again until a copy is fresh; refused while a write is stalled.
EnsureLoaded(c) ==
  /\ At(c, "load")
  /\ IF slot.stalled THEN Goto(c, "done") /\ UNCHANGED slot
     ELSE IF HasFresh THEN Goto(c, "routing") /\ UNCHANGED slot
     ELSE Goto(c, "loading") /\ slot' = Enqueued(slot, "load", c, 0)
  /\ UNCHANGED <<store, owner, debt, flight, faults>>

StartPlayer(c) ==
  /\ At(c, "idle") /\ c \in Player /\ Goto(c, "routing")
  /\ UNCHANGED <<store, owner, debt, flight, slot, faults>>

\* Somebody joins the game here.
Join ==
  /\ ~HasFresh /\ slot.jobs = <<>>
  /\ slot' = Enqueued(slot, "load", None, 0)
  /\ UNCHANGED <<store, owner, debt, flight, cmd, faults>>

\* The caller is told; an expiry has still to clean up.
Told(c) == Gone(cmd[c], IF c \in Expiry THEN "cleanup" ELSE "done")
Answer(c) == cmd' = [cmd EXCEPT ![c] = Told(c)]

\* captureAdmission: the ticket and the lifecycle this command is held to.
Captured(c) == [cmd[c] EXCEPT !.pc = "settling", !.ticket = claims, !.life = slot.life]

\* The local lease, or a claim, or the rival's gateway.
Route(c) ==
  /\ At(c, "routing")
  /\ \/ lease /\ cmd' = [cmd EXCEPT ![c] = Captured(c)] /\ UNCHANGED <<owner, debt>>
     \/ ~lease /\ key # "rival" /\ claims < MaxClaims /\ Claimed /\ Goto(c, "claimed")
     \/ ~lease /\ key = "rival" /\ Answer(c) /\ UNCHANGED <<owner, debt>>
  /\ UNCHANGED <<store, flight, slot, faults>>

\* The claim has been answered.
Capture(c) ==
  /\ At(c, "claimed")
  /\ IF lease THEN cmd' = [cmd EXCEPT ![c] = Captured(c)] ELSE Answer(c)
  /\ UNCHANGED <<store, owner, debt, flight, slot, faults>>

\* rehydrateIfStale: one reload for each claim's debt, which others join, and which is
\* refused while a write is stalled.
Settle(c) ==
  /\ At(c, "settling")
  /\ IF debt = 0 THEN Goto(c, "admitted") /\ UNCHANGED <<flight, slot>>
     ELSE IF flight # debt /\ slot.stalled THEN Answer(c) /\ UNCHANGED <<flight, slot>>
     ELSE /\ cmd' = [cmd EXCEPT ![c].pc = "awaiting", ![c].awaits = debt]
          /\ flight' = debt
          /\ slot' = IF flight = debt THEN slot ELSE [Enqueued(slot, "reload", None, debt) EXCEPT !.stale = slot.copy > 0]
  /\ UNCHANGED <<store, owner, debt, faults>>

\* admission.check: this claim, this lifecycle, and no debt.
Admits(c) == lease /\ cmd[c].ticket = claims /\ LifeIsCurrent(cmd[c].life) /\ debt = 0

Submit(c) ==
  /\ At(c, "admitted")
  /\ IF Admits(c) /\ ~slot.stalled THEN Goto(c, "queued") /\ slot' = Enqueued(slot, "apply", c, 0)
     ELSE Answer(c) /\ UNCHANGED slot
  /\ UNCHANGED <<store, owner, debt, flight, faults>>

-----------------------------------------------------------------------------
(* The queue. *)

\* Mutant: a finished reload settles whatever debt there is.
DebtAfter_AnyClaim(job) == IF job.kind = "reload" THEN 0 ELSE debt

\* A reload settles the debt of the claim it was started for.
DebtAfter(job) == IF job.kind = "reload" /\ job.claim = debt THEN 0 ELSE debt

\* Who waited for the job goes on, or is told that the read failed.
Resumed(job, failed) ==
  [c \in Cmd |->
     IF At(c, "loading") /\ job.cmd = c THEN Gone(cmd[c], IF failed THEN "done" ELSE "load")
     ELSE IF At(c, "awaiting") /\ job.kind = "reload" /\ job.claim = cmd[c].awaits
     THEN IF failed THEN Told(c) ELSE Gone(cmd[c], "settling")
     ELSE cmd[c]]

EndFlight(job) == flight' = IF job.kind = "reload" /\ job.claim = flight THEN 0 ELSE flight

\* The job at the head is over: it leaves the slot as s and resolves its promise.
EndJob(s, debtNow, failed) ==
  /\ CanShift /\ slot' = Shifted(s) /\ debt' = debtNow /\ EndFlight(Head(slot.jobs))
  /\ cmd' = Resumed(Head(slot.jobs), failed)

\* The head goes on in another phase.
Advance(s, phase, read) == slot' = [s EXCEPT !.jobs[1].phase = phase, !.jobs[1].read = read]

\* A read of the log begins, unless the slot was evicted or a load finds a fresh copy.
StartRead ==
  /\ Running({"load", "reload"}, {"queued"})
  /\ LET job == Head(slot.jobs)
     IN IF \/ job.life # slot.life
           \/ job.kind = "load" /\ slot.copy > 0 /\ ~slot.stale /\ ~slot.dispose
        THEN EndJob(slot, DebtAfter(job), FALSE)
        ELSE /\ Advance([slot EXCEPT !.stale = slot.copy > 0], "reading", log)
             /\ UNCHANGED <<debt, flight, cmd>>
  /\ UNCHANGED <<store, owner, faults>>

\* What was read is installed unless the slot has been evicted meanwhile.
Install ==
  /\ Running({"load", "reload"}, {"reading"})
  /\ LET job == Head(slot.jobs)
     IN EndJob(IF job.life # slot.life THEN slot
               ELSE [slot EXCEPT !.copy = job.read, !.stale = FALSE, !.dispose = FALSE],
               DebtAfter(job), FALSE)
  /\ UNCHANGED <<store, owner, faults>>

ReadFails ==
  /\ Running({"load", "reload"}, {"reading"}) /\ faults < MaxFaults
  /\ EndJob(slot, debt, TRUE) /\ faults' = faults + 1
  /\ UNCHANGED <<store, owner>>

\* Its caller is told, unless the write deadline has told it.
Tell(c) == IF At(c, "queued") THEN Answer(c) ELSE UNCHANGED cmd

\* An apply is over, and its caller is told that it was refused.
Refuse(s) == CanShift /\ slot' = Shifted(s) /\ Tell(Head(slot.jobs).cmd)

Stale(c) == At(c, "queued") /\ LifeIsCurrent(cmd[c].life) /\ slot.stale

\* apply reads a stale copy again, once.
Refresh ==
  /\ \/ /\ Running({"apply"}, {"queued"}) /\ Stale(Head(slot.jobs).cmd)
        /\ Advance(slot, "reading", log) /\ UNCHANGED <<cmd, faults>>
     \/ /\ Running({"apply"}, {"reading"})
        /\ LET job == Head(slot.jobs)
           IN \/ /\ LifeIsCurrent(cmd[job.cmd].life)
                 /\ Advance([slot EXCEPT !.copy = job.read, !.stale = FALSE], "loaded", 0)
                 /\ UNCHANGED <<cmd, faults>>
              \/ ~LifeIsCurrent(cmd[job.cmd].life) /\ Refuse(slot) /\ UNCHANGED faults
              \/ faults < MaxFaults /\ Refuse(slot) /\ faults' = faults + 1
  /\ UNCHANGED <<store, owner, debt, flight>>

\* beforeExecute: the admission, and Redis is asked who owns the game.
Validate ==
  /\ Running({"apply"}, {"queued", "loaded"})
  /\ LET job == Head(slot.jobs)
         c == job.cmd
     IN /\ job.phase = "queued" => ~Stale(c)
        /\ IF At(c, "queued") /\ slot.copy > 0 /\ Admits(c) /\ key = "me"
           THEN Advance(slot, "validated", 0) /\ UNCHANGED cmd
           ELSE Refuse(slot)
  /\ UNCHANGED <<store, owner, debt, flight, faults>>

\* The last look at the admission.  Then the aggregate refuses, or the append is sent with
\* the head that the copy knows.
Execute ==
  /\ Running({"apply"}, {"validated"})
  /\ \/ /\ Admits(Head(slot.jobs).cmd) /\ ~slot.stale /\ ~Reloads(slot) /\ (over = 0 \/ slot.copy < over)
        /\ Advance(slot, "appending", slot.copy) /\ UNCHANGED cmd
     \/ Refuse(slot)
  /\ UNCHANGED <<store, owner, debt, flight, faults>>

\* The store takes the append if the log has not moved since.  Nobody asks about leases.
AppendLands ==
  /\ Running({"apply"}, {"appending"}) /\ Head(slot.jobs).read = log
  /\ \E ends \in BOOLEAN : Lands(ends) /\ (Head(slot.jobs).cmd \in Expiry => ends)
  /\ Advance(slot, "landed", log)
  /\ UNCHANGED <<owner, debt, flight, cmd, faults>>

\* A late success clears the mark of the deadline, or of whoever set it.
AppendConfirmed ==
  /\ Running({"apply"}, {"landed"}) /\ CanShift
  /\ slot' = Shifted([slot EXCEPT !.copy = Head(slot.jobs).read + 1, !.stale = @ /\ ~slot.stalled, !.stalled = FALSE])
  /\ Tell(Head(slot.jobs).cmd)
  /\ UNCHANGED <<store, owner, debt, flight, faults>>

\* Refused by the store, or an error that tells nothing: it landed, will never, or will yet.
AppendFails ==
  /\ Running({"apply"}, {"appending", "landed"})
  /\ LET job == Head(slot.jobs)
     IN \/ job.phase = "appending" /\ job.read # log /\ UNCHANGED <<stray, faults>>
        \/ /\ faults < MaxFaults /\ faults' = faults + 1
           /\ stray' \in {stray, IF job.phase = "appending" /\ job.read = log THEN stray \cup {"ours"} ELSE stray}
  /\ Advance([slot EXCEPT !.stale = TRUE], "repairing", log)
  /\ UNCHANGED <<log, over, owner, debt, flight, cmd>>

\* The log is read again, which may fail; an evicted slot keeps what nobody looks at.
Repaired ==
  /\ Running({"apply"}, {"repairing"})
  /\ LET job == Head(slot.jobs)
         s == [slot EXCEPT !.stalled = FALSE]
     IN \/ job.life = slot.life /\ Refuse([s EXCEPT !.copy = job.read, !.stale = FALSE]) /\ UNCHANGED faults
        \/ job.life # slot.life /\ Refuse(s) /\ UNCHANGED faults
        \/ faults < MaxFaults /\ Refuse(s) /\ faults' = faults + 1
  /\ UNCHANGED <<store, owner, debt, flight>>

\* The write deadline: whoever waits in the queue is told, and the append goes on.
WriteDeadline ==
  /\ Running({"apply"}, {"appending", "landed", "repairing"}) /\ ~slot.stalled
  /\ slot' = [slot EXCEPT !.stalled = TRUE, !.stale = TRUE]
  /\ cmd' = [c \in Cmd |-> IF At(c, "queued") THEN Told(c) ELSE cmd[c]]
  /\ UNCHANGED <<store, owner, debt, flight, faults>>

-----------------------------------------------------------------------------
(* After an expiry nobody here is watching. *)

Ended == HasFresh /\ over # 0 /\ slot.copy >= over

\* registry.release: onReleased forgets the debt; the key is deleted, or expires.
LetGo(c) ==
  /\ At(c, "cleanup")
  /\ \/ Ended /\ cmd[c].claimed /\ lease
        /\ lease' = FALSE /\ base' = 0 /\ debt' = 0 /\ key' \in {"me", "free"} /\ UNCHANGED claims
        /\ Goto(c, "evicting")
     \/ ~(Ended /\ cmd[c].claimed /\ lease) /\ Goto(c, "evicting") /\ UNCHANGED <<owner, debt>>
     \/ Goto(c, "done") /\ UNCHANGED <<owner, debt>>  \* somebody is watching
  /\ UNCHANGED <<store, flight, slot, faults>>

EvictCopy(c) ==
  /\ At(c, "evicting") /\ (cmd[c].loaded => CanEvict)
  /\ slot' = (IF cmd[c].loaded THEN Evicted ELSE slot) /\ Goto(c, "done")
  /\ UNCHANGED <<store, owner, debt, flight, faults>>

Next ==
  \/ Lapse \/ RenewalClaims \/ KeyLapses \/ RivalClaims \/ RivalSends \/ StrayLands \/ Join
  \/ StartRead \/ Install \/ ReadFails \/ Refresh \/ Validate \/ Execute
  \/ AppendLands \/ AppendConfirmed \/ AppendFails \/ WriteDeadline \/ Repaired
  \/ \E c \in Cmd :
       \/ StartExpiry(c) \/ EnsureLoaded(c) \/ StartPlayer(c) \/ Route(c) \/ Capture(c) \/ Settle(c) \/ Submit(c)
       \/ LetGo(c) \/ EvictCopy(c)

Spec == Init /\ [][Next]_vars

-----------------------------------------------------------------------------

\* The head's append is sent in this step, or lands.
Sends == Running({"apply"}, {"validated"}) /\ slot'.jobs # <<>> /\ slot'.jobs[1].phase = "appending"
ItLands == Running({"apply"}, {"appending"}) /\ slot'.jobs # <<>> /\ slot'.jobs[1].phase = "landed"

\* "A reload begun for an earlier claim must not settle a later claim's debt": a fresh copy
\* under a valid lease without debt has everything an earlier owner had left in the log when
\* the game was claimed (rehydrateIfStale).
CopyHasTheClaim == lease /\ debt = 0 /\ HasFresh => base <= slot.copy

\* And all that came since but the last event at most, one that was on its way when the
\* copy was read or extended (authority.ts; holdsOwnership vouches for no more).
CopyLacksOneAtMost == lease /\ debt = 0 /\ HasFresh => log \in {slot.copy, slot.copy + 1}

\* A command is sent by the owner, from such a copy, however long ago its admission was
\* captured.  What lands under a lease and was not sent under it was sent to the log as it
\* was at the claim, so that the events of two owners never alternate; and nothing lands
\* after the ending, whoever sent it (captureAdmission, apply, commit).
AppendsAreTheOwners ==
  /\ Sends => key = "me" /\ lease /\ base <= slot.copy /\ log \in {slot.copy, slot.copy + 1}
  /\ log' # log => over = 0
  /\ log' # log /\ lease /\ ~ItLands => log = base \/ "ours" \in stray

\* A gateway that claims a game routes its commands to what the earlier owners left, and
\* late appends of either do no harm (CommandRouter, GameAuthority.commit).
RoutingIsCurrent == [](CopyHasTheClaim /\ CopyLacksOneAtMost) /\ [][AppendsAreTheOwners]_vars

=============================================================================

----------------------------- MODULE TerminalInbox -----------------------------
(***************************************************************************)
(* The durable inbox of finished games for one consumer, and the           *)
(* reconcilers that work it off: leases with tokens, receipts, retries,    *)
(* the fence around a report's transaction and the two scans.              *)
(*                                                                         *)
(* A reconciler handles one game at a time, so its own name can stand for  *)
(* the token of its current claim.  Times are what is left of them, which  *)
(* makes a lapsed lease and no lease, and a due retry and no row, alike.   *)
(***************************************************************************)
EXTENDS Integers, FiniteSets, FiniteSetsExt

CONSTANTS LastId,         \* endings are 1..LastId, in the order of their primary key
          Void,         \* endings without a result, which need no report
          Poison,       \* endings that cannot be decoded or analysed
          Worker, None,
          Lease,        \* TERMINAL_LEASE_MS
          RetryBase, RetryCap, MaxFailures,
          OlderPage, ForwardPage,  \* items per scan (100 and 1000)
          Timely,       \* whether renewals keep ahead of their leases
          MaxFaults     \* bound: transient failures, lost replies and crashes

Event == 1..LastId

VARIABLES ended,    \* the committed endings
          retry,    \* terminal_event_retries
          receipt,  \* terminal_event_receipts
          report,   \* endings whose report is stored
          lock,     \* who holds the lock of an event's row in a report transaction
          worker,   \* the reconcilers
          faults

vars == <<ended, retry, receipt, report, lock, worker, faults>>

Assumptions ==
  /\ LastId \in Nat \ {0} /\ Void \subseteq Event /\ Poison \subseteq Event
  /\ None \notin Worker /\ MaxFaults \in Nat /\ Timely \in BOOLEAN
  /\ {Lease, RetryBase, RetryCap, MaxFailures, OlderPage, ForwardPage} \subseteq Nat \ {0}

NoRow == [failures |-> 0, due |-> 0, token |-> None, left |-> 0]

(* phase: where the reconciler stands.                                     *)
(*   idle     no scan runs                                                 *)
(*   claim    about to claim the next item of the pass                     *)
(*   consume  the consumer analyses the game                               *)
(*   write    in the report's transaction, which holds the row locks       *)
(*   commit   the fence was asserted for the second time                   *)
(*   settle   the consumer returned                                        *)
(*   fail     something threw, and the lease was not known to be lost      *)
Phases == {"idle", "claim", "consume", "write", "commit", "settle", "fail"}

Fresh == [phase |-> "idle", pass |-> "forward", cursor |-> 0, reverse |-> 0, page |-> 0,
          item |-> 0, aborted |-> FALSE]

Init ==
  /\ ended = {} /\ receipt = {} /\ report = {}
  /\ retry = [e \in Event |-> NoRow]
  /\ lock = [e \in Event |-> None]
  /\ worker = [w \in Worker |-> Fresh]
  /\ faults = 0

TypeOK ==
  /\ ended \subseteq Event /\ receipt \subseteq ended /\ report \subseteq ended
  /\ retry \in [Event -> [failures : 0..MaxFailures, due : 0..RetryCap,
                          token : Worker \cup {None}, left : 0..Lease]]
  /\ lock \in [Event -> Worker \cup {None}]
  /\ worker \in [Worker -> [phase : Phases, pass : {"forward", "older"}, cursor : 0..LastId,
                            reverse : 0..LastId, page : 0..OlderPage + ForwardPage, item : 0..LastId,
                            aborted : BOOLEAN]]
  /\ \A w \in Worker : worker[w].phase \in {"idle", "claim"} <=> worker[w].item = 0
  /\ faults \in 0..MaxFaults

Item(w) == worker[w].item
At(w, phase) == worker[w].phase = phase
Goto(w, r) == worker' = [worker EXCEPT ![w] = r]
Owns(w, e) == retry[e].token = w /\ retry[e].left > 0
Faulty == faults < MaxFaults /\ faults' = faults + 1

-----------------------------------------------------------------------------
(* The scans. *)

Forward(r) == [r EXCEPT !.phase = "claim", !.pass = "forward", !.page = ForwardPage,
                        !.item = 0, !.aborted = FALSE]

\* The item is over: another one, the next pass, or the end of this scan.
Released(r) ==
  IF r.page > 0 THEN [r EXCEPT !.phase = "claim", !.item = 0, !.aborted = FALSE]
  ELSE IF r.pass = "older" THEN Forward(r)
  ELSE [r EXCEPT !.phase = "idle", !.item = 0, !.aborted = FALSE]

\* Mutant: an error in the consumer is logged and forgotten.
Raised_Logged(r) == IF r.aborted THEN Released(r) ELSE [r EXCEPT !.phase = "settle"]

\* A failure counts unless the lease is known to be lost.
Raised(r) == IF r.aborted THEN Released(r) ELSE [r EXCEPT !.phase = "fail"]

\* Mutant: every scan starts at the front.
StartScan_AtFront(w) ==
  /\ At(w, "idle")
  /\ Goto(w, Forward([worker[w] EXCEPT !.cursor = 0]))
  /\ UNCHANGED <<ended, retry, receipt, report, lock, faults>>

\* A broadcast or the timer wakes a reconciler that is not scanning.
StartScan(w) ==
  /\ At(w, "idle")
  /\ LET r == worker[w]
     IN Goto(w, IF r.cursor = 0 THEN Forward(r)
                ELSE [r EXCEPT !.phase = "claim", !.pass = "older", !.page = OlderPage,
                               !.reverse = IF @ = 0 THEN r.cursor ELSE @])
  /\ UNCHANGED <<ended, retry, receipt, report, lock, faults>>

Beyond(r) == {e \in Event : IF r.pass = "older" THEN e < r.reverse ELSE e > r.cursor}

\* Mutant: the row lock of a report's transaction is not respected.
Free_Unlocked(e) == e \in ended \ receipt /\ retry[e].due = 0 /\ retry[e].left = 0

\* Mutant: a claim does not look for a receipt.
Free_Receipted(e) == e \in ended /\ retry[e].due = 0 /\ retry[e].left = 0 /\ lock[e] = None

Free(e) == e \in ended \ receipt /\ retry[e].due = 0 /\ retry[e].left = 0 /\ lock[e] = None

FirstFree(r) ==
  LET free == {e \in Beyond(r) : Free(e)} IN IF r.pass = "older" THEN Max(free) ELSE Min(free)

Leased(w, e) == [retry EXCEPT ![e].token = w, ![e].left = Lease]

\* A claim leases the first free ending of the pass and moves the pass's cursor to it.
Claim(w) ==
  /\ At(w, "claim") /\ \E e \in Beyond(worker[w]) : Free(e)
  /\ LET r == worker[w]
         e == FirstFree(r)
         taken == [r EXCEPT !.phase = "consume", !.item = e, !.page = @ - 1]
     IN /\ retry' = Leased(w, e)
        /\ Goto(w, IF r.pass = "older" THEN [taken EXCEPT !.reverse = e]
                   ELSE [taken EXCEPT !.cursor = e])
  /\ UNCHANGED <<ended, receipt, report, lock, faults>>

(* No item: none is free, or the one that was selected has been claimed by *)
(* another reconciler since the statement's snapshot.                      *)
Exhausted(w) ==
  /\ At(w, "claim")
  /\ LET r == worker[w]
     IN /\ \/ \A e \in Beyond(r) : ~Free(e)
           \/ \E e \in Beyond(r) : retry[e].left = Lease /\ retry[e].token # w
        /\ Goto(w, IF r.pass = "older" THEN Forward([r EXCEPT !.reverse = 0])
                   ELSE [r EXCEPT !.phase = "idle", !.cursor = 0, !.reverse = 0])
  /\ UNCHANGED <<ended, retry, receipt, report, lock, faults>>

\* A claim that fails, or whose reply is lost, ends the scan where it stood.
ClaimFails(w) ==
  /\ At(w, "claim") /\ Faulty
  /\ retry' \in {retry} \cup {Leased(w, e) : e \in {x \in Beyond(worker[w]) : Free(x) /\ x = FirstFree(worker[w])}}
  /\ Goto(w, [worker[w] EXCEPT !.phase = "idle"])
  /\ UNCHANGED <<ended, receipt, report, lock>>

-----------------------------------------------------------------------------
(* One item. *)

\* Analysis throws, or the ending cannot be decoded.
ConsumeFails(w) ==
  /\ At(w, "consume")
  /\ IF Item(w) \in Poison THEN UNCHANGED faults ELSE Faulty
  /\ Goto(w, Raised(worker[w]))
  /\ UNCHANGED <<ended, retry, receipt, report, lock>>

\* What the consumer's return leads to (throwIfAborted).
Returned(r) == IF r.aborted THEN Released(r) ELSE [r EXCEPT !.phase = "settle"]

ConsumeVoid(w) ==
  /\ At(w, "consume") /\ Item(w) \in Void \ Poison
  /\ Goto(w, Returned(worker[w]))
  /\ UNCHANGED <<ended, retry, receipt, report, lock, faults>>

\* The report's transaction locks the event's row and then the lease's.
BeginReport(w) ==
  /\ At(w, "consume") /\ Item(w) \notin Void \cup Poison
  /\ LET e == Item(w)
     IN \/ /\ lock[e] = None /\ Owns(w, e) /\ ~worker[w].aborted
           /\ lock' = [lock EXCEPT ![e] = w]
           /\ Goto(w, [worker[w] EXCEPT !.phase = "write"])
        \/ /\ lock[e] # None \/ ~Owns(w, e) \/ worker[w].aborted
           /\ Goto(w, Raised(worker[w]))
           /\ UNCHANGED lock
  /\ UNCHANGED <<ended, retry, receipt, report, faults>>

Unlocked(w) == [e \in Event |-> IF lock[e] = w THEN None ELSE lock[e]]

\* The lease is asserted again just before the commit, under the same locks.
AssertFence(w) ==
  /\ At(w, "write")
  /\ IF Owns(w, Item(w)) /\ ~worker[w].aborted
     THEN Goto(w, [worker[w] EXCEPT !.phase = "commit"]) /\ UNCHANGED lock
     ELSE Goto(w, Raised(worker[w])) /\ lock' = Unlocked(w)
  /\ UNCHANGED <<ended, retry, receipt, report, faults>>

CommitReport(w) ==
  /\ At(w, "commit")
  /\ report' = report \cup {Item(w)} /\ lock' = Unlocked(w)
  /\ Goto(w, Returned(worker[w]))
  /\ UNCHANGED <<ended, retry, receipt, faults>>

\* The connection is lost in the transaction: committed only if it had come so far.
ReportFails(w) ==
  /\ (At(w, "write") \/ At(w, "commit")) /\ Faulty
  /\ report' \in {report} \cup {report \cup {Item(w)} : p \in {worker[w].phase} \cap {"commit"}}
  /\ lock' = Unlocked(w)
  /\ Goto(w, Raised(worker[w]))
  /\ UNCHANGED <<ended, retry, receipt>>

\* The receipt replaces the lease; a lease that was lost is not receipted.
Acknowledge(w) ==
  /\ At(w, "settle")
  /\ LET e == Item(w)
     IN IF lock[e] = None /\ Owns(w, e)
        THEN /\ receipt' = receipt \cup {e} /\ retry' = [retry EXCEPT ![e] = NoRow]
             /\ Goto(w, Released(worker[w]))
        ELSE /\ Goto(w, Raised(worker[w]))
             /\ UNCHANGED <<receipt, retry>>
  /\ UNCHANGED <<ended, report, lock, faults>>

\* An acknowledgement whose reply is lost, executed or not.
AcknowledgeFails(w) ==
  /\ At(w, "settle") /\ Faulty
  /\ LET e == Item(w)
     IN \/ UNCHANGED <<receipt, retry>>
        \/ /\ lock[e] = None /\ Owns(w, e)
           /\ receipt' = receipt \cup {e} /\ retry' = [retry EXCEPT ![e] = NoRow]
  /\ Goto(w, Raised(worker[w]))
  /\ UNCHANGED <<ended, report, lock>>

\* terminalRetryDelay: doubling, with the exponent clamped before it is used.
RetryDelay(failures) == Min({RetryCap, RetryBase * 2 ^ Min({failures - 1, 8})})

Scheduled(e) ==
  LET failures == Min({retry[e].failures + 1, MaxFailures})
  IN [retry EXCEPT ![e] = [NoRow EXCEPT !.failures = failures, !.due = RetryDelay(failures)]]

\* Mutant: a failure is recorded whoever holds the lease by now.
Fail_Any(w) ==
  /\ At(w, "fail")
  /\ retry' = Scheduled(Item(w))
  /\ Goto(w, Released(worker[w]))
  /\ UNCHANGED <<ended, receipt, report, lock, faults>>

\* The failure is counted and the lease given up, by its holder only.
Fail(w) ==
  /\ At(w, "fail")
  /\ retry' = IF Owns(w, Item(w)) THEN Scheduled(Item(w)) ELSE retry
  /\ Goto(w, Released(worker[w]))
  /\ UNCHANGED <<ended, receipt, report, lock, faults>>

FailFails(w) ==
  /\ At(w, "fail") /\ Faulty
  /\ Goto(w, Released(worker[w]))
  /\ UNCHANGED <<ended, retry, receipt, report, lock>>

-----------------------------------------------------------------------------
(* Leases, time and processes. *)

\* The renewal timer; it waits behind the locks of the reconciler's own transaction.
Renew(w) ==
  /\ Item(w) # 0 /\ ~worker[w].aborted /\ ~At(w, "write") /\ ~At(w, "commit")
  /\ IF Owns(w, Item(w))
     THEN retry' = Leased(w, Item(w)) /\ UNCHANGED worker
     ELSE Goto(w, [worker[w] EXCEPT !.aborted = TRUE]) /\ UNCHANGED retry
  /\ UNCHANGED <<ended, receipt, report, lock, faults>>

\* A renewal that fails or takes too long: the reconciler takes its lease for lost.
RenewFails(w) ==
  /\ Item(w) # 0 /\ ~worker[w].aborted /\ Faulty
  /\ Goto(w, [worker[w] EXCEPT !.aborted = TRUE])
  /\ UNCHANGED <<ended, retry, receipt, report, lock>>

\* A process dies, or stops: its leases stay, its transaction rolls back or was committed.
Crash(w) ==
  /\ ~At(w, "idle") /\ Faulty
  /\ report' \in {report} \cup {report \cup {Item(w)} : p \in {worker[w].phase} \cap {"commit"}}
  /\ lock' = Unlocked(w)
  /\ Goto(w, Fresh)
  /\ UNCHANGED <<ended, retry, receipt>>

End(e) ==
  /\ e \notin ended /\ ended' = ended \cup {e}
  /\ UNCHANGED <<retry, receipt, report, lock, worker, faults>>

Less(n) == IF n = 0 THEN 0 ELSE n - 1

Tick ==
  /\ Timely => \A w \in Worker :
       Item(w) # 0 /\ ~worker[w].aborted /\ Owns(w, Item(w)) => retry[Item(w)].left > 1
  /\ retry' = [e \in Event |-> [retry[e] EXCEPT !.due = Less(@), !.left = Less(@)]]
  /\ UNCHANGED <<ended, receipt, report, lock, worker, faults>>

-----------------------------------------------------------------------------

Works(w) ==
  \/ Claim(w) \/ Exhausted(w) \/ ConsumeVoid(w) \/ BeginReport(w) \/ AssertFence(w)
  \/ CommitReport(w) \/ Acknowledge(w) \/ Fail(w)
  \/ Item(w) \in Poison /\ ConsumeFails(w)

Fails(w) ==
  \/ ClaimFails(w) \/ ConsumeFails(w) \/ ReportFails(w) \/ AcknowledgeFails(w) \/ FailFails(w)
  \/ RenewFails(w) \/ Crash(w)

Next ==
  \/ \E w \in Worker : StartScan(w) \/ Works(w) \/ Renew(w) \/ Fails(w)
  \/ \E e \in Event : End(e)
  \/ Tick

Spec == Init /\ [][Next]_vars

\* Scans recur (setInterval), the event loop runs what is runnable, and time passes.
Fairness ==
  /\ \A w \in Worker : WF_vars(StartScan(w)) /\ WF_vars(Works(w)) /\ WF_vars(Renew(w))
  /\ WF_vars(Tick)

-----------------------------------------------------------------------------

(* A report that is about to be committed is that of the newest claim, and *)
(* of a game without a receipt: between the last look at the lease and the *)
(* commit nobody else can claim the game, though the lease may lapse.      *)
NoStaleReport ==
  \A w \in Worker : At(w, "commit") =>
    retry[Item(w)].token = w /\ Item(w) \notin receipt /\ Item(w) \in ended

(* "Replays committed endings until an idempotent consumer confirms each   *)
(* one": a receipt is only given for an ending whose report is stored.     *)
ReceiptHasReport == receipt \subseteq report \cup Void

(* Nothing is left to be done for a game with a receipt: no lease, no      *)
(* retry and no report transaction.                                        *)
ReceiptIsFinal ==
  \A e \in receipt : retry[e] = NoRow /\ lock[e] = None

(* While a lease lives it is moved by its holder alone: a reconciler that  *)
(* lost its own neither counts a failure against the game nor receipts it  *)
(* ("Lease loss is not evidence of a consumer failure").                   *)
LeasesAreOnesOwn ==
  [][\A e \in Event, w \in Worker :
       Owns(w, e) /\ retry'[e].token # w => Item(w) = e /\ worker'[w] # worker[w]]_vars

(* A finished game is reported by the holder of its newest lease, gets a   *)
(* receipt only for a stored report and is left alone after it, and a      *)
(* lease is moved by its holder alone (claim, renew, acknowledge, fail,    *)
(* the report's transaction).                                              *)
InboxIsFenced == [](NoStaleReport /\ ReceiptHasReport /\ ReceiptIsFinal) /\ LeasesAreOnesOwn

(* Every ending that can be analysed gets its receipt: a prefix of endings *)
(* that always fail does not starve the ones behind it.                    *)
EveryEndingConsumed == \A e \in Event \ Poison : e \in ended ~> e \in receipt

=============================================================================

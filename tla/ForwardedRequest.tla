--------------------------- MODULE ForwardedRequest ---------------------------
(***************************************************************************)
(* The life of a forwarded command: a gateway that does not own a game     *)
(* queues it in Redis for the owner, the owner's consumer admits it once   *)
(* (START_REQUEST), runs it and records the result, and the forwarder      *)
(* waits, gives up and settles.  Redis scripts are atomic; connections     *)
(* fail on either side of them, owners change at any time, processes die.  *)
(***************************************************************************)
EXTENDS Naturals, Sequences, SequencesExt, FiniteSets

CONSTANTS Req,       \* forwarded requests of one game
          Node,      \* gateways that may own the game
          NoNode,    \* nobody holds the owner key
          Executor,  \* concurrent calls of processCommand
          NoExecutor, NoReq,
          MaxCopies  \* bound: envelopes in the game's list

ASSUME NameAssumption == NoNode \notin Node /\ NoExecutor \notin Executor /\ NoReq \notin Req
ASSUME BoundAssumption == MaxCopies \in Nat

VARIABLES status,   \* status[r]: the field of game:request:{r}
          admitted, \* admitted[r]: its executor field, read only while started
          result,   \* result[r]: its result field
          late,     \* late[r]: r is queued, and Redis TIME has passed its deadline
          list,     \* the game's command list
          resp,     \* resp[r]: the first response not yet read
          key,      \* the owner key of the game
          owns,     \* owns[n]: n has recorded the claim (markClaimed)
          loop,     \* loop[n]: n has a consumer loop for the game
          task,     \* task[e]: what processCommand call e is doing
          phase,    \* phase[r]: where the forwarder is
          answer,   \* answer[r]: what the forwarder's caller was told
          runs,     \* history: how often r was executed
          effect,   \* history: the result of its last execution
          dropped   \* history: live requests whose envelope died with a process or a socket

redisVars == <<status, admitted, result, late, list, resp>>
ownerVars == <<key, owns, loop>>
callVars  == <<phase, answer>>
history   == <<runs, effect, dropped>>
vars == <<status, admitted, result, late, list, resp, key, owns, loop,
          task, phase, answer, runs, effect, dropped>>

\* ok: the game's own answer, a success or a refusal.
Results  == {"ok", "expired", "unknown"}
Statuses == {"absent", "queued", "started", "done", "expired"}
Replies  == {"pending", "missing", "queued", "started", "done", "expired", "not_owner", "admitted"}
\* current: the loop that popped the envelope is still the consumer of the node.
Tasks == [state : {"free", "loading", "start", "settle", "finish", "respond"},
          node : Node \cup {NoNode}, current : BOOLEAN, req : Req \cup {NoReq}, reply : Replies,
          response : Results \cup {"none"}]

TypeOK ==
  /\ status \in [Req -> Statuses]
  /\ admitted \in [Req -> Executor \cup {NoExecutor}]
  /\ result \in [Req -> Results \cup {"none"}]
  /\ late \in [Req -> BOOLEAN]
  /\ list \in Seq(Req) /\ resp \in [Req -> Results \cup {"none"}]
  /\ key \in Node \cup {NoNode}
  /\ owns \in [Node -> BOOLEAN] /\ loop \in [Node -> BOOLEAN]
  /\ task \in [Executor -> Tasks]
  /\ phase \in [Req -> {"idle", "enqueue", "lost", "wait", "settle", "end"}]
  /\ answer \in [Req -> Results \cup {"none", "refused"}]
  /\ runs \in [Req -> Nat] /\ effect \in [Req -> Results \cup {"none"}]
  /\ dropped \in SUBSET Req

Free == [state |-> "free", node |-> NoNode, current |-> FALSE, req |-> NoReq,
         reply |-> "pending", response |-> "none"]

Init ==
  /\ status = [r \in Req |-> "absent"]
  /\ admitted = [r \in Req |-> NoExecutor]
  /\ result = [r \in Req |-> "none"]
  /\ late = [r \in Req |-> FALSE]
  /\ list = <<>> /\ resp = [r \in Req |-> "none"]
  /\ key = NoNode
  /\ owns = [n \in Node |-> FALSE]
  /\ loop = [n \in Node |-> FALSE]
  /\ task = [e \in Executor |-> Free]
  /\ phase = [r \in Req |-> "idle"]
  /\ answer = [r \in Req |-> "none"]
  /\ runs = [r \in Req |-> 0]
  /\ effect = [r \in Req |-> "none"]
  /\ dropped = {}

-----------------------------------------------------------------------------
(* The forwarder: forward and settleForward. *)

\* The isolated connection is made, or the command was never dispatched.
Dispatch(r) ==
  /\ phase[r] = "idle"
  /\ \/ phase' = [phase EXCEPT ![r] = "enqueue"] /\ UNCHANGED answer
     \/ /\ phase' = [phase EXCEPT ![r] = "end"]
        /\ answer' = [answer EXCEPT ![r] = "refused"]
  /\ UNCHANGED <<redisVars, ownerVars, task, history>>

\* Queued and in time: the head at which ENQUEUE_REQUEST stops purging.
Alive(r) == status[r] = "queued" /\ ~late[r]

\* The list without the dead envelopes at its front.
Purged == IF \A i \in DOMAIN list : ~Alive(list[i]) THEN <<>>
          ELSE SubSeq(list, CHOOSE i \in DOMAIN list :
                              Alive(list[i]) /\ \A j \in 1..(i - 1) : ~Alive(list[j]), Len(list))

\* Mutant: whatever became of a purged request, it is marked expired.
PurgedStatus_Any(q) == "expired"

PurgedStatus(q) == IF status[q] = "queued" THEN "expired" ELSE status[q]

\* ENQUEUE_REQUEST, also when the socket it came on is already given up.
RedisEnqueue(r) ==
  /\ phase[r] \in {"enqueue", "lost"}
  /\ Len(list) < MaxCopies
  /\ LET purged == {list[i] : i \in 1..(Len(list) - Len(Purged))}
     IN  /\ status' = [q \in Req |-> IF q = r THEN "queued"
                                     ELSE IF q \in purged THEN PurgedStatus(q) ELSE status[q]]
         /\ late' = [q \in Req |-> late[q] /\ q \notin purged]
  /\ list' = Append(Purged, r)
  /\ phase' = [phase EXCEPT ![r] = IF @ = "enqueue" THEN "wait" ELSE "end"]
  /\ UNCHANGED <<admitted, result, resp, ownerVars, task, answer, history>>

Answered(r, a) ==
  /\ answer' = [answer EXCEPT ![r] = a]
  /\ phase' = [phase EXCEPT ![r] = "end"]

\* BLPOP returned a response; the rest of the list is left to its expiry.
TakeResponse(r) ==
  /\ phase[r] = "wait" /\ resp[r] # "none"
  /\ Answered(r, resp[r])
  /\ resp' = [resp EXCEPT ![r] = "none"]
  /\ UNCHANGED <<status, admitted, result, late, list, ownerVars, task, history>>

\* No response in time, or the socket fails, a response lost with it or not.
GiveUp(r) ==
  /\ phase[r] = "wait"
  /\ phase' = [phase EXCEPT ![r] = "settle"]
  /\ resp' = [resp EXCEPT ![r] = "none"]
  /\ UNCHANGED <<status, admitted, result, late, list, ownerVars, task, answer, history>>

\* Mutant: settling also cancels what an executor has started.
Cancellable_Started(r) == status[r] \in {"queued", "started"}

Cancellable(r) == status[r] = "queued"

\* LREM with count 0: the list without any copy of r, in its order.
Without(r) ==
  LET kept == {i \in DOMAIN list : list[i] # r}
      Place(i) == Cardinality({j \in kept : j <= i})
  IN  [k \in 1..Cardinality(kept) |-> list[CHOOSE i \in kept : Place(i) = k]]

\* Mutant: the cancelled request is taken to be at the head of the list.
SettleEffect_Head(r) ==
  IF Cancellable(r)
  THEN /\ status' = [status EXCEPT ![r] = "expired"]
       /\ late' = [late EXCEPT ![r] = FALSE]
       /\ list' = IF list = <<>> THEN <<>> ELSE Tail(list)
  ELSE UNCHANGED <<status, late, list>>

\* SETTLE_REQUEST: the effect, and what its caller makes of the reply.
SettleEffect(r) ==
  IF Cancellable(r)
  THEN /\ status' = [status EXCEPT ![r] = "expired"]
       /\ late' = [late EXCEPT ![r] = FALSE]
       /\ list' = Without(r)
  ELSE UNCHANGED <<status, late, list>>

SettleReply(r) ==
  IF Cancellable(r) \/ status[r] = "expired" THEN "expired"
  ELSE IF status[r] = "done" THEN result[r] ELSE "unknown"

\* Mutant: settling waits for a started request to finish.
Settling_Finished(r) == phase[r] = "settle" /\ status[r] # "started"

Settling(r) == phase[r] = "settle"

(* The forwarder settles; it answers unknown when the reply does not come. *)
Settle(r) ==
  /\ Settling(r)
  /\ \/ SettleEffect(r) /\ Answered(r, SettleReply(r))
     \/ SettleEffect(r) /\ Answered(r, "unknown")
     \/ Answered(r, "unknown") /\ UNCHANGED <<status, late, list>>
  /\ UNCHANGED <<admitted, result, resp, ownerVars, task, history>>

(* The enqueue's socket fails before its reply: the forwarder settles at   *)
(* once, and the script it sent may still be executed after that.          *)
EnqueueUnanswered(r) ==
  /\ phase[r] = "enqueue" /\ answer[r] = "none"
  /\ phase' = [phase EXCEPT ![r] = "lost"]
  /\ answer' = [answer EXCEPT ![r] = "unknown"]
  /\ UNCHANGED <<redisVars, ownerVars, task, history>>

-----------------------------------------------------------------------------
(* Ownership, as far as requests see it. *)

KeyExpires == key' = NoNode /\ UNCHANGED <<redisVars, owns, loop, task, callVars, history>>

(* SET NX succeeds, or the key is this node's and its lease had lapsed: on  *)
(* the reply onClaimed calls startConsumer, which does nothing when the     *)
(* game has a loop.                                                         *)
Claim(n) ==
  /\ key \in {NoNode, n}
  /\ key' = n
  /\ owns' = [owns EXCEPT ![n] = TRUE]
  /\ loop' = [loop EXCEPT ![n] = TRUE]
  /\ UNCHANGED <<redisVars, task, callVars, history>>

\* stopConsumer: the calls of the loop go on without it.
StopConsumer(n) ==
  /\ loop' = [loop EXCEPT ![n] = FALSE]
  /\ task' = [e \in Executor |-> IF task[e].node = n THEN [task[e] EXCEPT !.current = FALSE]
                                 ELSE task[e]]

\* forgetClaim: a release, or a renewal that found another value.
ForgetClaim(n) ==
  /\ owns[n]
  /\ owns' = [owns EXCEPT ![n] = FALSE]
  /\ StopConsumer(n)
  /\ key' \in IF key = n THEN {n, NoNode} ELSE {key}
  /\ UNCHANGED <<redisVars, callVars, history>>

-----------------------------------------------------------------------------
(* The consumer: consumeLoop and processCommand. *)

Become(e, t) == task' = [task EXCEPT ![e] = t]

Step(e, state, response) ==
  Become(e, [task[e] EXCEPT !.state = state, !.response = response, !.reply = "pending"])

\* An envelope in the hands of a process or a socket that fails is lost.
Lost(reqs) == dropped' = dropped \cup {r \in reqs : Alive(r)}

\* BLPOP of a loop that is not busy; an answer its socket loses is lost.
Pop(n, e) ==
  /\ loop[n] /\ list # <<>>
  /\ \A f \in Executor : ~(task[f].node = n /\ task[f].current)
  /\ task[e].state = "free" /\ \A r \in Req : admitted[r] # e
  /\ list' = Tail(list)
  /\ \/ /\ Become(e, [Free EXCEPT !.state = "loading", !.node = n, !.current = TRUE,
                                  !.req = Head(list)])
        /\ UNCHANGED dropped
     \/ Lost({Head(list)}) /\ UNCHANGED task
  /\ UNCHANGED <<status, admitted, result, late, resp, ownerVars, callVars, runs, effect>>

\* Hydration and the wait for the slot end, or fail before admission.
Loaded(e) ==
  /\ task[e].state = "loading"
  /\ \/ Step(e, "start", "none")
     \/ Step(e, "settle", "none")
  /\ UNCHANGED <<redisVars, ownerVars, callVars, history>>

\* Mutant: a started request may be taken over by another executor.
Startable_Started(r) == status[r] \in {"queued", "started"}

Startable(r) == status[r] = "queued"

\* Mutant: an envelope this node may not run is not put back.
HandBack_Drop(r) == UNCHANGED list

HandBack(r) == list' = Append(list, r)

(* START_REQUEST.  The shared client resends a script whose reply was lost *)
(* (the reply stays pending), so it may run again.                         *)
RedisStart(e) ==
  /\ task[e].state = "start" /\ task[e].reply = "pending"
  /\ LET r == task[e].req
         Reply(v) == \/ Become(e, [task[e] EXCEPT !.reply = v])
                     \/ UNCHANGED task
     IN \/ /\ status[r] = "absent" /\ Reply("missing")
           /\ UNCHANGED <<status, late, admitted, list>>
        \/ /\ status[r] # "absent" /\ ~Startable(r) /\ Reply(status[r])
           /\ UNCHANGED <<status, late, admitted, list>>
        \/ /\ Startable(r) /\ late[r] /\ Reply("expired")
           /\ status' = [status EXCEPT ![r] = "expired"] /\ late' = [late EXCEPT ![r] = FALSE]
           /\ UNCHANGED <<admitted, list>>
        \/ /\ Startable(r) /\ ~late[r] /\ key # task[e].node /\ Reply("not_owner")
           /\ Len(list) < MaxCopies
           /\ HandBack(r)
           /\ UNCHANGED <<status, late, admitted>>
        \/ /\ Startable(r) /\ ~late[r] /\ key = task[e].node /\ Reply("admitted")
           /\ status' = [status EXCEPT ![r] = "started"]
           /\ admitted' = [admitted EXCEPT ![r] = e]
           /\ UNCHANGED <<late, list>>
  /\ UNCHANGED <<result, resp, ownerVars, callVars, history>>

Ended(e) == Become(e, Free)

Started(e, replies) == task[e].state = "start" /\ task[e].reply \in replies

\* UnownedForwardedRequest: a call of the current loop stops it.
NotOwner(e) ==
  /\ Started(e, {"not_owner"})
  /\ loop' = [loop EXCEPT ![task[e].node] = @ /\ ~task[e].current]
  /\ Ended(e)
  /\ UNCHANGED <<redisVars, key, owns, callVars, history>>

\* DuplicateForwardedRequest: somebody else answers.
Duplicate(e) ==
  /\ Started(e, {"started", "done"})
  /\ Ended(e)
  /\ UNCHANGED <<redisVars, ownerVars, callVars, history>>

ExpiredAtStart(e) ==
  /\ Started(e, {"expired"})
  /\ Step(e, "respond", "expired")
  /\ UNCHANGED <<redisVars, ownerVars, callVars, history>>

\* The record is gone, or the script's outcome is not known.
StartUncertain(e) ==
  /\ Started(e, {"missing", "pending"})
  /\ Step(e, "settle", "none")
  /\ UNCHANGED <<redisVars, ownerVars, callVars, history>>

\* Admitted: the last local checks may still refuse, then the command runs.
Execute(e) ==
  /\ Started(e, {"admitted"})
  /\ LET r == task[e].req
     IN \/ /\ Step(e, "finish", "expired")
           /\ UNCHANGED <<runs, effect>>
        \/ \E v \in {"ok", "unknown"} :
             /\ Step(e, "finish", v)
             /\ runs' = [runs EXCEPT ![r] = @ + 1]
             /\ effect' = [effect EXCEPT ![r] = v]
  /\ UNCHANGED <<redisVars, ownerVars, callVars, dropped>>

\* A failure before admission revokes the queued identity; errors are unknown.
SettleUnadmitted(e) ==
  /\ task[e].state = "settle"
  /\ LET r == task[e].req
     IN \/ /\ SettleEffect(r)
           /\ \E v \in {SettleReply(r), "unknown"} :
                Step(e, "respond", v)
           /\ UNCHANGED dropped
        \/ /\ Step(e, "respond", "unknown")
           /\ Lost({r})
           /\ UNCHANGED <<status, late, list>>
  /\ UNCHANGED <<admitted, result, resp, ownerVars, callVars, runs, effect>>

\* FINISH_REQUEST: only the admitting executor of a started request records.
RedisFinish(e) ==
  /\ task[e].state = "finish"
  /\ LET r == task[e].req
     IN IF status[r] = "started" /\ admitted[r] = e
        THEN /\ status' = [status EXCEPT ![r] = "done"]
             /\ result' = [result EXCEPT ![r] = task[e].response]
             /\ admitted' = [admitted EXCEPT ![r] = NoExecutor]
        ELSE UNCHANGED <<status, result, admitted>>
  /\ Step(e, "respond", task[e].response)
  /\ UNCHANGED <<late, list, resp, ownerVars, callVars, history>>

\* RESPOND_REQUEST: the forwarder reads the first response, while it waits.
Respond(e) ==
  /\ task[e].state = "respond"
  /\ resp' = [resp EXCEPT ![task[e].req] =
                IF @ = "none" /\ phase[task[e].req] = "wait" THEN task[e].response ELSE @]
  /\ Ended(e)
  /\ UNCHANGED <<status, admitted, result, late, list, ownerVars, callVars, history>>

\* An error of FINISH or RESPOND ends the call without a response.
ResponseLost(e) ==
  /\ task[e].state \in {"finish", "respond"}
  /\ Ended(e)
  /\ UNCHANGED <<redisVars, ownerVars, callVars, history>>

-----------------------------------------------------------------------------
(* Time and crashes. *)

DeadlinePasses(r) ==
  /\ status[r] = "queued" /\ ~late[r]
  /\ late' = [late EXCEPT ![r] = TRUE]
  /\ UNCHANGED <<status, admitted, result, list, resp, ownerVars, task, callVars, history>>

\* The retention of a request record ends: a queued one outlives its deadline.
Forget(r) ==
  /\ status[r] # "absent" /\ (status[r] = "queued" => late[r])
  /\ status' = [status EXCEPT ![r] = "absent"]
  /\ admitted' = [admitted EXCEPT ![r] = NoExecutor]
  /\ result' = [result EXCEPT ![r] = "none"]
  /\ late' = [late EXCEPT ![r] = FALSE]
  /\ UNCHANGED <<list, resp, ownerVars, task, callVars, history>>

\* A gateway dies with its loop and calls; Redis keeps its key.
Crash(n) ==
  /\ owns' = [owns EXCEPT ![n] = FALSE]
  /\ loop' = [loop EXCEPT ![n] = FALSE]
  /\ task' = [e \in Executor |-> IF task[e].node = n THEN Free ELSE task[e]]
  /\ Lost({task[e].req : e \in {f \in Executor : task[f].node = n}})
  /\ UNCHANGED <<redisVars, key, callVars, runs, effect>>

Forwarder(r) ==
  Dispatch(r) \/ EnqueueUnanswered(r) \/ TakeResponse(r) \/ GiveUp(r) \/ Settle(r)

Call(e) ==
  \/ Loaded(e) \/ NotOwner(e) \/ Duplicate(e) \/ ExpiredAtStart(e) \/ StartUncertain(e)
  \/ Execute(e) \/ SettleUnadmitted(e) \/ Respond(e) \/ ResponseLost(e)

\* What some requests, gateways and calls of them do.
Steps(reqs, nodes, executors) ==
  \/ \E r \in reqs : Forwarder(r) \/ RedisEnqueue(r) \/ DeadlinePasses(r) \/ Forget(r)
  \/ \E e \in executors : Call(e) \/ RedisStart(e) \/ RedisFinish(e)
  \/ \E n \in nodes, e \in executors : Pop(n, e)
  \/ \E n \in nodes : Claim(n) \/ ForgetClaim(n) \/ Crash(n)
  \/ KeyExpires

Next == Steps(Req, Node, Executor)

Spec == Init /\ [][Next]_vars

(* The forwarder's client I/O is bounded: each of its waits ends.          *)
ForwarderFairness == \A r \in Req : WF_vars(EnqueueUnanswered(r)) /\ WF_vars(GiveUp(r)) /\ WF_vars(Settle(r))

-----------------------------------------------------------------------------

(* A forwarded command runs at most once: through ownership changes with   *)
(* two consumers on one list, envelopes put back or resent, records that   *)
(* expire under a running call and crashes between any two steps.          *)
RunsOnce == \A r \in Req : runs[r] <= 1

(* What the forwarder tells its caller stays true: an answer of the game   *)
(* is the one the owner saw, and a command that expired, was cancelled or  *)
(* was never dispatched has not run and will not.                          *)
ForwardersTellTheTruth ==
  \A r \in Req :
    /\ answer[r] = "ok" => effect[r] = "ok"
    /\ answer[r] \in {"expired", "refused"} => runs[r] = 0

(* A live request is never mislaid: until somebody starts or cancels it,   *)
(* its envelope is in the list, in the hands of a call, or died with a     *)
(* process or a socket.                                                    *)
EnvelopesAreKept ==
  \A r \in Req : Alive(r) =>
    \/ r \in ToSet(list)
    \/ \E e \in Executor : task[e].req = r /\ task[e].state \in {"loading", "start", "settle"}
    \/ r \in dropped

(* Every forward ends with an answer, whatever happens to Redis, to the    *)
(* owner or to the responses.                                              *)
EveryForwardAnswered == \A r \in Req : phase[r] = "enqueue" ~> answer[r] # "none"

(* A node that owns the game, in Redis and in its own book, consumes its   *)
(* requests: "Consumer was started by the onClaimed hook (or already       *)
(* running)" (route).                                                      *)
OwnerConsumes == \A n \in Node : key = n /\ owns[n] => loop[n]

=============================================================================

------------------------------- MODULE LiveFeed -------------------------------
(***************************************************************************)
(* One browser's view of a live game: from the log, by way of the          *)
(* broadcasts of whoever owns the game and the gateway the browser is      *)
(* connected to, to its screen (GameSync).                                 *)
(*                                                                         *)
(* An owner appends, and publishes afterwards; broadcasts of one owner     *)
(* arrive in order, those of two owners in any.  The gateway hears the     *)
(* other owner through Redis, which loses what is published while the      *)
(* subscription is not established, and what the owner failed to publish   *)
(* (nobody publishes it again); it hears itself when it owns the game.     *)
(* Bounds: MaxLog revisions, one change of owner, and MaxFaults lost       *)
(* subscriptions, failed publications, lost sockets, failed reads and      *)
(* retries by the player, of the kinds in FaultKinds.                      *)
(***************************************************************************)
EXTENDS GameSync

CONSTANTS MaxLog, MaxFaults, RefreshAttempts,
          FaultKinds \* among "subscription", "publish", "socket", "join", "resume", "refresh" and "button"

Assumptions ==
  MaxLog \in Nat /\ MaxFaults \in Nat /\ RefreshAttempts \in Nat \ {0}

VARIABLES log,     \* the kinds of the game's events
          owner,   \* who appends and publishes: this gateway ("here") or another
          unsent,  \* revisions appended and not published, with their owner
          replies, \* draw offers and declines whose result is on its way to the gateway
          sub,     \* the gateway's subscription: "none", "waiting" or "ok"
          others,  \* somebody else of this gateway is in the room
          session, \* the browser's session in the gateway
          observed, lastFull, \* of the gateway's room (observedRevision, lastFullStateRevision)
          refresh, \* the room's state refresh
          pipe,    \* frames on their way to the browser
          client,
          lost,    \* the highest revision whose broadcast never reached the gateway
          lossy,   \* since its join was read, the session's subscription was not
                   \* confirmed, or the owner failed to publish
          faults

vars == <<log, owner, unsent, replies, sub, others, session, observed, lastFull, refresh, pipe, client, lost, lossy, faults>>
gameVars == <<log, owner, unsent>>
roomVars == <<sub, observed, lastFull>>
history == <<lost, lossy>>

NoSession == [join |-> "none", snap |-> 0, buffer |-> <<>>, member |-> FALSE, resume |-> "none", held |-> 0]
NoRefresh == [attempt |-> 0, again |-> FALSE, snap |-> 0]

Init ==
  /\ log = <<"created">> /\ owner \in {"here", "there"} /\ unsent = {} /\ replies = {}
  /\ others \in BOOLEAN /\ sub = (IF others THEN "waiting" ELSE "none")
  /\ session = NoSession /\ observed = 0 /\ lastFull = 0 /\ refresh = NoRefresh
  /\ pipe = <<>> /\ client = NewClient /\ lost = 0 /\ lossy = FALSE /\ faults = 0

Room == others \/ session.member
Joining == session.join # "none"
IsLocal == Room \/ Joining

\* One of the bounded faults.
Fault(kind) == kind \in FaultKinds /\ faults < MaxFaults /\ faults' = faults + 1

-----------------------------------------------------------------------------
(* The game. *)

Standing(kind) == At(log, Len(log), kind)

\* What the aggregate lets happen next.
MayFollow(kind) ==
  /\ Standing("ended") = {}
  /\ kind = "ready" => Cardinality(Standing("ready")) < 2 /\ Standing("move") = {}
  /\ kind = "move" => Cardinality(Standing("ready")) # 1
  /\ kind = "offer" => ~View(log, Len(log)).offer
  /\ kind = "decline" => View(log, Len(log)).offer

\* A move may end the game in the same append.
Commit(kinds) ==
  /\ Len(log) + Len(kinds) <= MaxLog
  /\ log' = log \o kinds
  /\ unsent' = unsent \cup {[rev |-> r, by |-> owner] : r \in (Len(log) + 1)..Len(log')}
  /\ UNCHANGED <<owner, roomVars, others, session, refresh, pipe, client, history, faults>>

Play ==
  /\ \/ MayFollow("move") /\ (Commit(<<"move">>) \/ Commit(<<"move", "ended">>))
     \/ \E kind \in {"ready", "ended"} : MayFollow(kind) /\ Commit(<<kind>>)
  /\ UNCHANGED replies

\* A draw offer or its refusal; somebody of this gateway may have asked for it.
Negotiate ==
  /\ \E kind \in {"offer", "decline"} : MayFollow(kind) /\ Commit(<<kind>>)
  /\ \/ UNCHANGED replies
     \/ Room /\ replies' = replies \cup {Len(log')}

\* The game changes hands, once.
ChangeOwner ==
  /\ \A r \in 1..Len(log) : log[r] # "ended"
  /\ owner = "there" /\ owner' = "here"
  /\ UNCHANGED <<log, unsent, replies, roomVars, others, session, refresh, pipe, client, history, faults>>

-----------------------------------------------------------------------------
(* The gateway: what reaches a room and the joins in progress. *)

ToMember(frames) == IF session.member THEN pipe \o frames ELSE pipe

\* Mutant: a join in progress misses what is published.
Buffered_Not(f) == session

Buffered(f) == IF Joining THEN [session EXCEPT !.buffer = Append(@, f)] ELSE session

Larger(a, b) == IF a > b THEN a ELSE b

\* The frame of a revision; draws are told by a state.
FrameOf(r) == Frame(IF log[r] \in {"offer", "decline"} THEN "state" ELSE log[r], r)

\* ensureRoom's handler: a state that was overtaken, or is known, is not fanned out.
Overtaken(f) == f.t = "state" /\ (f.rev < observed \/ f.rev <= lastFull)

\* A broadcast reaches the handlers of the channel.
Heed(f) ==
  /\ observed' = Larger(observed, f.rev)
  /\ session' = Buffered(f)
  /\ IF Room /\ ~Overtaken(f)
     THEN /\ pipe' = ToMember(<<f>>)
          /\ lastFull' = IF f.t = "state" THEN Larger(lastFull, f.rev) ELSE lastFull
     ELSE UNCHANGED <<pipe, lastFull>>

\* One owner's broadcasts keep their order.
Next1(u) == \A v \in unsent : v.by = u.by => u.rev <= v.rev

(* Published after the append: to the handlers of the owner's own process  *)
(* at once, to others through Redis, which tells subscribers only, and     *)
(* where a publication that fails is logged and not repeated.              *)
Publish ==
  /\ \E u \in unsent :
       /\ Next1(u) /\ unsent' = unsent \ {u}
       /\ \/ IsLocal /\ Heed(FrameOf(u.rev)) /\ UNCHANGED <<lost, lossy, faults>>
          \/ /\ \/ (~IsLocal \/ (u.by = "there" /\ sub # "ok")) /\ UNCHANGED <<lossy, faults>>
                \/ u.by = "there" /\ Fault("publish") /\ lossy' = TRUE
             /\ lost' = Larger(lost, u.rev)
             /\ UNCHANGED <<session, observed, lastFull, pipe>>
  /\ UNCHANGED <<log, owner, replies, sub, others, refresh, client>>

\* deliverState: to the room unless it is known there, and to the joins.
Deliver(r) ==
  IF IsLocal
  THEN /\ observed' = Larger(observed, r)
       /\ session' = Buffered(Frame("state", r))
       /\ IF Room /\ r > lastFull
          THEN pipe' = ToMember(<<Frame("state", r)>>) /\ lastFull' = r
          ELSE UNCHANGED <<pipe, lastFull>>
  ELSE UNCHANGED <<observed, session, pipe, lastFull>>

\* sendStateToRoom: the result of an offer or decline that this gateway routed.
Reply ==
  /\ \E r \in replies :
       /\ replies' = replies \ {r}
       /\ IF r >= observed THEN Deliver(r) /\ UNCHANGED refresh
          ELSE /\ refresh' = IF refresh.attempt > 0 THEN [refresh EXCEPT !.again = TRUE]
                             ELSE [NoRefresh EXCEPT !.attempt = 1]
               /\ UNCHANGED <<session, observed, lastFull, pipe>>
  /\ UNCHANGED <<gameVars, sub, others, client, history, faults>>

\* refreshState, one read at a time.
RefreshRead ==
  /\ refresh.attempt > 0 /\ refresh.snap = 0
  /\ refresh' = IF IsLocal THEN [refresh EXCEPT !.snap = Len(log)] ELSE NoRefresh
  /\ UNCHANGED <<gameVars, replies, roomVars, others, session, pipe, client, history, faults>>

Refreshed == IF refresh.again THEN [NoRefresh EXCEPT !.attempt = 1] ELSE NoRefresh
Retried == IF refresh.attempt < RefreshAttempts THEN [refresh EXCEPT !.attempt = @ + 1, !.snap = 0] ELSE Refreshed

RefreshSettles ==
  /\ refresh.snap > 0
  /\ IF ~IsLocal THEN refresh' = NoRefresh /\ UNCHANGED <<session, observed, lastFull, pipe>>
     ELSE IF refresh.snap >= observed THEN refresh' = Refreshed /\ Deliver(refresh.snap)
     ELSE refresh' = Retried /\ UNCHANGED <<session, observed, lastFull, pipe>>
  /\ UNCHANGED <<gameVars, replies, sub, others, client, history, faults>>

\* The read fails; an owner still has its own copy.
RefreshFails ==
  /\ Fault("refresh")
  /\ refresh.attempt > 0 /\ refresh.snap = 0
  /\ IF ~IsLocal THEN refresh' = NoRefresh /\ UNCHANGED <<session, observed, lastFull, pipe>>
     ELSE IF owner = "here" /\ Len(log) >= observed THEN refresh' = Refreshed /\ Deliver(Len(log))
     ELSE refresh' = Retried /\ UNCHANGED <<session, observed, lastFull, pipe>>
  /\ UNCHANGED <<gameVars, replies, sub, others, client, history>>

-----------------------------------------------------------------------------
(* The gateway: subscription, join and resume. *)

\* The SUBSCRIBE is acknowledged; a refused one is issued again (ready, onReconnect).
Subscribed ==
  /\ sub = "waiting" /\ sub' = "ok"
  /\ UNCHANGED <<gameVars, replies, observed, lastFull, others, session, refresh, pipe, client, history, faults>>

\* The subscriber's connection closes; RedisPubSub subscribes again once it is back.
Unsubscribed ==
  /\ Fault("subscription")
  /\ sub = "ok" /\ sub' = "waiting" /\ lossy' = TRUE
  /\ UNCHANGED <<gameVars, replies, observed, lastFull, others, session, refresh, pipe, client, lost>>

Requests(t) == client.up # <<>> /\ Head(client.up) = t
Taken == [client EXCEPT !.up = Tail(@)]

\* onJoin: the buffer is started before anything is read.
StartJoin ==
  /\ Requests("join") /\ client' = Taken
  /\ session' = [session EXCEPT !.join = "waiting", !.buffer = <<>>]
  /\ sub' = (IF IsLocal THEN sub ELSE "waiting")
  /\ UNCHANGED <<gameVars, replies, observed, lastFull, others, refresh, pipe, history, faults>>

(* awaitSubscriptionReady ends with the acknowledgement, or by itself in a *)
(* failure or a timeout; then ensureLoaded and readRecovery: a revision    *)
(* current during the read.                                                *)
JoinReads ==
  /\ session.join = "waiting"
  /\ lossy' = (sub # "ok")
  /\ session' = [session EXCEPT !.join = "read", !.snap = Len(log)]
  /\ UNCHANGED <<gameVars, replies, roomVars, others, refresh, pipe, client, lost, faults>>

\* Mutant: what was buffered is dropped with the buffer.
Newer_None(buffer, rev) == <<>>

\* isNewerThanSnapshot.
Newer(buffer, rev) ==
  LET kept == Ascending({i \in DOMAIN buffer : buffer[i].rev > rev})
  IN [k \in DOMAIN kept |-> buffer[kept[k]]]

\* completeJoin.
CompleteJoin ==
  /\ session.join = "read"
  /\ session' = [session EXCEPT !.join = "none", !.snap = 0, !.buffer = <<>>, !.member = TRUE]
  /\ pipe' = pipe \o <<Frame("joined", session.snap)>> \o Newer(session.buffer, session.snap)
  /\ observed' = Larger(observed, session.snap)
  /\ UNCHANGED <<gameVars, replies, sub, lastFull, others, refresh, client, history, faults>>

\* What is left when the last handler of the game goes.
Left(s) ==
  IF others \/ s.member \/ s.join # "none" THEN UNCHANGED roomVars
  ELSE sub' = "none" /\ observed' = 0 /\ lastFull' = 0

JoinFails ==
  /\ Fault("join")
  /\ session.join \in {"waiting", "read"}
  /\ session' = [session EXCEPT !.join = "none", !.snap = 0, !.buffer = <<>>]
  /\ Left(session')
  /\ pipe' = Append(pipe, Frame("reject", 0))
  /\ UNCHANGED <<gameVars, replies, others, refresh, client, history>>

\* onResume: the last one asked for is answered.
StartResume ==
  /\ Requests("resume") /\ client' = Taken
  /\ session' = [session EXCEPT !.resume = "reading", !.held = 0]
  /\ UNCHANGED <<gameVars, replies, roomVars, others, refresh, pipe, history, faults>>

ResumeReads ==
  /\ session.resume = "reading"
  /\ session' = [session EXCEPT !.resume = "read", !.held = Len(log)]
  /\ UNCHANGED <<gameVars, replies, roomVars, others, refresh, pipe, client, history, faults>>

SendResumed ==
  /\ session.resume = "read"
  /\ session' = [session EXCEPT !.resume = "none", !.held = 0]
  /\ pipe' = Append(pipe, Frame("resumed", session.held))
  /\ UNCHANGED <<gameVars, replies, roomVars, others, refresh, client, history, faults>>

ResumeFails ==
  /\ Fault("resume")
  /\ session.resume = "reading"
  /\ session' = [session EXCEPT !.resume = "none"]
  /\ pipe' = Append(pipe, Frame("reject", 0))
  /\ UNCHANGED <<gameVars, replies, roomVars, others, refresh, client, history>>

-----------------------------------------------------------------------------
(* The browser. *)

restOfClient == <<gameVars, replies, roomVars, others, session, refresh, history>>

Hear == pipe # <<>> /\ client' = Heard(client, log, Head(pipe)) /\ pipe' = Tail(pipe) /\ UNCHANGED <<restOfClient, faults>>

Connect == ~client.open /\ client' = Opened(client) /\ UNCHANGED <<restOfClient, pipe, faults>>

\* The socket is lost, and onClose ends the session; frames under way go with it.
Disconnect ==
  /\ Fault("socket")
  /\ client.open /\ client' = Dropped(client)
  /\ session' = NoSession /\ Left(NoSession) /\ pipe' = <<>>
  /\ UNCHANGED <<gameVars, replies, others, refresh, history>>

Timer ==
  /\ \/ client.timer = "timeout" /\ client' = TimeOut(client)
     \/ client.timer = "backoff" /\ client' = BackOff(client)
     \/ client.retry /\ client' = RetryJoin(client)
  /\ UNCHANGED <<restOfClient, pipe, faults>>

\* The player takes the offer to retry.
PlayerRetries ==
  /\ Fault("button")
  /\ client.out /\ client.open /\ client' = ByHand(client)
  /\ UNCHANGED <<restOfClient, pipe>>

Next ==
  \/ Play \/ Negotiate \/ ChangeOwner \/ Publish \/ Reply
  \/ RefreshRead \/ RefreshSettles \/ RefreshFails
  \/ Subscribed \/ Unsubscribed
  \/ StartJoin \/ JoinReads \/ CompleteJoin \/ JoinFails
  \/ StartResume \/ ResumeReads \/ SendResumed \/ ResumeFails
  \/ Hear \/ Connect \/ Disconnect \/ Timer \/ PlayerRetries

Spec == Init /\ [][Next]_vars

-----------------------------------------------------------------------------
(* Properties. *)

(* What is on the screen is the game at the revision the client stands at, *)
(* and with a gap it knows of, still a prefix of it: lost, duplicated,     *)
(* delayed and reordered frames never compose a position that was not      *)
(* played.  An offer is not looked at after the ending.                    *)
ScreenIsTheGame ==
  LET s == client.screen
      v == View(log, client.floor)
  IN /\ client.floor <= Len(log)
     /\ IsPrefix(s.moves, View(log, Len(log)).moves)
     /\ ~InDebt(client) /\ client.joined =>
          /\ s.moves = v.moves /\ s.over = v.over /\ s.ready = v.ready
          /\ ~s.over => s.offer = v.offer

(* With everything delivered, a client stands at the end of the log or     *)
(* knows that it does not.  The exception is a broadcast that is the last  *)
(* one, and lost on its way from the owner to the gateway: published while *)
(* the subscription was not confirmed, or its publication failed           *)
(* (serve.ts:304 has it logged); no later frame tells of the gap then.     *)
NothingIsMissed ==
  client.connected /\ pipe = <<>> /\ unsent = {} =>
    client.floor = Len(log) \/ InDebt(client) \/ (lossy /\ lost = Len(log))

(* Nobody waits for nothing: a gap a client knows of is being repaired and *)
(* a join is on its way, in progress or answered, or the player is offered *)
(* to retry.                                                               *)
NothingIsForgotten ==
  /\ client.connected /\ InDebt(client) => client.timer # "none" \/ client.out
  /\ client.open /\ ~client.connected => client.awaiting \/ client.retry \/ client.out
  /\ client.awaiting => \/ Joining \/ \E i \in DOMAIN client.up : client.up[i] = "join"
                        \/ \E i \in DOMAIN pipe : pipe[i].t \in {"joined", "reject"}

\* A board never goes back, nor does an ended game reopen or a seat become unready.
NeverGoesBack ==
  /\ IsPrefix(client.screen.moves, client.screen.moves')
  /\ client.screen.over => client.screen'.over
  /\ client.screen.ready \subseteq client.screen'.ready
  /\ client.floor <= client.floor'

FeedIsTrue == [](ScreenIsTheGame /\ NothingIsMissed /\ NothingIsForgotten) /\ [][NeverGoesBack]_vars

\* Answers and timers come; sockets, owners and Redis promise nothing.
Fairness ==
  /\ WF_vars(StartJoin) /\ WF_vars(JoinReads) /\ WF_vars(CompleteJoin)
  /\ WF_vars(StartResume) /\ WF_vars(ResumeReads) /\ WF_vars(SendResumed)
  /\ WF_vars(Hear) /\ WF_vars(Timer)

(* On a socket that stays open a join is answered, and a known gap closed, *)
(* or the player is offered to retry.                                      *)
ClientsCatchUp ==
  /\ client.open ~> client.connected \/ client.out \/ ~client.open
  /\ client.connected /\ InDebt(client) ~> ~InDebt(client) \/ client.out \/ ~client.connected

=============================================================================

----------------------------- MODULE GameCreation -----------------------------
(***************************************************************************)
(* How games between people come about beside chess assistance: the seeks  *)
(* of the lobby (routes.ts, PgSeeksRepository, PgSeekAcceptor), creation   *)
(* without a seek, and the guard around every response that helps a player *)
(* (withAssistanceGuard, withAssistanceWriteGuard).  They meet in one      *)
(* advisory lock per player.                                               *)
(*                                                                         *)
(* A transaction's writes appear at its commit.  A game remembers what the *)
(* claim of its seek found, for the property.  What the guard protects     *)
(* is modelled while the connection that holds its lock is not lost.       *)
(***************************************************************************)
EXTENDS Naturals, Sequences, FiniteSets

CONSTANTS Player,   \* people, as numbers: locks are taken in their order
          Seek, Call, Nobody, NoSeek,
          MaxGames  \* bound

VARIABLES seek,       \* the table of seeks; no row is left of one that is gone or purged
          old,        \* seeks past their time to live
          games,      \* GameCreated and GameEnded in the log
          claimed,    \* claimed[s]: the transaction that has updated the seek's row
          playerLock, \* playerLock[p]: who holds the player's advisory lock
          call

vars == <<seek, old, games, claimed, playerLock, call>>
lobby == <<seek, old, claimed>>

Assumptions == Player \subseteq Nat /\ Nobody \notin Call /\ NoSeek \notin Seek /\ MaxGames \in Nat

SeekState == {"none", "open", "accepted", "gone", "purged"}
Found == SeekState \cup {"nothing", "fresh", "late"}

Idle == [pc |-> "idle", seek |-> NoSeek, players |-> {}, found |-> "nothing"]

TypeOK ==
  /\ seek \in [Seek -> [state : SeekState, creator : Player]]
  /\ old \subseteq Seek
  /\ games \in Seq([players : SUBSET Player, seek : Seek \cup {NoSeek}, found : Found, over : BOOLEAN])
  /\ Len(games) <= MaxGames
  /\ claimed \in [Seek -> Call \cup {Nobody}] /\ playerLock \in [Player -> Call \cup {Nobody}]
  /\ call \in [Call -> [pc : {"idle", "accepting", "claiming", "removing", "locking", "computing", "asking",
                              "working", "verifying", "answering", "answered"},
                        seek : Seek \cup {NoSeek}, players : SUBSET Player, found : Found]]

Init ==
  /\ seek \in [Seek -> [state : {"none"}, creator : Player]] /\ old = {} /\ games = <<>>
  /\ claimed = [s \in Seek |-> Nobody] /\ playerLock = [p \in Player |-> Nobody]
  /\ call = [c \in Call |-> Idle]

\* humanGamePlayerIds: a game against a bot has one person and takes no lock.
HumanPlayers(players) == IF Cardinality(players) = 2 THEN players ELSE {}

\* findActiveGamesByPlayer, of which the guard keeps the games between people.
Playing(p) == \E g \in DOMAIN games : ~games[g].over /\ p \in HumanPlayers(games[g].players)

Do(c, to) == call' = [call EXCEPT ![c] = to]

Unlocked(c) == [p \in Player |-> IF playerLock[p] = c THEN Nobody ELSE playerLock[p]]
Unclaimed(c) == [s \in Seek |-> IF claimed[s] = c THEN Nobody ELSE claimed[s]]

-----------------------------------------------------------------------------
(* The lobby. *)

PostSeek(s) ==
  /\ seek[s].state = "none" /\ seek' = [seek EXCEPT ![s].state = "open"]
  /\ UNCHANGED <<old, games, claimed, playerLock, call>>

Expire(s) ==
  /\ seek[s].state # "none" /\ old' = old \cup {s}
  /\ UNCHANGED <<seek, games, claimed, playerLock, call>>

\* DELETE ... WHERE game_id IS NULL, judged again once the row is free.
RemoveOpen(s) ==
  /\ claimed[s] = Nobody
  /\ seek' = IF seek[s].state = "open" THEN [seek EXCEPT ![s].state = "gone"] ELSE seek

\* Open seeks past their time to live, and accepted ones that are no longer shown.
CleanUp(s) ==
  /\ \/ s \in old /\ seek[s].state = "open" /\ RemoveOpen(s)
     \/ seek[s].state = "accepted" /\ seek' = [seek EXCEPT ![s].state = "purged"]
  /\ UNCHANGED <<old, games, claimed, playerLock, call>>

FindToCancel(c, s) ==
  /\ call[c].pc = "idle" /\ seek[s].state \in {"open", "accepted"}
  /\ Do(c, [Idle EXCEPT !.pc = "removing", !.seek = s])
  /\ UNCHANGED <<lobby, games, playerLock>>

Cancel(c) ==
  /\ call[c].pc = "removing" /\ RemoveOpen(call[c].seek) /\ Do(c, Idle)
  /\ UNCHANGED <<old, games, claimed, playerLock>>

\* The route's reads: the seek is open, and not the caller's own.
FindToAccept(c, s, p) ==
  /\ call[c].pc = "idle" /\ seek[s].state = "open" /\ seek[s].creator # p
  /\ Do(c, [Idle EXCEPT !.pc = "accepting", !.seek = s, !.players = {seek[s].creator, p}])
  /\ UNCHANGED <<lobby, games, playerLock>>

\* BEGIN of acceptOnce, which is what NOW() stands for until the transaction ends.
Begin(c) ==
  /\ call[c].pc = "accepting"
  /\ Do(c, [call[c] EXCEPT !.pc = "claiming", !.found = IF call[c].seek \in old THEN "late" ELSE "fresh"])
  /\ UNCHANGED <<lobby, games, playerLock>>

\* Mutants: what the route read is believed; a seek has no time to live.
Claimable_Read(c) == TRUE
Claimable_Untimed(c) == seek[call[c].seek].state = "open"

Claimable(c) == seek[call[c].seek].state = "open" /\ call[c].found = "fresh"

\* The UPDATE of acceptOnce: it waits for the row, and judges it as it then is.
Claim(c) ==
  LET s == call[c].seek IN
  /\ call[c].pc = "claiming" /\ claimed[s] = Nobody
  /\ IF Claimable(c)
     THEN /\ claimed' = [claimed EXCEPT ![s] = c]
          /\ Do(c, [call[c] EXCEPT !.pc = "locking", !.found = IF @ = "late" THEN "late" ELSE seek[s].state])
     ELSE Do(c, Idle) /\ UNCHANGED claimed
  /\ UNCHANGED <<seek, old, games, playerLock>>

-----------------------------------------------------------------------------
(* Creation. *)

\* A pairing of a tournament, or a game against a bot.
Create(c, players) ==
  /\ call[c].pc = "idle"
  /\ Do(c, [Idle EXCEPT !.pc = "locking", !.players = players])
  /\ UNCHANGED <<lobby, games, playerLock>>

\* Mutant: a game locks only the player who asks first.
MustLock_First(players) == {p \in HumanPlayers(players) : \A q \in players : p <= q}

MustLock(players) == HumanPlayers(players)

Missing(c) == {p \in MustLock(call[c].players) : playerLock[p] # c}

\* lockGameCreationPlayers, in the order of their ids.
LockPlayer(c) ==
  \E p \in Missing(c) :
    /\ call[c].pc = "locking" /\ \A q \in Missing(c) : p <= q
    /\ playerLock[p] = Nobody /\ playerLock' = [playerLock EXCEPT ![p] = c]
    /\ UNCHANGED <<lobby, games, call>>

\* 55P03: the transaction is rolled back, and tried again or given up.
LockTimesOut(c) ==
  /\ call[c].pc = "locking" /\ \E p \in Missing(c) : playerLock[p] # Nobody
  /\ claimed' = Unclaimed(c) /\ playerLock' = Unlocked(c)
  /\ \/ Do(c, [call[c] EXCEPT !.pc = IF call[c].seek = NoSeek THEN "locking" ELSE "accepting"])
     \/ Do(c, Idle)
  /\ UNCHANGED <<seek, old, games>>

CommitGame(c) ==
  /\ call[c].pc = "locking" /\ Missing(c) = {} /\ Len(games) < MaxGames
  /\ games' = Append(games, [players |-> call[c].players, seek |-> call[c].seek,
                             found |-> call[c].found, over |-> FALSE])
  /\ seek' = [s \in Seek |-> IF s = call[c].seek /\ seek[s].state = "open"
                             THEN [seek[s] EXCEPT !.state = "accepted"] ELSE seek[s]]
  /\ claimed' = Unclaimed(c) /\ playerLock' = Unlocked(c) /\ Do(c, Idle)
  /\ UNCHANGED old

EndGame(g) ==
  /\ ~games[g].over /\ games' = [games EXCEPT ![g].over = TRUE]
  /\ UNCHANGED <<lobby, playerLock, call>>

-----------------------------------------------------------------------------
(* Assistance.  A refusal changes nothing. *)

\* The first check of withAssistanceGuard; what it computes changes nothing.
AskToRead(c, p) ==
  /\ call[c].pc = "idle" /\ ~Playing(p)
  /\ Do(c, [Idle EXCEPT !.pc = "computing", !.players = {p}])
  /\ UNCHANGED <<lobby, games, playerLock>>

Acquired(c, p) == playerLock[p] = Nobody /\ playerLock' = [playerLock EXCEPT ![p] = c]

LockToAnswer(c) ==
  /\ call[c].pc = "computing" /\ \E p \in call[c].players : Acquired(c, p)
  /\ Do(c, [call[c] EXCEPT !.pc = "verifying"])
  /\ UNCHANGED <<lobby, games>>

\* withAssistanceWriteGuard takes the lock first.
AskToWrite(c, p) ==
  /\ call[c].pc = "idle" /\ Acquired(c, p)
  /\ Do(c, [Idle EXCEPT !.pc = "asking", !.players = {p}])
  /\ UNCHANGED <<lobby, games>>

\* Mutant: the second check is left to the first.
Eligible_Once(c) == call[c].pc = "verifying" \/ \A p \in call[c].players : ~Playing(p)

\* assertEligible
Eligible(c) == \A p \in call[c].players : ~Playing(p)

\* A check under the lock, before the handler's work or before the response.
Check(c, from, to) ==
  /\ call[c].pc = from
  /\ IF Eligible(c)
     THEN Do(c, [call[c] EXCEPT !.pc = to]) /\ UNCHANGED playerLock
     ELSE Do(c, Idle) /\ playerLock' = Unlocked(c)
  /\ UNCHANGED <<lobby, games>>

\* The handler's own writes: a report, a job.
Work(c) ==
  /\ call[c].pc = "working" /\ Do(c, [call[c] EXCEPT !.pc = "verifying"])
  /\ UNCHANGED <<lobby, games, playerLock>>

\* Mutant: the lock is released when the handler returns.
KeptUntilWritten_Released(c) == call[c].pc \notin {"verifying", "answering"}

\* The lock outlives the handler: the router releases it after writeResult.
KeptUntilWritten(c) == TRUE

Answer(c) ==
  /\ call[c].pc = "answering" /\ Do(c, [call[c] EXCEPT !.pc = "answered"])
  /\ UNCHANGED <<lobby, games, playerLock>>

AfterWrite(c) ==
  /\ call[c].pc = "answered" \/ ~KeptUntilWritten(c)
  /\ playerLock' = Unlocked(c)
  /\ IF call[c].pc = "answered" THEN Do(c, Idle) ELSE UNCHANGED call
  /\ UNCHANGED <<lobby, games>>

\* A handler that throws, no lock within its deadline, a process that dies.
Fails(c) ==
  /\ call[c].pc # "idle" /\ Do(c, Idle)
  /\ claimed' = Unclaimed(c) /\ playerLock' = Unlocked(c)
  /\ UNCHANGED <<seek, old, games>>

Next ==
  \/ \E s \in Seek : PostSeek(s) \/ Expire(s) \/ CleanUp(s)
  \/ \E c \in Call :
       \/ Cancel(c) \/ Begin(c) \/ Claim(c) \/ LockPlayer(c) \/ LockTimesOut(c) \/ CommitGame(c)
       \/ LockToAnswer(c) \/ Check(c, "asking", "working") \/ Work(c)
       \/ Check(c, "verifying", "answering") \/ Answer(c) \/ AfterWrite(c) \/ Fails(c)
       \/ \E s \in Seek : FindToCancel(c, s) \/ \E p \in Player : FindToAccept(c, s, p)
       \/ \E p, q \in Player : Create(c, {p, q})
       \/ \E p \in Player : AskToRead(c, p) \/ AskToWrite(c, p)
  \/ \E g \in DOMAIN games : EndGame(g)

Spec == Init /\ [][Next]_vars

-----------------------------------------------------------------------------
\* Nothing that helps a player is written or answered while the player has an active
\* game against a person (the assistance guards and lockGameCreationPlayers).
NoHelpInAGame == \A c \in Call : call[c].pc \in {"working", "answering"} => Eligible(c)

\* A seek starts one game at most.  The claim of that game found the seek open and in time
\* when its transaction began, whatever the route had read; none starts from a seek that a
\* removal deleted, be it a cancellation or a cleanup (acceptOnce, remove, cleanup).
OneGamePerSeek ==
  /\ \A s \in Seek :
       Cardinality({g \in DOMAIN games : games[g].seek = s}) = IF seek[s].state \in {"accepted", "purged"} THEN 1 ELSE 0
  /\ \A g \in DOMAIN games : games[g].seek # NoSeek => games[g].found = "open"

\* No two transactions that create games wait for each other (the order of the locks).
NoCycle ==
  \A c, d \in Call :
    ~ \E p, q \in Player :
        /\ c # d /\ call[c].pc = "locking" /\ call[d].pc = "locking"
        /\ playerLock[p] = c /\ playerLock[q] = d
        /\ q \in Missing(c) /\ p \in Missing(d)

CreationIsCoordinated == NoHelpInAGame /\ OneGamePerSeek /\ NoCycle
=============================================================================

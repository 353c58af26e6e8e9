-------------------------------- MODULE ApiCalls --------------------------------
(***************************************************************************)
(* What calls of the API do in the database around games and people: how   *)
(* games are created beside chess assistance, the sessions of an account,  *)
(* and the relations of two people.  The three share no state.             *)
(***************************************************************************)
EXTENDS Naturals

CONSTANTS Call, Nobody,
          Player, Seek, NoSeek, MaxGames,                  \* GameCreation
          Grace, Ttl, Drift, MaxTime, MaxRows, MaxResets,  \* Sessions
          Person, MaxRequests, MaxMessages                 \* Relations

VARIABLES seek, old, games, claimed, playerLock, call,                          \* GameCreation
          session, password, time, request, handed, ended, signedOut, changed,  \* Sessions
          follows, blocks, asked, conversation, messages, pairLock, rowLock, operation \* Relations

creation == <<seek, old, games, claimed, playerLock, call>>
sessions == <<session, password, time, request, handed, ended, signedOut, changed>>
relations == <<follows, blocks, asked, conversation, messages, pairLock, rowLock, operation>>

Creation == INSTANCE GameCreation
Accounts == INSTANCE Sessions WITH
  Skew <- Drift, MaxNow <- MaxTime, row <- session, now <- time, call <- request
People == INSTANCE Relations WITH request <- asked, call <- operation

ASSUME ApiAssumptions == Creation!Assumptions /\ Accounts!Assumptions /\ People!Assumptions

\* Nobody who plays a person is helped, a seek starts one game, and creators of games
\* never wait for each other (GameCreation: lockGameCreationPlayers, acceptOnce and the
\* assistance guards).
CreationIsCoordinated == Creation!CreationIsCoordinated

\* Whatever is revoked stays revoked, a login has one live session, a password that was
\* reset cuts off older logins, and a sign-out costs one login (Sessions: login, refresh,
\* logout, confirmPasswordReset).
SessionsAreSound == Accounts!SessionsAreSound

\* A block severs a pair, whatever was in progress, a pair has one of each relation, and
\* answers are final (Relations: social.ts, messaging.ts, friendship.ts).
RelationsHold == People!RelationsHold

=============================================================================

-------------------------------- MODULE Sessions --------------------------------
(***************************************************************************)
(* The sign-in sessions of one account (auth/service.ts over the table     *)
(* `sessions`).  A login starts a chain of rows: a refresh retires the row *)
(* whose token it presents and inserts its successor.  Rotations and bulk  *)
(* revocations take the account's advisory lock and are atomic; what a     *)
(* call does between its statements is not.                                *)
(*                                                                         *)
(* Only logins by password are modelled, without the second proof a busy   *)
(* handle asks for.  A password is known by the number of resets before it.*)
(***************************************************************************)
EXTENDS Naturals, Sequences, FiniteSets

CONSTANTS Call,      \* requests in progress
          Grace,     \* refreshGracePeriodMs
          Ttl,       \* refreshTtlSec
          Skew,      \* how far a replica's clock may be behind
          MaxNow, MaxRows, MaxResets  \* bounds: time, rows and resets

VARIABLES row,       \* sessions, in the order they were created
          password,  \* the password in force (credentials)
          now,
          call,
          handed,    \* rows whose token its owner was given
          ended,     \* history: rows under a revocation that has returned
          signedOut, \* history: rows of logins the owner has signed out
          changed    \* history: the newest password whose reset has returned

vars == <<row, password, now, call, handed, ended, signedOut, changed>>
history == <<ended, signedOut, changed>>

Assumptions == {Grace, Ttl, Skew, MaxNow, MaxRows, MaxResets} \subseteq Nat

\* revoked: when, or 0.  from: the row it was rotated from, or 0.
Row == [from : 0..MaxRows, revoked : 0..MaxNow, expires : Nat, password : 0..MaxResets]
Idle == [pc |-> "idle", row |-> 0, at |-> 0, password |-> 0]

TypeOK ==
  /\ row \in Seq(Row) /\ Len(row) <= MaxRows
  /\ password \in 0..MaxResets /\ now \in 1..MaxNow /\ changed \in 0..password
  /\ handed \cup ended \cup signedOut \subseteq DOMAIN row
  /\ call \in [Call -> [pc : {"idle", "verified", "created", "outdated", "rotating", "rejecting", "burning",
                              "hashing", "revoking"},
                        row : 0..MaxRows, at : 0..MaxNow, password : 0..MaxResets]]

Init ==
  /\ row = <<>> /\ password = 0 /\ now = 1 /\ call = [c \in Call |-> Idle]
  /\ handed = {} /\ ended = {} /\ signedOut = {} /\ changed = 0

\* What the clock of some replica says.
Clocks == {t \in 1..now : t + Skew >= now}

Live(s) == row[s].revoked = 0
LiveRows == {s \in DOMAIN row : Live(s)}

\* descendantsOf, with the row itself: all that can be reached by rotations.
Closed(set) == \A d \in DOMAIN row : row[d].from \in set => d \in set
Chain(s) == {d \in DOMAIN row : \A set \in SUBSET DOMAIN row : s \in set /\ d \notin set => ~Closed(set)}

Login(s) == UNION {Chain(r) : r \in {q \in DOMAIN row : row[q].from = 0 /\ s \in Chain(q)}}

Do(c, to) == call' = [call EXCEPT ![c] = to]

Insert(from, t, pw) ==
  /\ Len(row) < MaxRows
  /\ row' = Append(row, [from |-> from, revoked |-> 0, expires |-> t + Ttl, password |-> pw])

RevokedAt(set, t) == [s \in DOMAIN row |-> IF s \in set /\ Live(s) THEN [row[s] EXCEPT !.revoked = t] ELSE row[s]]

-----------------------------------------------------------------------------
(* login *)

VerifyPassword(c) ==
  /\ call[c].pc = "idle" /\ Do(c, [Idle EXCEPT !.pc = "verified", !.password = password])
  /\ UNCHANGED <<row, password, now, handed, history>>

CreateSession(c, t) ==
  /\ call[c].pc = "verified" /\ Insert(0, t, call[c].password)
  /\ Do(c, [call[c] EXCEPT !.pc = "created", !.row = Len(row) + 1])
  /\ UNCHANGED <<password, now, handed, history>>

\* Mutant: the hash is not read again.
SamePassword_Assumed(c) == TRUE

SamePassword(c) == password = call[c].password

ReadHashAgain(c) ==
  /\ call[c].pc = "created"
  /\ IF SamePassword(c)
     THEN handed' = handed \cup {call[c].row} /\ Do(c, Idle)
     ELSE Do(c, [call[c] EXCEPT !.pc = "outdated"]) /\ UNCHANGED handed
  /\ UNCHANGED <<row, password, now, history>>

RefuseLogin(c, t) ==
  /\ call[c].pc = "outdated"
  /\ row' = RevokedAt({call[c].row}, t) /\ Do(c, Idle)
  /\ UNCHANGED <<password, now, handed, history>>

-----------------------------------------------------------------------------
(* refresh *)

\* A token that has expired is refused and changes nothing.
Present(c, s, t) ==
  /\ call[c].pc = "idle" /\ s \in handed
  /\ Live(s) => row[s].expires > t
  /\ Do(c, [Idle EXCEPT !.pc = IF Live(s) THEN "rotating" ELSE "rejecting", !.row = s, !.at = t])
  /\ UNCHANGED <<row, password, now, handed, history>>

\* Mutant: what the call read before the lock is believed.
MayRotate_Read(s) == TRUE

\* Under the account's lock.
MayRotate(s) == Live(s)

\* The successor was prepared, with its expiry, before the lock was asked for.
Rotate(c, prepared) ==
  /\ call[c].pc = "rotating" /\ MayRotate(call[c].row) /\ Len(row) < MaxRows
  /\ row' = Append(RevokedAt({call[c].row}, call[c].at),
                   [from |-> call[c].row, revoked |-> 0, expires |-> prepared + Ttl,
                    password |-> row[call[c].row].password])
  /\ handed' = handed \cup {Len(row) + 1} /\ Do(c, Idle)
  /\ UNCHANGED <<password, now, history>>

\* The row was revoked meanwhile; the grace period is judged by a clock read now.
RotationCollides(c, t) ==
  /\ call[c].pc = "rotating" /\ ~MayRotate(call[c].row)
  /\ Do(c, [call[c] EXCEPT !.pc = "rejecting", !.at = t])
  /\ UNCHANGED <<row, password, now, handed, history>>

\* Mutant: any revoked token outside the grace period is taken for a stolen one.
RotatedAway_Any(s, t) == TRUE

\* A successor that is still good holds the account.
RotatedAway(s, t) == \E d \in Chain(s) \ {s} : Live(d) /\ row[d].expires > t

InGrace(s, t) == row[s].revoked <= t /\ t <= row[s].revoked + Grace

\* rejectRevokedRefresh, up to listForUser and the verdict on the list.
Reject(c) ==
  /\ call[c].pc = "rejecting"
  /\ IF RotatedAway(call[c].row, call[c].at) /\ ~InGrace(call[c].row, call[c].at)
     THEN Do(c, [call[c] EXCEPT !.pc = "burning"])
     ELSE Do(c, Idle)
  /\ UNCHANGED <<row, password, now, handed, history>>

Burn(c) ==
  /\ call[c].pc = "burning"
  /\ row' = RevokedAt(DOMAIN row, call[c].at) /\ ended' = ended \cup DOMAIN row /\ Do(c, Idle)
  /\ UNCHANGED <<password, now, handed, signedOut, changed>>

-----------------------------------------------------------------------------
(* logout and revokeSession, and confirmPasswordReset *)

\* Mutant: the row alone, without its successors.
Revocable_Row(s) == {s}

Revocable(s) == Chain(s)

SignOut(s, t) ==
  /\ row' = RevokedAt(Revocable(s), t)
  /\ ended' = ended \cup Chain(s) /\ signedOut' = signedOut \cup Login(s)
  /\ UNCHANGED <<password, now, call, handed, changed>>

\* The link was good, and is used up.
StartReset(c) ==
  /\ call[c].pc = "idle" /\ password < MaxResets
  /\ Do(c, [Idle EXCEPT !.pc = "hashing"])
  /\ UNCHANGED <<row, password, now, handed, history>>

SetPassword(c) ==
  /\ call[c].pc = "hashing" /\ password < MaxResets
  /\ password' = password + 1
  /\ Do(c, [call[c] EXCEPT !.pc = "revoking", !.password = password + 1])
  /\ UNCHANGED <<row, now, handed, history>>

RevokeForReset(c, t) ==
  /\ call[c].pc = "revoking"
  /\ row' = RevokedAt(DOMAIN row, t) /\ ended' = ended \cup DOMAIN row
  /\ changed' = IF call[c].password > changed THEN call[c].password ELSE changed
  /\ Do(c, Idle)
  /\ UNCHANGED <<password, now, handed, signedOut>>

\* The process dies, or a statement fails: the caller gets no token.
Fails(c) ==
  /\ call[c].pc # "idle" /\ Do(c, Idle)
  /\ UNCHANGED <<row, password, now, handed, history>>

Tick ==
  /\ now < MaxNow /\ now' = now + 1
  /\ UNCHANGED <<row, password, call, handed, history>>

Next ==
  \/ \E c \in Call :
       \/ VerifyPassword(c) \/ ReadHashAgain(c) \/ Reject(c) \/ Burn(c)
       \/ \E t \in call[c].at..now : Rotate(c, t)
       \/ StartReset(c) \/ SetPassword(c) \/ Fails(c)
       \/ \E t \in Clocks : CreateSession(c, t) \/ RefuseLogin(c, t) \/ RotationCollides(c, t)
                            \/ RevokeForReset(c, t) \/ \E s \in DOMAIN row : Present(c, s, t)
  \/ \E s \in DOMAIN row, t \in Clocks : SignOut(s, t)
  \/ Tick

Spec == Init /\ [][Next]_vars

-----------------------------------------------------------------------------
\* After a sign-out, a burn or a reset has returned, no session that was under it, nor
\* one rotated from it before or after, is live (revokeChainForUser, revokeAllForUser).
SessionsStayRevoked == \A s \in ended : Chain(s) \cap LiveRows = {}

\* A login has at most one live session, however many refreshes race (rotate).
OneSessionPerLogin == \A s, d \in LiveRows : d \in Login(s) => d = s

\* After a reset has returned, nobody holds a live session of a login that proved an
\* older password, also when that login straddled the reset (login, confirmPasswordReset).
PasswordCutsOff == \A s \in handed : Live(s) => row[s].password >= changed

\* A token of a login that its owner has signed out never costs the account its other
\* sessions (rejectRevokedRefresh).
SignOutIsLocal ==
  [][\A c \in Call : call[c].pc = "rejecting" /\ call[c].row \in signedOut => call'[c].pc # "burning"]_vars

SessionsAreSound == [](SessionsStayRevoked /\ OneSessionPerLogin /\ PasswordCutsOff) /\ SignOutIsLocal
=============================================================================

-------------------------------- MODULE Relations --------------------------------
(***************************************************************************)
(* What two players are to each other: who follows and who has blocked     *)
(* whom, their friend requests and their conversation (pg/social.ts and    *)
(* pg/messaging.ts over the rules of packages/social).  Every operation is *)
(* a transaction that waits for the lock of the pair, except the answer to *)
(* a request, which locks only the row of the request, and the deletes.    *)
(* A transaction reads what is committed, one statement at a time, and its *)
(* writes appear at its commit.                                            *)
(***************************************************************************)
EXTENDS Naturals, Sequences, FiniteSets

CONSTANTS Person,  \* the two of them
          Call, Nobody,
          MaxRequests, MaxMessages  \* bounds

VARIABLES follows,      \* social_follows, as the set of followers
          blocks,       \* social_blocks, as the set of blockers
          request,      \* social_friend_requests of the pair, oldest first
          conversation, \* how many conversations the pair has
          messages,     \* how many messages were committed
          pairLock,     \* pg_advisory_xact_lock of the pair
          rowLock,      \* rowLock[r]: who holds the row of request r
          call

vars == <<follows, blocks, request, conversation, messages, pairLock, rowLock, call>>
tables == <<follows, blocks, request, conversation, messages>>
locks == <<pairLock, rowLock>>

Assumptions ==
  Cardinality(Person) = 2 /\ Nobody \notin Person \cup Call /\ {MaxRequests, MaxMessages} \subseteq Nat

Statuses == {"pending", "accepted", "declined", "cancelled", "ended"}
Operations == {"follow", "request", "open", "message", "block"}
Idle == [pc |-> "idle", op |-> "none", by |-> Nobody, row |-> 0, seen |-> "none"]

TypeOK ==
  /\ {follows, blocks} \subseteq SUBSET Person
  /\ request \in Seq([from : Person, status : Statuses]) /\ Len(request) <= MaxRequests
  /\ conversation \in Nat /\ messages \in 0..MaxMessages
  /\ pairLock \in Call \cup {Nobody} /\ rowLock \in [1..MaxRequests -> Call \cup {Nobody}]
  /\ call \in [Call -> [pc : {"idle", "locked", "unblocked", "strangers", "clear", "tearing", "answering"},
                        op : Operations \cup {"none", "accept", "decline", "cancel"},
                        by : Person \cup {Nobody}, row : 0..MaxRequests, seen : Statuses \cup {"none"}]]

Init ==
  /\ follows = {} /\ blocks = {} /\ request = <<>> /\ conversation = 0 /\ messages = 0
  /\ pairLock = Nobody /\ rowLock = [r \in 1..MaxRequests |-> Nobody] /\ call = [c \in Call |-> Idle]

InStatus(s) == {r \in DOMAIN request : request[r].status = s}

Move(c, pc) == call' = [call EXCEPT ![c].pc = pc] /\ UNCHANGED <<tables, locks>>

\* COMMIT and ROLLBACK release the transaction's locks.
Release(c) ==
  /\ call' = [call EXCEPT ![c] = Idle]
  /\ pairLock' = IF pairLock = c THEN Nobody ELSE pairLock
  /\ rowLock' = [r \in DOMAIN rowLock |-> IF rowLock[r] = c THEN Nobody ELSE rowLock[r]]

Refuse(c) == Release(c) /\ UNCHANGED tables

-----------------------------------------------------------------------------
\* Mutant: an operation other than a block does not wait for the pair.
MayLockPair_Block(op) == op # "block" \/ pairLock = Nobody

\* lockPlayerPair
MayLockPair(op) == pairLock = Nobody

\* A message needs a conversation, which nobody removes.
Begin(c, op, p) ==
  /\ call[c] = Idle /\ MayLockPair(op)
  /\ op = "message" => conversation > 0
  /\ pairLock' = c
  /\ call' = [call EXCEPT ![c] = [Idle EXCEPT !.pc = "locked", !.op = op, !.by = p]]
  /\ UNCHANGED <<tables, rowLock>>

\* A block in either direction bars everything but another block.
CheckBlock(c) ==
  /\ call[c].pc = "locked" /\ call[c].op # "block"
  /\ IF blocks # {} THEN Refuse(c) ELSE Move(c, "unblocked")

CheckFriends(c) ==
  /\ call[c].pc = "unblocked" /\ call[c].op = "request"
  /\ IF InStatus("accepted") # {} THEN Refuse(c) ELSE Move(c, "strangers")

CheckOpen(c) ==
  /\ call[c].pc = "strangers"
  /\ IF InStatus("pending") # {} THEN Refuse(c) ELSE Move(c, "clear")

CommitFollow(c) ==
  /\ call[c].pc = "unblocked" /\ call[c].op = "follow"
  /\ follows' = follows \cup {call[c].by} /\ Release(c)
  /\ UNCHANGED <<blocks, request, conversation, messages>>

CommitRequest(c) ==
  /\ call[c].pc = "clear" /\ Len(request) < MaxRequests
  /\ request' = Append(request, [from |-> call[c].by, status |-> "pending"]) /\ Release(c)
  /\ UNCHANGED <<follows, blocks, conversation, messages>>

\* getOrCreateConversation
CommitConversation(c) ==
  /\ call[c].pc = "unblocked" /\ call[c].op = "open"
  /\ conversation' = IF conversation = 0 THEN 1 ELSE conversation
  /\ Release(c)
  /\ UNCHANGED <<follows, blocks, request, messages>>

CommitMessage(c) ==
  /\ call[c].pc = "unblocked" /\ call[c].op = "message" /\ messages < MaxMessages
  /\ messages' = messages + 1 /\ Release(c)
  /\ UNCHANGED <<follows, blocks, request, conversation>>

-----------------------------------------------------------------------------
(* block *)

\* SELECT ... FOR UPDATE: waits for answers in progress, and reads what they left.
LockRows(c) ==
  /\ call[c].pc = "locked" /\ call[c].op = "block"
  /\ \A r \in DOMAIN request : rowLock[r] = Nobody
  /\ rowLock' = [r \in DOMAIN rowLock |-> IF r \in DOMAIN request THEN c ELSE Nobody]
  /\ call' = [call EXCEPT ![c].pc = "tearing"]
  /\ UNCHANGED <<tables, pairLock>>

\* terminateFriendship, or the withdrawal the blocker is entitled to.
TornDown(req, blocker) ==
  CASE req.status = "accepted" -> [req EXCEPT !.status = "ended"]
    [] req.status = "pending" -> [req EXCEPT !.status = IF req.from = blocker THEN "cancelled" ELSE "declined"]
    [] OTHER -> req

CommitBlock(c) ==
  /\ call[c].pc = "tearing"
  /\ follows' = {} /\ blocks' = blocks \cup {call[c].by}
  /\ request' = [r \in DOMAIN request |-> TornDown(request[r], call[c].by)]
  /\ Release(c) /\ UNCHANGED <<conversation, messages>>

-----------------------------------------------------------------------------
(* respondToFriendRequest, unfollow and unblock *)

NextStatus(action) ==
  CASE action = "accept" -> "accepted" [] action = "decline" -> "declined" [] action = "cancel" -> "cancelled"

Entitled(action, p, req) == IF action = "cancel" THEN p = req.from ELSE p # req.from

\* Mutant: the request is read without FOR UPDATE.
MayReadRow_Unlocked(r) == TRUE

MayReadRow(r) == rowLock[r] = Nobody

ReadRequest(c, r, action, p) ==
  /\ call[c] = Idle /\ MayReadRow(r)
  /\ rowLock' = [rowLock EXCEPT ![r] = c]
  /\ call' = [call EXCEPT ![c] =
                [pc |-> "answering", op |-> action, by |-> p, row |-> r, seen |-> request[r].status]]
  /\ UNCHANGED <<tables, pairLock>>

\* applyFriendRequestAction judges what was read; a second friendship of the pair hits
\* the unique index on accepted requests.
Respond(c) ==
  LET r == call[c].row
      action == call[c].op
  IN /\ call[c].pc = "answering"
     /\ IF /\ call[c].seen = "pending" /\ Entitled(action, call[c].by, request[r])
           /\ action = "accept" => InStatus("accepted") = {}
        THEN /\ request' = [request EXCEPT ![r].status = NextStatus(action)] /\ Release(c)
             /\ UNCHANGED <<follows, blocks, conversation, messages>>
        ELSE Refuse(c)

Unfollow(p) ==
  /\ p \in follows /\ follows' = follows \ {p}
  /\ UNCHANGED <<blocks, request, conversation, messages, locks, call>>

Unblock(p) ==
  /\ p \in blocks /\ blocks' = blocks \ {p}
  /\ UNCHANGED <<follows, request, conversation, messages, locks, call>>

\* A statement fails or the connection is lost.
RollsBack(c) == call[c] # Idle /\ Refuse(c)

Next ==
  \/ \E c \in Call :
       \/ CheckBlock(c) \/ CheckFriends(c) \/ CheckOpen(c) \/ LockRows(c)
       \/ CommitFollow(c) \/ CommitRequest(c) \/ CommitConversation(c) \/ CommitMessage(c) \/ CommitBlock(c)
       \/ Respond(c) \/ RollsBack(c)
       \/ \E p \in Person :
            \/ \E op \in Operations : Begin(c, op, p)
            \/ \E r \in DOMAIN request, a \in {"accept", "decline", "cancel"} : ReadRequest(c, r, a, p)
  \/ \E p \in Person : Unfollow(p) \/ Unblock(p)

Spec == Init /\ [][Next]_vars

-----------------------------------------------------------------------------
\* A block that stands leaves no follow, friendship or open request, whatever was in
\* progress when it was made (block, follow, respondToFriendRequest).
BlockSevers == blocks # {} => follows = {} /\ InStatus("accepted") = {} /\ InStatus("pending") = {}

\* A pair has one conversation, and at most one open request and one friendship.
OneOfEach ==
  conversation <= 1 /\ Cardinality(InStatus("pending")) <= 1 /\ Cardinality(InStatus("accepted")) <= 1

\* Nothing is said across a block (sendMessage and block queue behind the same lock).
NoMessageAcrossABlock == [][messages' # messages => blocks = {}]_vars

\* An answer is final, and a friendship ends only by a block (applyFriendRequestAction,
\* terminateFriendship).
AnswersAreFinal ==
  [][\A r \in DOMAIN request :
       LET from == request[r].status
           to == request'[r].status
       IN from # to => from = "pending" \/ (from = "accepted" /\ to = "ended" /\ blocks' # {})]_vars

\* Nobody has an open request to a friend (sendFriendRequest: a duplicate is rejected).
NoRequestBetweenFriends == InStatus("accepted") = {} \/ InStatus("pending") = {}

RelationsHold == [](BlockSevers /\ OneOfEach) /\ NoMessageAcrossABlock /\ AnswersAreFinal
=============================================================================

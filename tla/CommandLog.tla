------------------------------ MODULE CommandLog ------------------------------
(***************************************************************************)
(* What the authority of a game promises to its callers, whatever cache,   *)
(* queue, timer or store is behind it: a durable log that only grows, and  *)
(* for each command one answer that stays true for ever.                   *)
(***************************************************************************)
EXTENDS Naturals, Sequences, SequencesExt

CONSTANTS Cmd,       \* the commands callers issue
          Creation,  \* those that create the game
          Foreign    \* an event appended by another process

VARIABLES log,     \* the durable events of the game
          outcome  \* outcome[c]: what the caller of c was told

Outcomes == {"idle", "waiting", "confirmed", "unchanged", "unknown"}

vars == <<log, outcome>>

Init ==
  /\ log = <<>>
  /\ outcome = [c \in Cmd |-> "idle"]

(* A command reaches the log at most once, creations only an empty one,    *)
(* and never after its caller was told that nothing changed.               *)
Commit(c) ==
  /\ c \notin ToSet(log)
  /\ outcome[c] \in {"waiting", "unknown"}
  /\ c \in Creation <=> log = <<>>
  /\ log' = Append(log, c)
  /\ UNCHANGED outcome

ForeignAppend == log' = Append(log, Foreign) /\ UNCHANGED outcome

\* The answers a command may be given, once, in the present state of the log.
MayBecome(c, answer) ==
  \/ outcome[c] = "idle" /\ answer \in {"waiting", "unchanged"}
  \/ /\ outcome[c] = "waiting"
     /\ \/ answer = "confirmed" /\ c \in ToSet(log)
        \/ answer = "unchanged" /\ c \notin ToSet(log)
        \/ answer = "unknown"

\* One event of the process may answer several callers (a write deadline).
Answer ==
  /\ outcome' \in [Cmd -> Outcomes]
  /\ \A c \in Cmd : outcome'[c] = outcome[c] \/ MayBecome(c, outcome'[c])
  /\ UNCHANGED log

Next == (\E c \in Cmd : Commit(c)) \/ ForeignAppend \/ Answer

Spec == Init /\ [][Next]_vars

=============================================================================

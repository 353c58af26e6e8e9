-------------------------------- MODULE MCGame --------------------------------
(***************************************************************************)
(* One game of each source under each kind of clock, with both workers;    *)
(* and what calls of the API do in the database around games and people:   *)
(* how games are created beside chess assistance, sessions, and relations  *)
(* of two people.  They share no state: a behaviour moves one of the four, *)
(* and the others rest in an initial state.                                *)
(***************************************************************************)
EXTENDS Game, ApiCalls, TLC

CONSTANTS f1, p1, c1, c2, s1, ann, bob

VARIABLE part

MCFlagWorker == {f1}
MCNoShowWorker == {p1}
AllSources == {"none", "seek", "tournament"}
TwoKinds == {[kind |-> k, initial |-> 2, increment |-> 1, delay |-> 1] : k \in {"increment", "delay"}}
AllKinds == TwoKinds \cup
  {[kind |-> k, initial |-> 2, increment |-> 0, delay |-> 0] : k \in {"unlimited", "sudden_death"}}

MCCall == {c1, c2}
MCPlayer == {1, 2}
MCSeek == {s1}
MCPerson == {ann, bob}

Symmetry == Permutations(MCCall) \cup Permutations(MCPerson)

AllInit ==
  /\ part \in {"game", "creation", "sessions", "relations"}
  /\ Init /\ (part # "game" => game = Created("none", CHOOSE tc \in TwoKinds : TRUE))
  /\ Creation!Init /\ (part # "creation" => seek[s1].creator = 1)
  /\ Accounts!Init /\ People!Init

AllNext ==
  \/ part = "game" /\ Next /\ UNCHANGED <<part, creation, sessions, relations>>
  \/ part = "creation" /\ Creation!Next /\ UNCHANGED <<part, vars, sessions, relations>>
  \/ part = "sessions" /\ Accounts!Next /\ UNCHANGED <<part, vars, creation, relations>>
  \/ part = "relations" /\ People!Next /\ UNCHANGED <<part, vars, creation, sessions>>

AllSpec == AllInit /\ [][AllNext]_<<part, vars, creation, sessions, relations>>

=============================================================================

----------------------------- MODULE MCAuthority -----------------------------
(***************************************************************************)
(* The authority of a game, with a creation and two commands beside one    *)
(* other gateway; and the rules of the board, which tell it what a move    *)
(* is.  They share no state here: a behaviour moves one of them.           *)
(***************************************************************************)
EXTENDS Authority, ChessPositions, TLC

CONSTANTS create, c1, c2, s1, s2, Parts

VARIABLES part,
          pos, plies, start, touched \* ChessRules

board == <<pos, plies, start, touched>>

MCCmd == {create, c1, c2}
MCCreation == {create}
MCSlot == {s1, s2}
MCOneCommand == {create, c1}
CmdSymmetry == Permutations({c1, c2})

Chess == INSTANCE ChessRules WITH Positions <- MCPositions, MaxPlies <- 2

ASSUME Assumptions /\ Chess!Assumptions

AllInit ==
  /\ part \in Parts
  /\ Init
  /\ IF part = "board" THEN Chess!Init ELSE pos = 0 /\ plies = 0 /\ start = 0 /\ touched = {}

AllNext ==
  \/ part = "authority" /\ Next /\ UNCHANGED <<part, board>>
  \/ part = "board" /\ Chess!Next /\ UNCHANGED <<part, vars>>

AllSpec == AllInit /\ [][AllNext]_<<part, vars, board>>

\* A move is legal just when it leaves no king to be taken, keeps the material, the
\* rights and the passing squares true, leads to a valid position and has a name of
\* its own (ChessRules: movegen.ts, castling.ts, position.ts).
RulesHold == part = "board" => Chess!RulesHold

=============================================================================

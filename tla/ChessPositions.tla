---------------------------- MODULE ChessPositions ----------------------------
(* Positions for the rules of chess, by the hazard they carry. *)
EXTENDS Integers

\* A piece and its square, by file and rank from 1.
PieceOn(c, t, f, r) == [c |-> c, t |-> t, s |-> 8 * (r - 1) + f - 1]
White(t, f, r) == PieceOn("w", t, f, r)
Black(t, f, r) == PieceOn("b", t, f, r)

BoardOf(pieces) ==
  [s \in {x.s : x \in pieces} |-> LET x == CHOOSE y \in pieces : y.s = s IN <<x.c, x.t>>]

\* The files of the rooks with a right: the king's side and the queen's, by colour.
NoRights == [c \in {"w", "b"} |-> [side \in {"k", "q"} |-> -1]]
Rights(wk, wq, bk, bq) ==
  [w |-> [k |-> wk, q |-> wq], b |-> [k |-> bk, q |-> bq]]

Setup(variant, turn, pieces, rights) ==
  [variant |-> variant, turn |-> turn, board |-> BoardOf(pieces), castling |-> rights, ep |-> -1,
   pockets |-> [c \in {"w", "b"} |-> [t \in {"p", "n", "b", "r", "q", "k"} |-> 0]],
   checks |-> [c \in {"w", "b"} |-> 0]]

\* Rooks on their squares beside the king, with atomic explosions around.
Explosive ==
  Setup("atomic", "w", {White("k",5,1), White("r",1,1), White("p",1,2), White("r",8,1), White("n",6,4),
                        Black("k",5,8), Black("p",7,2)}, Rights(7, 0, -1, -1))

MCPositions == {
  \* e1 with both rooks, an attack on f1, and a promotion that takes a rook with a right
  Setup("standard", "w", {White("k",5,1), White("r",1,1), White("p",1,2), White("r",8,1), White("p",8,2),
                          White("p",2,7), Black("k",5,8), Black("r",1,8), Black("b",8,3)}, Rights(7, 0, -1, 0)),
  \* a double step past a pawn whose capture would uncover its king along the rank
  Setup("standard", "b", {White("k",1,5), White("p",2,5), White("p",4,5), Black("p",3,7), Black("r",8,5),
                          Black("k",8,8)}, NoRights),
  \* a king on g1 between its rooks; a king on b1 that can step to where it castles
  Setup("chess960", "w", {White("k",7,1), White("r",8,1), White("r",6,1), White("p",6,2), White("p",8,2),
                          Black("k",5,8), Black("r",2,8), Black("p",2,7)}, Rights(7, 5, -1, 1)),
  Setup("chess960", "w", {White("k",2,1), White("r",1,1), White("p",1,2), Black("k",5,8), Black("r",7,8),
                          Black("n",6,4)}, Rights(-1, 0, 6, -1)),
  \* an inner rook keeps its right when another comes to stand outside it
  Setup("chess960", "w", {White("k",3,1), White("r",6,1), White("p",6,2), White("r",8,2), Black("k",5,8),
                          Black("r",1,8), Black("p",1,7)}, Rights(5, -1, -1, 0)),
  \* explosions beside a king, one that burns a rook with a right and leaves another beside
  \* the king, and two kings that stand together
  Explosive,
  Setup("atomic", "w", {White("k",5,1), White("r",6,1), White("r",8,1), White("n",6,3), Black("k",5,8),
                        Black("p",8,2)}, Rights(7, -1, -1, -1)),
  Setup("atomic", "w", {White("k",4,4), White("n",3,3), Black("k",4,6), Black("r",1,4), Black("p",5,5)}, NoRights),
  \* a drop, and a promoted piece to take
  [Setup("crazyhouse", "w", {White("k",8,1), White("p",2,7), Black("k",5,8), Black("r",1,8), Black("p",8,2)},
         Rights(-1, -1, -1, 0)) EXCEPT !.pockets["b"]["n"] = 1],
  \* the third check, the hill, the race and the horde
  [Setup("threecheck", "w", {White("k",5,1), White("r",4,3), Black("k",5,8), Black("n",3,6)}, NoRights)
     EXCEPT !.checks["w"] = 2],
  Setup("kingofthehill", "w", {White("k",4,3), White("p",1,2), Black("k",6,6)}, NoRights),
  Setup("racingkings", "w", {White("k",8,7), White("n",2,2), Black("k",1,7), Black("n",3,2)}, NoRights),
  Setup("horde", "w", {White("p",2,1), White("p",3,4), White("p",1,2), Black("p",4,7), Black("k",5,8),
                       Black("r",8,8)}, Rights(-1, -1, 7, -1))}

=============================================================================

------------------------------- MODULE ChessRules -------------------------------
(***************************************************************************)
(* The rules of chess and its variants (chess-core): which squares are     *)
(* attacked, which moves there are, what a move does to a position, when a *)
(* game is over by the board, and how rights and moves are written down.   *)
(* Move counters are left out, and with them the draw by fifty moves.      *)
(***************************************************************************)
EXTENDS Integers, FiniteSets, Sequences

CONSTANTS Positions, \* positions that games start from
          MaxPlies   \* bound

VARIABLES pos, plies,
          start,   \* history: where the game started
          touched  \* history: the squares a move has left, come to or changed, but for its explosion

vars == <<pos, plies, start, touched>>

Color == {"w", "b"}
Opposite(c) == IF c = "w" THEN "b" ELSE "w"
PieceType == {"p", "n", "b", "r", "q", "k"}
Variant == {"standard", "chess960", "atomic", "crazyhouse", "threecheck", "kingofthehill", "racingkings", "horde"}
None == -1

Square == 0..63
File(s) == s % 8
Rank(s) == s \div 8
SquareAt(f, r) == 8 * r + f
OnBoard(f, r) == f \in 0..7 /\ r \in 0..7

BISHOP_OFFSETS == {-1, 1} \X {-1, 1}
ROOK_OFFSETS == {<<-1, 0>>, <<1, 0>>, <<0, -1>>, <<0, 1>>}
KING_OFFSETS == BISHOP_OFFSETS \cup ROOK_OFFSETS
KNIGHT_OFFSETS == {d \in (-2..2) \X (-2..2) : d[1] * d[1] + d[2] * d[2] = 5}

Steps(s, offsets) ==
  {SquareAt(File(s) + d[1], Rank(s) + d[2]) : d \in {o \in offsets : OnBoard(File(s) + o[1], Rank(s) + o[2])}}

KnightSquares == [s \in Square |-> Steps(s, KNIGHT_OFFSETS)]
KingSquares == [s \in Square |-> Steps(s, KING_OFFSETS)]

\* A board is a function from the occupied squares to pieces.
Occupied(b, s) == s \in DOMAIN b
Holds(b, s, c) == Occupied(b, s) /\ b[s][1] = c
Of(b, piece) == {s \in DOMAIN b : b[s] = piece}
Forward(c) == IF c = "w" THEN 8 ELSE -8
BackRank(c) == IF c = "w" THEN 0 ELSE 7

Line(s, d) ==
  LET n == CHOOSE n \in 0..7 : /\ OnBoard(File(s) + n * d[1], Rank(s) + n * d[2])
                               /\ ~OnBoard(File(s) + (n + 1) * d[1], Rank(s) + (n + 1) * d[2])
  IN [i \in 1..n |-> s + i * (d[1] + 8 * d[2])]

Lines == [s \in Square |-> [d \in KING_OFFSETS |-> Line(s, d)]]

\* What a slider on s sees along d: the empty squares, and the first piece.
Sees(b, s, d) ==
  LET l == Lines[s][d]
  IN {l[i] : i \in {i \in DOMAIN l : \A j \in 1..(i - 1) : l[j] \notin DOMAIN b}}

SeesAlong(b, s, offsets) == UNION {Sees(b, s, d) : d \in offsets}

PawnSquares(c, s) == Steps(s, {<<-1, Forward(c) \div 8>>, <<1, Forward(c) \div 8>>})

-----------------------------------------------------------------------------
(* Attacks. *)

FindKing(b, c) == IF Of(b, <<c, "k">>) = {} THEN None ELSE CHOOSE s \in Of(b, <<c, "k">>) : TRUE

\* Mutant: the squares pawns attack are looked for on the wrong side of them.
IsSquareAttacked_Ahead(b, s, by) ==
  \/ \E t \in PawnSquares(by, s) \cap DOMAIN b : b[t] = <<by, "p">>
  \/ \E t \in KnightSquares[s] \cap DOMAIN b : b[t] = <<by, "n">>
  \/ \E t \in KingSquares[s] \cap DOMAIN b : b[t] = <<by, "k">>
  \/ \E t \in SeesAlong(b, s, BISHOP_OFFSETS) \cap DOMAIN b : b[t] \in {<<by, "b">>, <<by, "q">>}
  \/ \E t \in SeesAlong(b, s, ROOK_OFFSETS) \cap DOMAIN b : b[t] \in {<<by, "r">>, <<by, "q">>}

\* Looked up from the square itself.
IsSquareAttacked(b, s, by) ==
  \/ \E t \in PawnSquares(Opposite(by), s) \cap DOMAIN b : b[t] = <<by, "p">>
  \/ \E t \in KnightSquares[s] \cap DOMAIN b : b[t] = <<by, "n">>
  \/ \E t \in KingSquares[s] \cap DOMAIN b : b[t] = <<by, "k">>
  \/ \E t \in SeesAlong(b, s, BISHOP_OFFSETS) \cap DOMAIN b : b[t] \in {<<by, "b">>, <<by, "q">>}
  \/ \E t \in SeesAlong(b, s, ROOK_OFFSETS) \cap DOMAIN b : b[t] \in {<<by, "r">>, <<by, "q">>}

IsAdjacent(s, t) == s # None /\ t # None /\ t \in KingSquares[s]

InCheck(p, c) ==
  LET k == FindKing(p.board, c)
  IN /\ k # None
     /\ ~(p.variant = "atomic" /\ IsAdjacent(k, FindKing(p.board, Opposite(c))))
     /\ IsSquareAttacked(p.board, k, Opposite(c))

-----------------------------------------------------------------------------
(* Moves. *)

Plain(b, from, to) ==
  [from |-> from, to |-> to, piece |-> b[from], captured |-> IF Occupied(b, to) THEN <<b[to]>> ELSE <<>>,
   promotion |-> "none", drop |-> "none", rook |-> None, kind |-> "normal"]

Promoted(b, from, to) ==
  IF Rank(to) = BackRank(Opposite(b[from][1]))
  THEN {[Plain(b, from, to) EXCEPT !.promotion = t] : t \in {"q", "r", "b", "n"}}
  ELSE {Plain(b, from, to)}

CanDouble(p, from) ==
  \/ Rank(from) = IF p.turn = "w" THEN 1 ELSE 6
  \/ p.variant = "horde" /\ p.turn = "w" /\ Rank(from) = 0

PawnMoves(p, from) ==
  LET b == p.board
      one == from + Forward(p.turn)
      two == one + Forward(p.turn)
  IN UNION {
       IF one \in Square /\ ~Occupied(b, one) THEN Promoted(b, from, one) ELSE {},
       IF /\ one \in Square /\ ~Occupied(b, one) /\ Rank(one) # BackRank(Opposite(p.turn))
          /\ CanDouble(p, from) /\ ~Occupied(b, two)
       THEN {[Plain(b, from, two) EXCEPT !.kind = "double"]} ELSE {},
       UNION {Promoted(b, from, to) : to \in {t \in PawnSquares(p.turn, from) : Holds(b, t, Opposite(p.turn))}},
       {[Plain(b, from, to) EXCEPT !.kind = "enpassant", !.captured = <<b[to - Forward(p.turn)]>>] :
          to \in {t \in PawnSquares(p.turn, from) : t = p.ep /\ ~Holds(b, t, Opposite(p.turn))}}}

Between(s, t) ==
  LET lo == IF File(s) < File(t) THEN File(s) ELSE File(t)
      hi == IF File(s) < File(t) THEN File(t) ELSE File(s)
  IN {SquareAt(f, Rank(s)) : f \in lo..hi}

CastledKing(c, side) == SquareAt(IF side = "k" THEN 6 ELSE 2, BackRank(c))
CastledRook(c, side) == SquareAt(IF side = "k" THEN 5 ELSE 3, BackRank(c))

SpanClear(b, king, kingTo, rook, rookTo) ==
  (Between(king, kingTo) \cup Between(rook, rookTo)) \cap DOMAIN b \subseteq {king, rook}

\* Mutant: the squares between, without the square the king comes from.
KingPathSafe_Passed(p, king, kingTo) ==
  \A s \in Between(king, kingTo) \ {king} : ~IsSquareAttacked(p.board, s, Opposite(p.turn))

KingPathSafe(p, king, kingTo) ==
  LET shield == IF p.variant = "atomic" THEN FindKing(p.board, Opposite(p.turn)) ELSE None
  IN \A s \in Between(king, kingTo) :
       IsAdjacent(s, shield) \/ ~IsSquareAttacked(p.board, s, Opposite(p.turn))

\* Outside Chess960 the king castles from e, with a rook on a or h.
TraditionalRook(side) == IF side = "k" THEN 7 ELSE 0

Castles(p, king) ==
  {[Plain(p.board, king, CastledKing(p.turn, side)) EXCEPT
      !.captured = <<>>, !.rook = SquareAt(p.castling[p.turn][side], BackRank(p.turn)), !.kind = side] :
     side \in {sd \in {"k", "q"} :
       LET file == p.castling[p.turn][sd]
           rook == SquareAt(file, BackRank(p.turn))
       IN /\ p.variant # "racingkings" /\ Rank(king) = BackRank(p.turn) /\ file # None
          /\ p.variant # "chess960" => File(king) = 4 /\ file = TraditionalRook(sd)
          /\ rook \in Of(p.board, <<p.turn, "r">>)
          /\ SpanClear(p.board, king, CastledKing(p.turn, sd), rook, CastledRook(p.turn, sd))
          /\ KingPathSafe(p, king, CastledKing(p.turn, sd))}}

Reaches(b, s) ==
  CASE b[s][2] = "n" -> KnightSquares[s]
    [] b[s][2] = "k" -> KingSquares[s]
    [] b[s][2] = "b" -> SeesAlong(b, s, BISHOP_OFFSETS)
    [] b[s][2] = "r" -> SeesAlong(b, s, ROOK_OFFSETS)
    [] b[s][2] = "q" -> SeesAlong(b, s, KING_OFFSETS)

PieceMoves(p, from) ==
  {Plain(p.board, from, to) : to \in {t \in Reaches(p.board, from) : ~Holds(p.board, t, p.turn)}}

Drops(p) ==
  UNION {{[from |-> None, to |-> to, piece |-> <<p.turn, t>>, captured |-> <<>>, promotion |-> "none", drop |-> t,
           rook |-> None, kind |-> "normal"] :
            to \in {s \in Square \ DOMAIN p.board : t = "p" => Rank(s) \in 1..6}} :
         t \in {k \in PieceType \ {"k"} : p.pockets[p.turn][k] > 0}}

GeneratePseudoLegal(p) ==
  UNION {CASE p.board[s][2] = "p" -> PawnMoves(p, s)
           [] p.board[s][2] = "k" -> PieceMoves(p, s) \cup Castles(p, s)
           [] OTHER -> PieceMoves(p, s) : s \in {s \in DOMAIN p.board : p.board[s][1] = p.turn}}
    \cup IF p.variant = "crazyhouse" THEN Drops(p) ELSE {}

-----------------------------------------------------------------------------
(* What a move does. *)

Without(b, squares) == [s \in DOMAIN b \ squares |-> b[s]]
With(b, s, piece) == [t \in DOMAIN b \cup {s} |-> IF t = s THEN piece ELSE b[t]]

\* Mutant: a rook that is captured keeps its owner's right.
ClearedBy_Mover(m, c, file) ==
  m.piece[1] = c /\ (m.piece[2] = "k" \/ \E s \in {m.from, m.rook} \ {None} : Rank(s) = BackRank(c) /\ File(s) = file)

\* A right dies with its king's move, and with anything that happens on its rook's square.
ClearedBy(m, c, file) ==
  \/ m.piece = <<c, "k">>
  \/ \E s \in {m.from, m.to, m.rook} \ {None} : Rank(s) = BackRank(c) /\ File(s) = file

UpdateCastlingRights(rights, m) ==
  [c \in Color |-> [side \in {"k", "q"} |-> IF ClearedBy(m, c, rights[c][side]) THEN None ELSE rights[c][side]]]

Exploded(b, at) == Without(b, {at} \cup {s \in KingSquares[at] \cap DOMAIN b : b[s][2] # "p"})

Add(pocket, t, n) == [pocket EXCEPT ![t] = @ + n]

Capturing(m) == m.captured # <<>>

Moved(p, m) ==
  LET b == p.board
      taken == IF m.kind = "enpassant" THEN {m.to - Forward(p.turn)} ELSE {}
      piece == IF m.promotion = "none" THEN m.piece ELSE <<p.turn, m.promotion>>
      after == With(Without(b, {m.from} \cup taken), m.to, piece)
  IN CASE m.drop # "none" -> With(b, m.to, m.piece)
       [] m.kind \in {"k", "q"} ->
            With(With(Without(b, {m.from, m.rook}), m.to, <<p.turn, "k">>), CastledRook(p.turn, m.kind), <<p.turn, "r">>)
       [] OTHER -> IF p.variant = "atomic" /\ Capturing(m) THEN Exploded(after, m.to) ELSE after

Pocketed(p, m) ==
  IF p.variant # "crazyhouse" THEN p.pockets
  ELSE IF m.drop # "none" THEN [p.pockets EXCEPT ![p.turn] = Add(@, m.drop, -1)]
  ELSE IF Capturing(m) /\ m.captured[1][2] # "k" THEN [p.pockets EXCEPT ![p.turn] = Add(@, m.captured[1][2], 1)]
  ELSE p.pockets

Apply(p, m) ==
  LET next == [p EXCEPT !.board = Moved(p, m), !.pockets = Pocketed(p, m),
                        !.castling = IF m.drop = "none" THEN UpdateCastlingRights(@, m) ELSE @,
                        !.ep = IF m.kind = "double" /\ Rank(m.from) = (IF p.turn = "w" THEN 1 ELSE 6)
                               THEN m.from + Forward(p.turn) ELSE None,
                        !.turn = Opposite(p.turn)]
  IN IF p.variant = "threecheck" /\ InCheck(next, next.turn)
     THEN [next EXCEPT !.checks[p.turn] = @ + 1] ELSE next

IsLegalAfter(p, next) ==
  LET us == p.turn
      them == Opposite(us)
      king == FindKing(next.board, us)
  IN CASE p.variant = "atomic" -> king # None /\ (FindKing(next.board, them) = None \/ ~InCheck(next, us))
       [] p.variant = "racingkings" -> ~InCheck(next, us) /\ ~InCheck(next, them)
       [] OTHER -> IF king = None THEN p.variant = "horde" ELSE ~IsSquareAttacked(next.board, king, them)

TakesKing(m) == Capturing(m) /\ m.captured[1][2] = "k"

GenerateLegalMoves(p) ==
  {m \in GeneratePseudoLegal(p) : (p.variant = "atomic" \/ ~TakesKing(m)) /\ IsLegalAfter(p, Apply(p, m))}

-----------------------------------------------------------------------------
(* When a game is over by the board. *)

Over(reason, winner) == [over |-> TRUE, reason |-> reason, winner |-> winner]
Ongoing == [over |-> FALSE, reason |-> "none", winner |-> "none"]

Center == {SquareAt(f, r) : f \in {3, 4}, r \in {3, 4}}

\* If White's king arrives first, Black has one move to draw level.
RacingKingsResult(p) ==
  LET home(c) == FindKing(p.board, c) # None /\ Rank(FindKing(p.board, c)) = 7
  IN CASE home("w") /\ home("b") -> Over("variant_draw", "none")
       [] home("b") /\ ~home("w") -> Over("variant_win", "b")
       [] /\ home("w") /\ ~home("b")
          /\ p.turn = "b" => \A m \in GenerateLegalMoves(p) : m.piece[2] = "k" => Rank(m.to) # 7
            -> Over("variant_win", "w")
       [] OTHER -> Ongoing

Centered(p) == {c \in Color : FindKing(p.board, c) \in Center}
Kingless(p) == {c \in Color : FindKing(p.board, c) = None}

VariantTerminalStatus(p) ==
  CASE p.variant = "kingofthehill" /\ Centered(p) # {} ->
         Over("variant_win", IF "w" \in Centered(p) THEN "w" ELSE "b")
    [] p.variant = "threecheck" /\ (\E c \in Color : p.checks[c] >= 3) ->
         Over("variant_win", IF p.checks["w"] >= 3 THEN "w" ELSE "b")
    [] p.variant = "atomic" /\ Kingless(p) # {} -> Over("variant_win", IF "w" \in Kingless(p) THEN "b" ELSE "w")
    [] p.variant = "racingkings" -> RacingKingsResult(p)
    [] p.variant = "horde" /\ (\A s \in DOMAIN p.board : p.board[s][1] = "b") -> Over("variant_win", "b")
    [] OTHER -> Ongoing

HasInsufficientMaterial(p) ==
  LET rest == {s \in DOMAIN p.board : p.board[s][2] # "k"}
      bishops == {s \in rest : p.board[s][2] = "b"}
  IN /\ p.variant \in {"standard", "chess960"}
     /\ \/ rest = {}
        \/ Cardinality(rest) = 1 /\ \A s \in rest : p.board[s][2] \in {"b", "n"}
        \/ rest = bishops /\ Cardinality({(File(s) + Rank(s)) % 2 : s \in bishops}) = 1

Status(p) ==
  IF VariantTerminalStatus(p).over THEN VariantTerminalStatus(p)
  ELSE IF GenerateLegalMoves(p) = {}
       THEN IF InCheck(p, p.turn) THEN Over("checkmate", Opposite(p.turn)) ELSE Over("stalemate", "none")
  ELSE IF HasInsufficientMaterial(p) THEN Over("insufficient_material", "none")
  ELSE Ongoing

-----------------------------------------------------------------------------
(* Validation of a position that is read (position-validator.ts), and the  *)
(* castling field of a FEN.                                                *)

Kings(p, c) == Cardinality(Of(p.board, <<c, "k">>))

IsValid(p) ==
  /\ Kings(p, "w") = (IF p.variant = "horde" THEN 0 ELSE 1) /\ Kings(p, "b") = 1
  /\ p.variant \in {"atomic", "horde"} \/ ~IsAdjacent(FindKing(p.board, "w"), FindKing(p.board, "b"))
  /\ CASE p.variant = "racingkings" -> ~InCheck(p, "w") /\ ~InCheck(p, "b")
       [] p.variant = "horde" -> p.turn = "w" => ~InCheck(p, "b")
       [] OTHER -> ~InCheck(p, Opposite(p.turn))
  /\ \A c \in Color, t \in PieceType : p.pockets[c][t] > 0 => p.variant = "crazyhouse" /\ t # "k"

RookFiles(b, c) == {File(s) : s \in {r \in Of(b, <<c, "r">>) : Rank(r) = BackRank(c)}}

\* Mutant: every right is written as K or Q.
Outermost_Always(b, c, side, file) == TRUE

Outermost(b, c, side, file) ==
  \A f \in RookFiles(b, c) : IF side = "k" THEN f <= file ELSE f >= file

\* A letter names the side, for its outermost rook, or the file of an inner one.
FormatCastlingField(rights, b) ==
  {LET file == rights[c][side]
   IN IF Outermost(b, c, side, file) THEN [color |-> c, side |-> side, file |-> None]
                                     ELSE [color |-> c, side |-> "none", file |-> file] :
     <<c, side>> \in {r \in Color \X {"k", "q"} : rights[r[1]][r[2]] # None}}

BackRankKingFile(b, c) ==
  IF FindKing(b, c) # None /\ Rank(FindKing(b, c)) = BackRank(c) THEN File(FindKing(b, c)) ELSE None

Farthest(files, side) == CHOOSE f \in files : \A g \in files : IF side = "k" THEN g <= f ELSE g >= f

\* The files a letter may give to a right of c on a side.
NamedFiles(letter, c, side, b) ==
  LET king == BackRankKingFile(b, c)
      there == {f \in RookFiles(b, c) : IF side = "k" THEN f > king ELSE f < king}
  IN IF king = None \/ letter.color # c \/ there = {} THEN {}
     ELSE IF letter.side = side THEN {Farthest(there, side)}
     ELSE IF letter.side = "none" THEN {letter.file} \cap there
     ELSE {}

ParseCastlingField(field, b) ==
  [c \in Color |-> [side \in {"k", "q"} |->
     LET files == UNION {NamedFiles(letter, c, side, b) : letter \in field}
     IN IF files = {} THEN None ELSE CHOOSE f \in files : TRUE]]

-----------------------------------------------------------------------------
(* How moves are written. *)

\* Chess960 castling is king takes rook.
ToUci(p, m) ==
  [drop |-> m.drop, from |-> m.from, to |-> IF m.rook # None /\ p.variant = "chess960" THEN m.rook ELSE m.to,
   promotion |-> m.promotion]

\* Mutant: castling is looked for by the king's square in Chess960 too.
MayBeStep_Castle(p, m) == TRUE

MayBeStep(p, m) == ~(p.variant = "chess960" /\ m.rook # None)

\* The moves of `legal` that the text fits; the first of them is played.
ResolveUci(p, legal, uci) ==
  LET drops == {m \in legal : m.drop = uci.drop /\ m.to = uci.to}
      steps == {m \in legal : MayBeStep(p, m) /\ m.from = uci.from /\ m.to = uci.to /\ m.promotion = uci.promotion}
      castles == {m \in legal : m.rook # None /\ m.from = uci.from /\ m.rook = uci.to}
  IN IF uci.drop # "none" THEN drops
     ELSE IF steps = {} /\ uci.promotion = "none" /\ p.variant = "chess960" THEN castles
     ELSE steps

\* In the code a drop comes from the square -1, of file h and a rank of its own.
FileOfOrigin(m) == IF m.from = None THEN 7 ELSE File(m.from)
RankOfOrigin(m) == IF m.from = None THEN None ELSE Rank(m.from)

Disambiguate(legal, m) ==
  LET same == {o \in legal : o.to = m.to /\ o.piece[2] = m.piece[2] /\ o.from # m.from}
      sharesFile == \E o \in same : FileOfOrigin(o) = File(m.from)
      sharesRank == \E o \in same : RankOfOrigin(o) = Rank(m.from)
  IN [file |-> IF same # {} /\ (~sharesFile \/ sharesRank) THEN File(m.from) ELSE None,
      rank |-> IF same # {} /\ sharesFile THEN Rank(m.from) ELSE None]

NoOrigin == [file |-> None, rank |-> None]

ToSan(legal, m) ==
  LET says(what, origin) ==
        [what |-> what, drop |-> m.drop, origin |-> origin, takes |-> Capturing(m), to |-> m.to, promotion |-> m.promotion]
  IN IF m.kind \in {"k", "q"} THEN [says(m.kind, NoOrigin) EXCEPT !.to = None]
     ELSE IF m.drop # "none" THEN says(m.drop, NoOrigin)
     ELSE IF m.piece[2] = "p"
          THEN says("p", IF Capturing(m) THEN [NoOrigin EXCEPT !.file = File(m.from)] ELSE NoOrigin)
     ELSE says(m.piece[2], Disambiguate(legal, m))

-----------------------------------------------------------------------------
Assumptions == MaxPlies \in Nat /\ \A p \in Positions : p.variant \in Variant /\ IsValid(p)

Init == pos \in Positions /\ plies = 0 /\ start = pos /\ touched = {}

Changed(b, c) == {s \in DOMAIN b \cup DOMAIN c : ~(s \in DOMAIN b /\ s \in DOMAIN c) \/ b[s] # c[s]}

Around(m) == IF pos.variant = "atomic" /\ Capturing(m) THEN KingSquares[m.to] \ {m.from} ELSE {}

Play(m) ==
  /\ pos' = Apply(pos, m) /\ plies' = plies + 1
  /\ touched' = touched \cup ({m.from, m.to} \ {None}) \cup (Changed(pos.board, pos'.board) \ Around(m))
  /\ UNCHANGED start

Next == plies < MaxPlies /\ ~Status(pos).over /\ \E m \in GenerateLegalMoves(pos) : Play(m)

Spec == Init /\ [][Next]_vars

-----------------------------------------------------------------------------
KingTakers(p) == {r \in GeneratePseudoLegal(p) : TakesKing(r)}

\* Replies that take the king, but in an explosion only if the replying king survives.
Threats(p) == {r \in KingTakers(p) : p.variant = "atomic" => p.turn \notin Kingless(Apply(p, r))}

\* The king on a square it passes when it castles, and the other side to move.
Passing(p, m, s) ==
  [p EXCEPT !.board = With(Without(p.board, {m.from}), s, m.piece), !.turn = Opposite(p.turn)]

\* What legality means, told by the moves the other side would have.
ShouldBeLegal(p, m) ==
  LET next == Apply(p, m)
  IN /\ p.variant = "atomic" => p.turn \notin Kingless(next)
     /\ p.variant # "atomic" => ~TakesKing(m)
     /\ (p.variant = "atomic" /\ next.turn \in Kingless(next)) \/ Threats(next) = {}
     /\ p.variant = "racingkings" => KingTakers([next EXCEPT !.turn = p.turn]) = {}
     /\ m.rook # None => \A s \in Between(m.from, m.to) : Threats(Passing(p, m, s)) = {}

\* A move is legal just when no reply could take the king it leaves, nor the king that
\* castles on its way (generateLegalMoves and isSquareAttacked, which looks from the
\* king outwards, against the generator).
LegalMovesAreSafe ==
  LET legal == GenerateLegalMoves(pos)
  IN \A m \in GeneratePseudoLegal(pos) : m \in legal <=> ShouldBeLegal(pos, m)

Count(b, c, t) == Cardinality(Of(b, <<c, t>>))
One(condition) == IF condition THEN 1 ELSE 0

\* A move loses and duplicates no piece: not in a castle whose squares overlap, nor in a
\* capture in passing; an explosion takes no pawn but the two of its capture.  One piece
\* comes to the pocket for a capture, of the type that stood on the board: a queen that was
\* a pawn comes back a queen.  The code keeps no mark of promotion, so what movegen.ts:475
\* says of it, "Demoted pieces return as pawns per Crazyhouse rules", is not so (applyMove).
MaterialIsConserved ==
  \A m \in GenerateLegalMoves(pos) :
    LET next == Apply(pos, m)
        us == pos.turn
        them == Opposite(us)
        took(t) == One(Capturing(m) /\ m.captured[1][2] = t)
    IN IF pos.variant = "atomic" /\ Capturing(m)
       THEN /\ Count(next.board, us, "p") + One(m.piece[2] = "p") = Count(pos.board, us, "p")
            /\ Count(next.board, them, "p") + took("p") = Count(pos.board, them, "p")
            /\ \A c \in Color, t \in PieceType : Count(next.board, c, t) <= Count(pos.board, c, t)
       ELSE \A t \in PieceType :
              /\ Count(next.board, us, t) + One(m.promotion # "none" /\ t = "p")
                   = Count(pos.board, us, t) + One(m.promotion = t) + One(m.drop = t)
              /\ Count(next.board, them, t) + took(t) = Count(pos.board, them, t)
              /\ pos.variant = "crazyhouse" =>
                   next.pockets[us][t] + One(m.drop = t) = pos.pockets[us][t] + took(t)

\* A right is held just as long as no move was made with its king or its rook, or took that
\* rook; both then stand where they did, unless an explosion removed them, which leaves the
\* right: movegen.ts:380-381, "Rights are kept in step with the board on every move", is
\* not so in atomic.  Written and read back, a right names the same rook as long as both
\* stand, and the moves are the same even when they do not (updateCastlingRights, explode,
\* the castling field).
RightsAreTrue ==
  LET home(c, side) == SquareAt(start.castling[c][side], BackRank(c))
      quiet(c, side) ==
        start.castling[c][side] # None /\ {FindKing(start.board, c), home(c, side)} \cap touched = {}
      stand(c, side) == /\ home(c, side) \in Of(pos.board, <<c, "r">>)
                        /\ FindKing(pos.board, c) = FindKing(start.board, c)
      readBack == ParseCastlingField(FormatCastlingField(pos.castling, pos.board), pos.board)
  IN /\ \A c \in Color, side \in {"k", "q"} :
          /\ pos.castling[c][side] = IF quiet(c, side) THEN start.castling[c][side] ELSE None
          /\ quiet(c, side) /\ pos.variant # "atomic" => stand(c, side)
          /\ ~quiet(c, side) \/ stand(c, side) => readBack[c][side] = pos.castling[c][side]
     /\ readBack # pos.castling => GenerateLegalMoves([pos EXCEPT !.castling = readBack]) = GenerateLegalMoves(pos)

\* Where a pawn may be taken in passing, it has just passed (applyMove's epSquare).
EnPassantIsReal ==
  pos.ep # None =>
    /\ {pos.ep, pos.ep + Forward(pos.turn)} \cap DOMAIN pos.board = {}
    /\ pos.ep - Forward(pos.turn) \in Of(pos.board, <<Opposite(pos.turn), "p">>)

\* A position play has led to can be read back, unless a king has exploded
\* (validatePositionSemantics).
PositionsStayValid == IsValid(pos) \/ (pos.variant = "atomic" /\ Kingless(pos) # {})

\* No two legal moves are written alike, and what is written is the move that is played
\* (toUci and resolveUci, toSan).
MovesAreNamed ==
  LET legal == GenerateLegalMoves(pos)
  IN /\ \A m \in legal : ResolveUci(pos, legal, ToUci(pos, m)) = {m}
     /\ Cardinality({ToSan(legal, m) : m \in legal}) = Cardinality(legal)

RulesHold ==
  /\ LegalMovesAreSafe /\ MaterialIsConserved /\ RightsAreTrue /\ EnPassantIsReal /\ PositionsStayValid
  /\ MovesAreNamed
=============================================================================

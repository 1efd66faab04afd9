----------------------------- MODULE Evaluator -----------------------------
(***************************************************************************)
(* chess/evaluator.cpp: the static evaluation the engine searches with.    *)
(* Every component is White's score less Black's.                          *)
(***************************************************************************)
EXTENDS Chess

PIECE_VALUE == [P |-> 100, N |-> 320, B |-> 330, R |-> 500, Q |-> 900, K |-> 20000]

(* The piece-square tables, entry s + 1 for square s, as the file has them. *)
PST == [P |-> <<0, 0, 0, 0, 0, 0, 0, 0, 50, 50, 50, 50, 50, 50, 50, 50,
              10, 10, 20, 30, 30, 20, 10, 10, 5, 5, 10, 25, 25, 10, 5, 5,
              0, 0, 0, 20, 20, 0, 0, 0, 5, -5, -10, 0, 0, -10, -5, 5,
              5, 10, 10, -20, -20, 10, 10, 5, 0, 0, 0, 0, 0, 0, 0, 0>>,
        N |-> <<-50, -40, -30, -30, -30, -30, -40, -50, -40, -20, 0, 0, 0, 0, -20, -40,
              -30, 0, 10, 15, 15, 10, 0, -30, -30, 5, 15, 20, 20, 15, 5, -30,
              -30, 0, 15, 20, 20, 15, 0, -30, -30, 5, 10, 15, 15, 10, 5, -30,
              -40, -20, 0, 5, 5, 0, -20, -40, -50, -40, -30, -30, -30, -30, -40, -50>>,
        B |-> <<-20, -10, -10, -10, -10, -10, -10, -20, -10, 0, 0, 0, 0, 0, 0, -10,
              -10, 0, 5, 10, 10, 5, 0, -10, -10, 5, 5, 10, 10, 5, 5, -10,
              -10, 0, 10, 10, 10, 10, 0, -10, -10, 10, 10, 10, 10, 10, 10, -10,
              -10, 5, 0, 0, 0, 0, 5, -10, -20, -10, -10, -10, -10, -10, -10, -20>>,
        R |-> <<0, 0, 0, 0, 0, 0, 0, 0, 5, 10, 10, 10, 10, 10, 10, 5,
              -5, 0, 0, 0, 0, 0, 0, -5, -5, 0, 0, 0, 0, 0, 0, -5,
              -5, 0, 0, 0, 0, 0, 0, -5, -5, 0, 0, 0, 0, 0, 0, -5,
              -5, 0, 0, 0, 0, 0, 0, -5, 0, 0, 0, 5, 5, 0, 0, 0>>,
        Q |-> <<-20, -10, -10, -5, -5, -10, -10, -20, -10, 0, 0, 0, 0, 0, 0, -10,
              -10, 0, 5, 5, 5, 5, 0, -10, -5, 0, 5, 5, 5, 5, 0, -5,
              0, 0, 5, 5, 5, 5, 0, -5, -10, 5, 5, 5, 5, 5, 0, -10,
              -10, 0, 5, 0, 0, 0, 0, -10, -20, -10, -10, -5, -5, -10, -10, -20>>,
        K |-> <<-30, -40, -40, -50, -50, -40, -40, -30, -30, -40, -40, -50, -50, -40, -40, -30,
              -30, -40, -40, -50, -50, -40, -40, -30, -30, -40, -40, -50, -50, -40, -40, -30,
              -20, -30, -30, -40, -40, -30, -30, -20, -10, -20, -20, -20, -20, -20, -20, -10,
              20, 20, 0, 0, 0, 0, 20, 20, 20, 30, 10, 0, 0, 10, 30, 20>>]

PAWN_SHIELD_BONUS == 10
KING_OPEN_FILE_PENALTY == -25
DOUBLED_PAWN_PENALTY == -15
ISOLATED_PAWN_PENALTY == -20
PASSED_PAWN_BONUS == <<0, 10, 15, 25, 40, 60, 90, 0>>
MOBILITY_WEIGHT == 4
BISHOP_PAIR_BONUS == 30

(* sq ^ 56: the square seen from the other side. *)
Flip(s) == make_square(7 - rank_of(s), file_of(s))
Men(b, c, t) == {s \in DOMAIN b : b[s] = <<c, t>>}
(* The values of a function, added up. *)
Total(f) ==
    LET total[S \in SUBSET DOMAIN f] ==
            IF S = {} THEN 0 ELSE LET x == CHOOSE x \in S : TRUE IN f[x] + total[S \ {x}]
    IN total[DOMAIN f]

Near(f) == {g \in 0..7 : g \in (f - 1)..(f + 1)}

(* pst_bonus *)
pst_bonusMutant(t, c, s) == PST[t][s + 1]
pst_bonus(t, c, s) == PST[t][(IF c = "b" THEN Flip(s) ELSE s) + 1]

evaluate_king_safety(b, c, king) ==
    LET ahead == rank_of(king) + Up(c)
        home == IF c = "w" THEN rank_of(king) <= 1 ELSE rank_of(king) >= 6
        shield == IF home THEN {f \in Near(file_of(king)) : Is(b, make_square(ahead, f), c, "P")} ELSE {}
        covered == \E s \in Men(b, c, "P") : file_of(s) = file_of(king)
    IN PAWN_SHIELD_BONUS * Cardinality(shield) + IF covered THEN 0 ELSE KING_OPEN_FILE_PENALTY

(* No opposing pawn ahead on this file or a neighbouring one. *)
IsPassed(b, c, s) ==
    \A x \in Men(b, Opposite(c), "P") :
        file_of(x) \in Near(file_of(s)) =>
            IF c = "w" THEN rank_of(x) <= rank_of(s) ELSE rank_of(x) >= rank_of(s)

evaluate_pawn_structure(b, c) ==
    LET pawns == Men(b, c, "P")
        on(f) == {s \in pawns : file_of(s) = f}
        of(s) == (IF Cardinality(on(file_of(s))) > 1 THEN DOUBLED_PAWN_PENALTY ELSE 0)
                 + (IF \A f \in Near(file_of(s)) \ {file_of(s)} : on(f) = {}
                    THEN ISOLATED_PAWN_PENALTY ELSE 0)
                 + (IF IsPassed(b, c, s)
                    THEN PASSED_PAWN_BONUS[1 + IF c = "w" THEN rank_of(s) ELSE 7 - rank_of(s)] ELSE 0)
    IN Total([s \in pawns |-> of(s)])

(* The side to move is set, the moves counted, and the side set back. *)
count_mobility(p, c) == Cardinality(generate_pseudo_legal_moves([p EXCEPT !.side = c]))
count_bishops(b, c) == Cardinality(Men(b, c, "B"))

SideScore(p, c) ==
    LET b == p.board
        mine == {s \in DOMAIN b : b[s][1] = c}
        king == find_king(b, c)
    IN Total([s \in mine |-> PIECE_VALUE[b[s][2]] + pst_bonus(b[s][2], c, s)])
       + (IF king = NoSquare THEN 0 ELSE evaluate_king_safety(b, c, king))
       + evaluate_pawn_structure(b, c)
       + MOBILITY_WEIGHT * count_mobility(p, c)
       + (IF count_bishops(b, c) >= 2 THEN BISHOP_PAIR_BONUS ELSE 0)

evaluate_detailed(p) == SideScore(p, "w") - SideScore(p, "b")
evaluate(p) == IF p.side = "w" THEN evaluate_detailed(p) ELSE -evaluate_detailed(p)

-----------------------------------------------------------------------------
(* The position with the colours exchanged. *)
Mirror(p) ==
    [p EXCEPT !.board = [s \in {Flip(x) : x \in DOMAIN p.board} |->
                            <<Opposite(p.board[Flip(s)][1]), p.board[Flip(s)][2]>>],
              !.side = Opposite(@),
              !.rights = {CASE r = "K" -> "k" [] r = "k" -> "K" [] r = "Q" -> "q" [] r = "q" -> "Q" : r \in @},
              !.ep = IF @ = NoSquare THEN @ ELSE Flip(@)]

(* The evaluation has no favourite colour: the mirrored position, with the *)
(* other side to move, is worth the same to the side to move.  The search  *)
(* negates scores between plies and relies on it.                          *)
EvaluationIsFair == Playing => evaluate(Mirror(pos)) = evaluate(pos)
=============================================================================

------------------------------- MODULE Chess --------------------------------
(***************************************************************************)
(* The rules of the game as chess/board.cpp, chess/move_gen.cpp and        *)
(* chess/zobrist.cpp implement them: make and undo, move generation and    *)
(* the incremental position key.                                           *)
(*                                                                         *)
(* The mailbox is a function whose domain is the occupied squares; a       *)
(* square is 8 * rank + file as in core/types.h.  A 64-bit key is the set  *)
(* of the random words that were XORed into it, which is exact as long as  *)
(* no two sets of words collide.                                           *)
(***************************************************************************)
EXTENDS Integers, FiniteSets, FiniteSetsExt, Sequences, SequencesExt

CONSTANT Openings      \* games to play: [pos, book, plies], the position to start
                       \* from, moves it begins with, and the bound on its length

Squares == 0..63
NoSquare == 64
rank_of(s) == s \div 8
file_of(s) == s % 8
OnBoard(r, f) == r \in 0..7 /\ f \in 0..7
make_square(r, f) == 8 * r + f
Opposite(c) == IF c = "w" THEN "b" ELSE "w"
Up(c) == IF c = "w" THEN 1 ELSE -1

Is(b, s, c, t) == s \in DOMAIN b /\ b[s] = <<c, t>>
Empty(b, s) == s \notin DOMAIN b
Mine(b, s, c) == s \in DOMAIN b /\ b[s][1] = c
Lift(b, ss) == [s \in DOMAIN b \ ss |-> b[s]]
Put(b, s, p) == [x \in DOMAIN b \cup {s} |-> IF x = s THEN p ELSE b[x]]

-----------------------------------------------------------------------------
(* zobrist::compute_hash *)
PieceKey(b, s) == <<"piece", b[s], s>>
EpKey(ep) == IF ep = NoSquare THEN {} ELSE {<<"ep", file_of(ep)>>}
SideKey(c) == IF c = "b" THEN {<<"side">>} ELSE {}
compute_hash(p) == {PieceKey(p.board, s) : s \in DOMAIN p.board} \cup SideKey(p.side)
                   \cup {<<"castling", p.rights>>} \cup EpKey(p.ep)

-----------------------------------------------------------------------------
(* Board::make_move.  A move is [from, to, kind, promo]; kind is the flag. *)
HomeRank(c) == IF c = "w" THEN 0 ELSE 7
Rook(m) == IF m.kind = "kingside" THEN [from |-> 7, to |-> 5] ELSE [from |-> 0, to |-> 3]
RookFrom(m) == make_square(rank_of(m.from), Rook(m).from)
RookTo(m) == make_square(rank_of(m.from), Rook(m).to)
Castles(m) == m.kind \in {"kingside", "queenside"}

(* Where the captured man stands: beside the pawn for en passant. *)
CapturedAt(c, m) == IF m.kind = "ep" THEN m.to - 8 * Up(c) ELSE m.to

(* update_castling_rights: a right goes with its king, and with its rook's *)
(* corner whether the rook leaves it or is taken there.                    *)
Corner == [K |-> 7, Q |-> 0, k |-> 63, q |-> 56]
KingHome == [K |-> 4, Q |-> 4, k |-> 60, q |-> 60]
Revoked(m) == {r \in DOMAIN Corner : m.from = KingHome[r] \/ Corner[r] \in {m.from, m.to}}

Passed(c, m) == IF m.kind = "double" THEN m.to - 8 * Up(c) ELSE NoSquare

TakenKeyMutant(c, m, taken) == IF taken = << >> THEN {} ELSE {<<"piece", taken, m.to>>}
TakenKey(c, m, taken) == IF taken = << >> THEN {} ELSE {<<"piece", taken, CapturedAt(c, m)>>}

(* The incremental key: every word that changes is XORed once. *)
k ## w == SymDiff(k, w)
KeyAfter(p, b1, m, man, taken, ep, rights) ==
    LET rook == <<man[1], "R">>
    IN p.key ## {<<"piece", man, m.from>>}
             ## (IF Castles(m) THEN {<<"piece", rook, RookFrom(m)>>, <<"piece", rook, RookTo(m)>>} ELSE {})
             ## TakenKey(man[1], m, taken) ## {<<"piece", b1[m.to], m.to>>}
             ## EpKey(p.ep) ## EpKey(ep)
             ## {<<"castling", p.rights>>} ## {<<"castling", rights>>} ## {<<"side">>}

Taken(b, m) == LET s == CapturedAt(b[m.from][1], m) IN IF Empty(b, s) THEN << >> ELSE b[s]

MenAfter(b, m) ==
    LET c == b[m.from][1]
        bare == Lift(b, {m.from, CapturedAt(c, m)} \cup IF Castles(m) THEN {RookFrom(m)} ELSE {})
        set == Put(bare, m.to, IF m.promo = "" THEN b[m.from] ELSE <<c, m.promo>>)
    IN IF Castles(m) THEN Put(set, RookTo(m), b[RookFrom(m)]) ELSE set

make_move(p, m) ==
    LET man == p.board[m.from]
        taken == Taken(p.board, m)
        b1 == MenAfter(p.board, m)
        rights == p.rights \ Revoked(m)
        ep == Passed(man[1], m)
    IN [board |-> b1, side |-> Opposite(p.side), rights |-> rights, ep |-> ep,
        half |-> IF man[2] = "P" \/ taken # << >> THEN 0 ELSE p.half + 1,
        full |-> IF p.side = "b" THEN p.full + 1 ELSE p.full,
        key |-> KeyAfter(p, b1, m, man, taken, ep, rights)]

(* What make_move returns for undo_move to restore. *)
UndoInfo(p, m) == [captured |-> Taken(p.board, m),
                   rights |-> p.rights, ep |-> p.ep, half |-> p.half, key |-> p.key]

UndoMan(p, m, c) == IF m.promo # "" THEN <<c, "P">> ELSE p.board[m.to]

undo_move(p, m, undo) ==
    LET c == Opposite(p.side)
        back == Put(Lift(p.board, {m.to} \cup IF Castles(m) THEN {RookTo(m)} ELSE {}),
                    m.from, UndoMan(p, m, c))
        men == IF undo.captured = << >> THEN back ELSE Put(back, CapturedAt(c, m), undo.captured)
    IN [board |-> IF Castles(m) THEN Put(men, RookFrom(m), p.board[RookTo(m)]) ELSE men,
        side |-> c, rights |-> undo.rights, ep |-> undo.ep, half |-> undo.half,
        full |-> IF c = "b" THEN p.full - 1 ELSE p.full, key |-> undo.key]

-----------------------------------------------------------------------------
(* move_gen *)
KnightSteps == {<<-2, -1>>, <<-2, 1>>, <<-1, -2>>, <<-1, 2>>, <<1, -2>>, <<1, 2>>, <<2, -1>>, <<2, 1>>}
RookSteps == {<<-1, 0>>, <<1, 0>>, <<0, -1>>, <<0, 1>>}
BishopSteps == {<<-1, -1>>, <<-1, 1>>, <<1, -1>>, <<1, 1>>}
KingSteps == RookSteps \cup BishopSteps

(* AttackTables: the targets on the board. *)
Targets(s, steps) ==
    {make_square(rank_of(s) + d[1], file_of(s) + d[2]) :
        d \in {e \in steps : OnBoard(rank_of(s) + e[1], file_of(s) + e[2])}}

(* A ray runs up to and including the first man it meets. *)
Ray(b, r, f, d) ==
    LET step(k) == make_square(r + k * d[1], f + k * d[2])
    IN {step(n) : n \in {k \in 1..7 : /\ OnBoard(r + k * d[1], f + k * d[2])
                                     /\ \A i \in 1..(k - 1) : Empty(b, step(i))}}

Rays(b, s, steps) == UNION {Ray(b, rank_of(s), file_of(s), d) : d \in steps}

is_square_attacked(b, s, by) ==
    \/ \E t \in Targets(s, {<<-Up(by), -1>>, <<-Up(by), 1>>}) : Is(b, t, by, "P")
    \/ \E t \in Targets(s, KnightSteps) : Is(b, t, by, "N")
    \/ \E t \in Targets(s, KingSteps) : Is(b, t, by, "K")
    \/ \E t \in Rays(b, s, RookSteps) : Is(b, t, by, "R") \/ Is(b, t, by, "Q")
    \/ \E t \in Rays(b, s, BishopSteps) : Is(b, t, by, "B") \/ Is(b, t, by, "Q")

find_king(b, c) == Min({s \in DOMAIN b : b[s] = <<c, "K">>} \cup {NoSquare})
is_in_check(b, c) == find_king(b, c) # NoSquare /\ is_square_attacked(b, find_king(b, c), Opposite(c))

Plain(s, ts) == {[from |-> s, to |-> t, kind |-> "", promo |-> ""] : t \in ts}

(* add_pawn_move: four moves for a pawn that reaches the last rank. *)
PawnTo(c, s, t, kind) ==
    {[from |-> s, to |-> t, kind |-> kind, promo |-> q] :
        q \in IF rank_of(t) = HomeRank(Opposite(c)) THEN {"Q", "R", "B", "N"} ELSE {""}}

generate_pawn_moves(p, s, c) ==
    LET b == p.board
        ahead == s + 8 * Up(c)
        single == ahead \in Squares /\ Empty(b, ahead)
        double == single /\ rank_of(s) = HomeRank(c) + Up(c) /\ Empty(b, s + 16 * Up(c))
        aside == Targets(s, {<<Up(c), -1>>, <<Up(c), 1>>})
    IN UNION ({IF single THEN PawnTo(c, s, ahead, "") ELSE {}}
              \cup {IF double THEN {[from |-> s, to |-> s + 16 * Up(c), kind |-> "double", promo |-> ""]}
                    ELSE {}}
              \cup {PawnTo(c, s, t, "") : t \in {x \in aside : Mine(b, x, Opposite(c))}}
              \cup {PawnTo(c, s, t, "ep") : t \in {x \in aside : x = p.ep /\ ~Mine(b, x, Opposite(c))}})

(* generate_king_moves: the king must not stand on or cross an attacked    *)
(* square; where it arrives is left to the legality test.                  *)
ThroughMutant(home, kind) == {home}
Through(home, kind) == {home, IF kind = "kingside" THEN home + 1 ELSE home - 1}

CastlingMoves(p, c) ==
    LET home == make_square(HomeRank(c), 4)
        right(kind) == IF kind = "kingside" THEN (IF c = "w" THEN "K" ELSE "k")
                       ELSE (IF c = "w" THEN "Q" ELSE "q")
        between(kind) == IF kind = "kingside" THEN {home + 1, home + 2}
                         ELSE {home - 1, home - 2, home - 3}
        open(kind) == /\ right(kind) \in p.rights
                      /\ \A s \in between(kind) : Empty(p.board, s)
                      /\ \A s \in Through(home, kind) : ~is_square_attacked(p.board, s, Opposite(c))
    IN {[from |-> home, to |-> IF kind = "kingside" THEN home + 2 ELSE home - 2,
         kind |-> kind, promo |-> ""] : kind \in {k \in {"kingside", "queenside"} : open(k)}}

MovesOf(p, s) ==
    LET b == p.board  c == b[s][1]
        free(ts) == {t \in ts : ~Mine(b, t, c)}
    IN CASE b[s][2] = "P" -> generate_pawn_moves(p, s, c)
         [] b[s][2] = "N" -> Plain(s, free(Targets(s, KnightSteps)))
         [] b[s][2] = "B" -> Plain(s, free(Rays(b, s, BishopSteps)))
         [] b[s][2] = "R" -> Plain(s, free(Rays(b, s, RookSteps)))
         [] b[s][2] = "Q" -> Plain(s, free(Rays(b, s, KingSteps)))
         [] b[s][2] = "K" -> Plain(s, free(Targets(s, KingSteps))) \cup CastlingMoves(p, c)

generate_pseudo_legal_moves(p) ==
    UNION {MovesOf(p, s) : s \in {x \in DOMAIN p.board : p.board[x][1] = p.side}}

generate_legal_moves(p) ==
    {m \in generate_pseudo_legal_moves(p) : ~is_in_check(MenAfter(p.board, m), p.side)}

get_game_status(p, legal) ==
    IF p.half >= 100 THEN "fifty"
    ELSE IF legal # {} THEN "ongoing"
    ELSE IF is_in_check(p.board, p.side) THEN "checkmate" ELSE "stalemate"

-----------------------------------------------------------------------------
(* A castling right needs its king and its rook at home. *)
RightsBacked(p) ==
    \A r \in p.rights : LET c == IF r \in {"K", "Q"} THEN "w" ELSE "b"
                        IN Is(p.board, KingHome[r], c, "K") /\ Is(p.board, Corner[r], c, "R")

(* What a position of a game is: one king of each colour, that of the side *)
(* which has just moved not in check, rights that are backed, and an en    *)
(* passant square only behind a pawn that passed it.                       *)
Pieces == {"w", "b"} \X {"P", "N", "B", "R", "Q", "K"}
IsBoard(b) == DOMAIN b \subseteq Squares /\ b = [s \in DOMAIN b |-> b[s]] /\ \A s \in DOMAIN b : b[s] \in Pieces
OneKing(b, c) == \E k \in DOMAIN b : \A s \in DOMAIN b : b[s] = <<c, "K">> <=> s = k
PawnPassed(p) ==
    p.ep # NoSquare =>
        /\ p.ep \in Squares /\ rank_of(p.ep) = IF p.side = "w" THEN 5 ELSE 2
        /\ Empty(p.board, p.ep) /\ Is(p.board, p.ep - 8 * Up(p.side), Opposite(p.side), "P")
IsPosition(p) ==
    /\ IsBoard(p.board) /\ p.side \in {"w", "b"} /\ p.half \in Nat /\ p.full \in Nat
    /\ p.rights \subseteq DOMAIN Corner /\ RightsBacked(p) /\ PawnPassed(p)
    /\ OneKing(p.board, "w") /\ OneKing(p.board, "b") /\ ~is_in_check(p.board, Opposite(p.side))

(* Games begin with starting_position, or later in a game.  set_from_fen   *)
(* reads any men and rights, for analyze_position too: of what is no       *)
(* position of a game nothing is said here.                                *)
ASSUME OpeningsAssumption == \A o \in DOMAIN Openings : IsPosition(Openings[o].pos)

-----------------------------------------------------------------------------
(* A game from an opening: submit_move plays one of the legal moves until  *)
(* the status ends it.  The opening's book narrows the first moves.        *)
VARIABLES opening,    \* where the game began; 0 while there is none
          pos,        \* Board
          line        \* move_history_

chessVars == <<opening, pos, line>>

Playing == opening # 0

NoMove == [from |-> 0, to |-> 0, kind |-> "", promo |-> ""]

Keyed(p) == [board |-> p.board, side |-> p.side, rights |-> p.rights, ep |-> p.ep,
             half |-> p.half, full |-> p.full, key |-> compute_hash(p)]

Begin(o) == Keyed(Openings[o].pos)
InBook(o, n, m) == n \in DOMAIN Openings[o].book => <<m.from, m.to>> = Openings[o].book[n]

ChessInit == opening \in DOMAIN Openings /\ pos = Begin(opening) /\ line = << >>

Play(m) == /\ Len(line) < Openings[opening].plies /\ pos.half < 100
           /\ InBook(opening, Len(line) + 1, m)
           /\ pos' = make_move(pos, m) /\ line' = Append(line, m) /\ UNCHANGED opening

ChessNext == \E m \in generate_legal_moves(pos) : Play(m)

ChessSpec == ChessInit /\ [][ChessNext]_chessVars

-----------------------------------------------------------------------------
(***************************************************************************)
(* The rules of chess, stated once more and without the generator: what a  *)
(* man attacks is a matter of geometry and of what stands between.         *)
(***************************************************************************)
Abs(n) == IF n < 0 THEN -n ELSE n
Between(s, t) ==
    LET dr == rank_of(t) - rank_of(s)  df == file_of(t) - file_of(s)
        n == IF Abs(dr) > Abs(df) THEN Abs(dr) ELSE Abs(df)
    IN {s + k * (8 * (dr \div n) + (df \div n)) : k \in 1..(n - 1)}

Attacks(b, s, t) ==
    LET dr == rank_of(t) - rank_of(s)  df == file_of(t) - file_of(s)
        straight == (dr = 0) # (df = 0)
        diagonal == dr # 0 /\ Abs(dr) = Abs(df)
        clear == \A x \in Between(s, t) : Empty(b, x)
    IN CASE b[s][2] = "P" -> dr = Up(b[s][1]) /\ Abs(df) = 1
         [] b[s][2] = "N" -> {Abs(dr), Abs(df)} = {1, 2}
         [] b[s][2] = "K" -> s # t /\ Abs(dr) <= 1 /\ Abs(df) <= 1
         [] b[s][2] = "R" -> straight /\ clear
         [] b[s][2] = "B" -> diagonal /\ clear
         [] b[s][2] = "Q" -> (straight \/ diagonal) /\ clear

Attacked(b, t, by) == \E s \in DOMAIN b : b[s][1] = by /\ s # t /\ Attacks(b, s, t)

(* The men after a move from s to t, told from where they stand. *)
AfterRules(b, s, t) ==
    LET man == b[s]
        beside == IF man[2] = "P" /\ file_of(s) # file_of(t) /\ Empty(b, t)
                  THEN {make_square(rank_of(s), file_of(t))} ELSE {}
        castle == man[2] = "K" /\ Abs(t - s) = 2
        corner == IF t > s THEN s + 3 ELSE s - 4
        b1 == Put(Lift(b, {s} \cup beside), t, man)
    IN IF castle THEN Put(Lift(b1, {corner}), (s + t) \div 2, b[corner]) ELSE b1

Reaches(b, s, t, passed) ==
    LET c == b[s][1]  dr == rank_of(t) - rank_of(s)
    IN IF b[s][2] # "P" THEN Attacks(b, s, t)
       ELSE \/ /\ file_of(s) = file_of(t) /\ Empty(b, t)
               /\ \/ dr = Up(c)
                  \/ dr = 2 * Up(c) /\ rank_of(s) = HomeRank(c) + Up(c) /\ Empty(b, (s + t) \div 2)
            \/ Attacks(b, s, t) /\ (~Empty(b, t) \/ t = passed)

(* The square a pawn has just passed over in two steps. *)
JustPassed(p, m) == IF Is(p.board, m.to, Opposite(p.side), "P") /\ Abs(m.to - m.from) = 16
                    THEN (m.from + m.to) \div 2 ELSE NoSquare

CastlesByRule(p, s, t) ==
    /\ s = make_square(HomeRank(p.side), 4) /\ t \in {s - 2, s + 2}
    /\ (IF t > s THEN (IF p.side = "w" THEN "K" ELSE "k")
                 ELSE (IF p.side = "w" THEN "Q" ELSE "q")) \in p.rights
    /\ \A x \in Between(s, IF t > s THEN s + 3 ELSE s - 4) : Empty(p.board, x)
    /\ \A x \in {s, t} \cup Between(s, t) : ~Attacked(p.board, x, Opposite(p.side))

MovesByRule(p, passed) ==
    {st \in {x \in DOMAIN p.board : p.board[x][1] = p.side} \X Squares :
        LET s == st[1]  t == st[2]
        IN /\ \/ Reaches(p.board, s, t, passed) /\ ~Mine(p.board, t, p.side)
              \/ p.board[s][2] = "K" /\ CastlesByRule(p, s, t)
           /\ LET b == AfterRules(p.board, s, t)
              IN ~Attacked(b, CHOOSE k \in DOMAIN b : b[k] = <<p.side, "K">>, Opposite(p.side))}

-----------------------------------------------------------------------------
(* The generator finds exactly the moves of the rules: pins, also across   *)
(* two pawns in an en passant capture, checks, castling through attacked   *)
(* squares and captures on the castling corners included; and they tell    *)
(* mate from stalemate.                                                    *)
LegalMovesAreTheRules ==
    Playing =>
    LET legal == generate_legal_moves(pos)
        rules == MovesByRule(pos, IF line = << >> THEN pos.ep ELSE JustPassed(pos, Last(line)))
    IN /\ {<<m.from, m.to>> : m \in legal} = rules
       /\ pos.half < 100 => (get_game_status(pos, legal) = "ongoing") = (rules # {})

(* undo_move takes back every pseudo-legal move: the generator and the     *)
(* search make and undo moves on one board and never copy it.              *)
UndoRestores ==
    Playing => \A m \in generate_pseudo_legal_moves(pos) :
        undo_move(make_move(pos, m), m, UndoInfo(pos, m)) = pos

(* The key that is kept up move by move is the key of the position: the    *)
(* transposition table and the search's repetition test rely on it.        *)
KeyIsThePosition == Playing => pos.key = compute_hash(pos)

(* A castling right is never held without its king and its rook at home,   *)
(* whichever way they went: make_move would castle with whatever stands in *)
(* the corner.                                                             *)
RightsAreBacked == Playing => RightsBacked(pos)

(* Making a move keeps key and castling rights true to the board, and      *)
(* undoing it gives the position back.                                     *)
PositionsAreSound == UndoRestores /\ KeyIsThePosition /\ RightsAreBacked

=============================================================================

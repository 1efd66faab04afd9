------------------------------ MODULE Notation ------------------------------
(***************************************************************************)
(* Positions and moves in writing: FEN (chess/board.cpp), UCI (Move),      *)
(* SAN and PGN (chess/notation.cpp), the matching of a written move        *)
(* against the legal ones (game_room.cpp, game_query_service.cpp,          *)
(* analysis_service.cpp) and the replay of a stored game.                  *)
(*                                                                         *)
(* A text is the sequence or record of its tokens; a square's name is its  *)
(* file and its rank.                                                      *)
(***************************************************************************)
EXTENDS Chess

square_to_algebraic(s) == <<file_of(s), rank_of(s)>>
algebraic_to_square(a) == IF Len(a) = 2 /\ OnBoard(a[2], a[1]) THEN make_square(a[2], a[1]) ELSE NoSquare

-----------------------------------------------------------------------------
(* Board::to_fen: the men of a rank with the lengths of the gaps. *)
Flush(tokens, gap) == IF gap > 0 THEN Append(tokens, <<"gap", gap>>) ELSE tokens

RankText(b, r) ==
    LET step(acc, f) ==
            LET s == make_square(r, f)
            IN IF Empty(b, s) THEN [acc EXCEPT !.gap = @ + 1]
               ELSE [tokens |-> Append(Flush(acc.tokens, acc.gap), <<"man", b[s][1], b[s][2]>>),
                     gap |-> 0]
        end == FoldLeft(step, [tokens |-> << >>, gap |-> 0], [i \in 1..8 |-> i - 1])
    IN Flush(end.tokens, end.gap)

to_fen(p) ==
    [men |-> FoldLeft(LAMBDA acc, r : acc \o RankText(p.board, r)
                                      \o (IF r > 0 THEN << <<"slash">> >> ELSE << >>),
                      << >>, [i \in 1..8 |-> 8 - i]),
     side |-> p.side,
     castling |-> SelectSeq(<<"K", "Q", "k", "q">>, LAMBDA r : r \in p.rights),
     ep |-> IF p.ep = NoSquare THEN << >> ELSE square_to_algebraic(p.ep),
     half |-> p.half, full |-> p.full]

(* Board::set_from_fen: refused, or the position with its key computed. *)
RankFull(file) == file = 8

PlaceToken(acc, t) ==
    CASE ~acc.ok -> acc
      [] acc.ok /\ t[1] = "slash" ->
            [acc EXCEPT !.ok = RankFull(acc.file), !.rank = @ - 1, !.file = 0]
      [] acc.ok /\ t[1] = "gap" ->
            [acc EXCEPT !.ok = t[2] \in 1..8 /\ acc.file + t[2] <= 8, !.file = @ + t[2]]
      [] acc.ok /\ t[1] = "man" ->
            IF acc.file >= 8 THEN [acc EXCEPT !.ok = FALSE]
            ELSE [acc EXCEPT !.board = Put(@, make_square(acc.rank, acc.file), <<t[2], t[3]>>),
                             !.file = @ + 1]

Refused == [ok |-> FALSE]
set_from_fen(fen) ==
    LET read == FoldLeft(PlaceToken, [ok |-> TRUE, rank |-> 7, file |-> 0, board |-> << >>], fen.men)
        ep == IF fen.ep = << >> THEN NoSquare ELSE algebraic_to_square(fen.ep)
    IN IF /\ read.ok /\ read.rank = 0 /\ read.file = 8
          /\ fen.side \in {"w", "b"} /\ ToSet(fen.castling) \subseteq DOMAIN Corner
          /\ fen.ep # << >> => ep # NoSquare
          /\ fen.half >= 0 /\ fen.full >= 1
       THEN [ok |-> TRUE,
             pos |-> Keyed([board |-> read.board, side |-> fen.side, rights |-> ToSet(fen.castling),
                            ep |-> ep, half |-> fen.half, full |-> fen.full])]
       ELSE Refused

STARTING_FEN ==
    LET men(c) == [i \in 1..8 |-> <<"man", c, <<"R", "N", "B", "Q", "K", "B", "N", "R">>[i]>>]
        pawns(c) == [i \in 1..8 |-> <<"man", c, "P">>]
        bar == << <<"slash">> >>
        blank == << <<"gap", 8>>, <<"slash">> >>
    IN [men |-> men("b") \o bar \o pawns("b") \o bar \o blank \o blank \o blank \o blank
                \o pawns("w") \o bar \o men("w"),
        side |-> "w", castling |-> <<"K", "Q", "k", "q">>, ep |-> << >>, half |-> 0, full |-> 1]

starting_position == set_from_fen(STARTING_FEN).pos

-----------------------------------------------------------------------------
(* Move::to_uci and from_uci: the squares and the promotion, and nothing   *)
(* of the other flags, which only the generator can restore.               *)
to_uci(m) == [from |-> square_to_algebraic(m.from), to |-> square_to_algebraic(m.to), promo |-> m.promo]
from_uci(u) ==
    LET from == algebraic_to_square(u.from)  to == algebraic_to_square(u.to)
    IN IF NoSquare \in {from, to} \/ u.promo \notin {"", "Q", "R", "B", "N"} THEN NoMove
       ELSE [from |-> from, to |-> to, kind |-> "", promo |-> u.promo]

(* The first of some moves in the generator's order: by square, and the    *)
(* queen before the other promotions.                                      *)
First(ms) ==
    IF ms = {} THEN NoMove
    ELSE LET low == {m \in ms : \A n \in ms : m.from <= n.from}
         IN CHOOSE m \in low : m.promo \in {"", "Q"} \/ \A n \in low : n.promo \notin {"", "Q"}

(* resolve_legal, of the replay and of the analysis. *)
resolve_legalMutant(legal, probe) == First({m \in legal : m.from = probe.from /\ m.to = probe.to})
resolve_legal(legal, probe) ==
    First({m \in legal : /\ m.from = probe.from /\ m.to = probe.to
                         /\ probe.promo # "" => m.promo = probe.promo})

(* GameRoom::submit_move's search for the move it was asked to make. *)
match_move(legal, from, to, promo) ==
    First({m \in legal : /\ m.from = from /\ m.to = to
                         /\ m.promo # "" => m.promo = IF promo = "" THEN "Q" ELSE promo})

-----------------------------------------------------------------------------
(* notation::move_to_san; legal is generate_legal_moves(p). *)
Rivals(p, legal, m) ==
    {n \in legal :
        n.from # m.from /\ n.to = m.to /\ p.board[n.from][2] = p.board[m.from][2]}
NeedRank(m, rivals) == \E n \in rivals : file_of(n.from) = file_of(m.from)
NeedFile(m, rivals) == \E n \in rivals : file_of(n.from) # file_of(m.from)

CheckMark(p, m) ==
    LET after == make_move(p, m)
    IN IF ~is_in_check(after.board, Opposite(p.side)) THEN ""
       ELSE IF generate_legal_moves(after) = {} THEN "#" ELSE "+"

move_to_san(p, legal, m) ==
    LET man == p.board[m.from][2]
        takes == ~Empty(p.board, m.to) \/ m.kind = "ep"
        rivals == IF man = "P" THEN {} ELSE Rivals(p, legal, m)
    IN IF Castles(m)
       THEN [castle |-> m.kind, man |-> "K", file |-> -1, rank |-> -1, takes |-> FALSE,
             to |-> << >>, promo |-> "", mark |-> ""]
       ELSE [castle |-> "", man |-> man,
             file |-> IF NeedFile(m, rivals) \/ (man = "P" /\ takes) THEN file_of(m.from) ELSE -1,
             rank |-> IF NeedRank(m, rivals) THEN rank_of(m.from) ELSE -1,
             takes |-> takes, to |-> square_to_algebraic(m.to), promo |-> m.promo,
             mark |-> CheckMark(p, m)]

(* notation::san_to_move: a castling is taken at its word; another move is *)
(* the first legal one that fits, a bare pawn move to the last rank also a *)
(* promotion to a queen.                                                   *)
SanFits(p, san, m) ==
    /\ m.to = algebraic_to_square(san.to) /\ p.board[m.from][2] = san.man
    /\ san.file >= 0 => file_of(m.from) = san.file

san_to_move(p, legal, san) ==
    LET king == find_king(p.board, p.side)
        fits == {m \in legal : SanFits(p, san, m)}
        exact == {m \in fits : m.promo = san.promo /\ (san.rank >= 0 => rank_of(m.from) = san.rank)}
        shorthand == {m \in fits : san.promo = "" /\ san.man = "P" /\ m.promo = "Q"}
    IN IF san.castle # ""
       THEN [from |-> king, kind |-> san.castle, promo |-> "",
             to |-> make_square(rank_of(king), IF san.castle = "kingside" THEN 6 ELSE 2)]
       ELSE First(IF exact # {} THEN exact ELSE shorthand)

-----------------------------------------------------------------------------
(* notation::export_pgn and import_pgn.  A token is what import_pgn asks   *)
(* of it: its kind, the brackets it opens less those it closes, and        *)
(* whether it ends in a closing brace.                                     *)
Token(kind, val) == [kind |-> kind, val |-> val, nest |-> 0, ends |-> FALSE]

export_pgn(moves, result) ==
    LET step(acc, i) ==
            LET number == IF i % 2 = 1 THEN <<Token("number", i)>> ELSE << >>
            IN [board |-> make_move(acc.board, moves[i]),
                text |-> acc.text \o number \o <<Token("san", move_to_san(acc.board, generate_legal_moves(acc.board), moves[i]))>>]
    IN Append(FoldLeftDomain(step, [board |-> starting_position, text |-> << >>], moves).text,
              Token("result", result))

(* The brackets of a variation still open after a token inside it. *)
StillOpen(depth, t) == depth + t.nest

(* One token: skipped inside a comment or a variation, or by its kind; the *)
(* first move that cannot be read ends the reading, as the result does.    *)
ImportToken(acc, t) ==
    LET m == san_to_move(acc.board, generate_legal_moves(acc.board), t.val)
    IN CASE acc.done -> acc
         [] ~acc.done /\ acc.brace -> [acc EXCEPT !.brace = ~t.ends]
         [] ~acc.done /\ ~acc.brace /\ acc.depth > 0 -> [acc EXCEPT !.depth = StillOpen(@, t)]
         [] ~acc.done /\ ~acc.brace /\ acc.depth <= 0 /\ t.kind \in {"number", "nag"} -> acc
         [] ~acc.done /\ ~acc.brace /\ acc.depth <= 0 /\ t.kind = "result" ->
                [acc EXCEPT !.done = TRUE, !.result = t.val]
         [] ~acc.done /\ ~acc.brace /\ acc.depth <= 0 /\ t.kind = "comment" -> [acc EXCEPT !.brace = ~t.ends]
         [] ~acc.done /\ ~acc.brace /\ acc.depth <= 0 /\ t.kind = "variation" -> [acc EXCEPT !.depth = t.nest]
         [] ~acc.done /\ ~acc.brace /\ acc.depth <= 0 /\ t.kind = "san" ->
                IF m = NoMove THEN [acc EXCEPT !.done = TRUE]
                ELSE [acc EXCEPT !.moves = Append(@, m), !.board = make_move(@, m)]

import_pgn(text) ==
    FoldLeft(ImportToken, [board |-> starting_position, moves |-> << >>, result |-> "*",
                           brace |-> FALSE, depth |-> 0, done |-> FALSE], text)

-----------------------------------------------------------------------------
(* GameQueryService::get_game and AnalysisService::analyze_game: the       *)
(* stored UCI moves are played again from the start, each resolved against *)
(* the legal moves; a move that is not one of them ends the replay.        *)
StoredMoves(moves) == [i \in DOMAIN moves |-> to_uci(moves[i])]

ReplayStep(acc, u) ==
    LET legal == generate_legal_moves(acc.pos)
        m == resolve_legal(legal, from_uci(u))
    IN IF ~acc.ok THEN acc
       ELSE IF m.from = 0 /\ m.to = 0 THEN [acc EXCEPT !.ok = FALSE]
       ELSE [ok |-> TRUE, pos |-> make_move(acc.pos, m),
             plies |-> Append(acc.plies, [san |-> move_to_san(acc.pos, legal, m), side |-> acc.pos.side,
                                          fen |-> to_fen(make_move(acc.pos, m))])]

get_game(start, stored) == FoldLeft(ReplayStep, [ok |-> TRUE, pos |-> start, plies |-> << >>], stored)

-----------------------------------------------------------------------------
(* A FEN of the program is read back as the very position, its key         *)
(* included, and one whose placement lost or doubled a token is refused.   *)
FenRoundTrip ==
    Playing =>
    LET fen == to_fen(pos)
    IN set_from_fen(fen) = [ok |-> TRUE, pos |-> pos]

TornFenRefused ==
    Playing =>
    LET fen == to_fen(pos)
    IN \A i \in DOMAIN fen.men :
          /\ ~set_from_fen([fen EXCEPT !.men = RemoveAt(@, i)]).ok
          /\ ~set_from_fen([fen EXCEPT !.men = InsertAt(@, i, fen.men[i])]).ok

(* Every legal move, written in SAN or UCI and read again in the same      *)
(* position, is the same move with the same flags: by the replay, by the   *)
(* room that a client answers with one of the moves it was sent, and by    *)
(* the reader of a PGN.                                                    *)
WrittenMovesReadBack ==
    Playing =>
    LET legal == generate_legal_moves(pos)
    IN \A m \in legal :
          LET u == from_uci(to_uci(m))
          IN /\ san_to_move(pos, legal, move_to_san(pos, legal, m)) = m
             /\ resolve_legal(legal, u) = m
             /\ match_move(legal, u.from, u.to, u.promo) = m

(* A stored game is replayed to the position the room ended with. *)
StoredGameReplays ==
    Playing =>
    LET replay == get_game(Begin(opening), StoredMoves(line))
    IN replay.ok /\ replay.pos = pos /\ Len(replay.plies) = Len(line)

(* Annotations that a PGN may carry between any two tokens; a pawn never   *)
(* moves to the first rank.                                                *)
NotAMove == [castle |-> "", man |-> "P", file |-> -1, rank |-> -1, takes |-> FALSE,
             to |-> <<0, 0>>, promo |-> "", mark |-> ""]
Noise == { << Token("nag", 1) >>,
           << [Token("comment", "") EXCEPT !.ends = TRUE] >>,
           << Token("comment", ""), Token("result", "*"), [Token("number", 1) EXCEPT !.ends = TRUE] >>,
           << [Token("variation", "") EXCEPT !.nest = 1], [Token("number", 1) EXCEPT !.nest = 1],
              [Token("san", NotAMove) EXCEPT !.nest = -1], [Token("san", NotAMove) EXCEPT !.nest = -1] >> }

(* The PGN of a game is read back as its moves and result, whatever        *)
(* comments, glyphs and nested variations are put between its tokens.      *)
PgnRoundTrip ==
    Playing /\ line # << >> /\ Begin(opening) = starting_position =>
        LET text == export_pgn(line, "1-0")
        IN \A noise \in {<< >>} \cup Noise :
              LET read == import_pgn(FlattenSeq([i \in DOMAIN text |-> noise \o <<text[i]>>]))
              IN read.moves = line /\ read.result = "1-0"

(* Positions, moves and games are read back as they were written, and a    *)
(* damaged position is refused.                                            *)
TextsReadBack ==
    /\ FenRoundTrip
    /\ TornFenRefused
    /\ WrittenMovesReadBack
    /\ StoredGameReplays
    /\ PgnRoundTrip

=============================================================================

------------------------------- MODULE Engine -------------------------------
(***************************************************************************)
(* chess/engine.cpp and chess/transposition_table.cpp: iterative deepening *)
(* over alpha-beta with quiescence, and the table that one Engine keeps    *)
(* from search to search.                                                  *)
(*                                                                         *)
(* A game is a finite graph of positions, each with its moves, its static  *)
(* evaluation and whether the side to move is in check; a position without *)
(* moves is mate or stalemate.  Positions that differ only in the halfmove *)
(* clock are one position to the table's key and are not in the graphs.    *)
(* Time is counted in calls of time_up(): a search is given a number of    *)
(* calls after which the answer is yes, and stays yes.                     *)
(***************************************************************************)
EXTENDS Integers, FiniteSets, Sequences, SequencesExt, FiniteSetsExt

CONSTANTS Graphs,            \* games: sequences of positions [moves, eval, check, drawn]
          Slots,             \* entries of the table (mask_ + 1)
          Budgets,           \* calls of time_up() before time is up
          QuiescencePly,     \* the bound on quiescence (64 in the code)
          MaxSearches        \* bound: searches of one Engine

SCORE_INFINITY == 1000000
SCORE_MATE == 900000
SCORE_DRAW == 0
TT_MATE_BOUND == 800000

VARIABLES graph,      \* the game this Engine plays
          tt,         \* entries_ and age_
          searches,   \* searches made
          report      \* the last search: [root, limit, before, result, time]

engineVars == <<graph, tt, searches, report>>

NoTTMove == [to |-> 0, gain |-> 0, noisy |-> FALSE]
EmptySlot == [key |-> 0, move |-> NoTTMove, score |-> 0, depth |-> 0, type |-> "none", age |-> 0]

-----------------------------------------------------------------------------
(* The table.  Mate scores are stored as seen from the position itself. *)
score_to_tt(score, ply) ==
    IF score >= TT_MATE_BOUND THEN score + ply
    ELSE IF score <= -TT_MATE_BOUND THEN score - ply ELSE score
score_from_tt(score, ply) ==
    IF score >= TT_MATE_BOUND THEN score - ply
    ELSE IF score <= -TT_MATE_BOUND THEN score + ply ELSE score

SlotOf(key) == key % Slots

Replaces(entry, age, key, depth, type) ==
    \/ entry.key = 0
    \/ entry.key = key /\ (depth >= entry.depth \/ type = "exact")
    \/ entry.key \notin {0, key} /\ (entry.age # age \/ depth >= entry.depth)

store(t, key, depth, ply, score, type, move) ==
    LET old == t.entries[SlotOf(key)]
        kept == IF move = NoTTMove /\ old.key = key THEN old.move ELSE move
    IN IF ~Replaces(old, t.age, key, depth, type) THEN t
       ELSE [t EXCEPT !.entries[SlotOf(key)] =
                [key |-> key, move |-> kept, score |-> score_to_tt(score, ply),
                 depth |-> depth, type |-> type, age |-> t.age]]

CutsMutant(entry, score, alpha, beta) == TRUE
Cuts(entry, score, alpha, beta) ==
    \/ entry.type = "exact"
    \/ entry.type = "lower" /\ score >= beta
    \/ entry.type = "upper" /\ score <= alpha

probe(t, key, depth, ply, alpha, beta) ==
    LET entry == t.entries[SlotOf(key)]
        score == score_from_tt(entry.score, ply)
        hit == entry.key = key /\ entry.type # "none"
    IN [cut |-> hit /\ entry.depth >= depth /\ Cuts(entry, score, alpha, beta),
        score |-> score, move |-> IF hit THEN entry.move ELSE NoTTMove]

probe_move(t, key, otherwise) ==
    LET entry == t.entries[SlotOf(key)]
    IN IF entry.key = key /\ entry.type # "none" THEN entry.move ELSE otherwise

-----------------------------------------------------------------------------
(* order_moves: the table's move, captures by MVV-LVA, quiet moves. *)
OrderScore(m, first) == IF first # NoTTMove /\ m = first THEN 30000 ELSE m.gain
order_moves(moves, first) ==
    LET before(i, j) == \/ OrderScore(moves[i], first) > OrderScore(moves[j], first)
                        \/ OrderScore(moves[i], first) = OrderScore(moves[j], first) /\ i < j
        order == SetToSortSeq(DOMAIN moves, before)
    IN [i \in DOMAIN moves |-> moves[order[i]]]

(* A search in progress is its table, its clock and the score to return. *)
Tick(s) == [s EXCEPT !.calls = @ + 1]
TimeUp(s) == s.calls > s.budget
Return(s, score) == [s EXCEPT !.score = score]
Larger(a, b) == IF a > b THEN a ELSE b

Ended(node, ply) == IF node.check THEN -(SCORE_MATE - ply) ELSE SCORE_DRAW

RECURSIVE quiescence(_, _, _, _, _, _), QuietLoop(_, _, _, _, _, _, _, _)
quiescence(s, g, n, ply, alpha, beta) ==
    LET s1 == Tick(s)
        node == g[n]
        moves == order_moves(node.moves, NoTTMove)
        considered == SelectSeq(moves, LAMBDA m : node.check \/ m.noisy)
    IN IF TimeUp(s1) THEN Return(s1, 0)
       ELSE IF node.moves = << >> THEN Return(s1, Ended(node, ply))
       ELSE IF node.drawn THEN Return(s1, SCORE_DRAW)
       ELSE IF ply >= QuiescencePly THEN Return(s1, node.eval)
       ELSE IF ~node.check /\ node.eval >= beta THEN Return(s1, node.eval)
       ELSE QuietLoop(s1, g, considered, 1, ply,
                      IF node.check THEN alpha ELSE Larger(alpha, node.eval), beta, n)
QuietLoop(s, g, moves, i, ply, alpha, beta, n) ==
    IF i > Len(moves) THEN Return(s, alpha)
    ELSE LET s1 == quiescence(s, g, moves[i].to, ply + 1, -beta, -alpha)
             s2 == Tick(s1)
         IN IF TimeUp(s2) THEN Return(s2, 0)
            ELSE IF -s1.score >= beta THEN Return(s2, -s1.score)
            ELSE QuietLoop(s2, g, moves, i + 1, ply, Larger(alpha, -s1.score), beta, n)

NodeType(best, alpha, beta) == IF best >= beta THEN "lower" ELSE IF best > alpha THEN "exact" ELSE "upper"

(* The end of alpha_beta: the result is stored unless time ran out. *)
Conclude(s, n, depth, ply, best, move, alpha, beta) ==
    LET s1 == Tick(s)
    IN IF TimeUp(s1) THEN Return(s1, best)
       ELSE Return([s1 EXCEPT !.tt = store(@, n, depth, ply, best, NodeType(best, alpha, beta), move)], best)

RECURSIVE alpha_beta(_, _, _, _, _, _, _), MoveLoop(_, _, _, _, _, _, _, _, _)
alpha_beta(s, g, n, depth, ply, alpha, beta) ==
    LET s1 == Tick(s)
        node == g[n]
        found == probe(s1.tt, n, depth, ply, alpha, beta)
        moves == order_moves(node.moves, found.move)
    IN IF TimeUp(s1) THEN Return(s1, 0)
       ELSE IF node.drawn THEN Return(s1, SCORE_DRAW)
       ELSE IF found.cut THEN Return(s1, found.score)
       ELSE IF depth = 0 THEN quiescence(s1, g, n, ply, alpha, beta)
       ELSE IF moves = << >> THEN Return(s1, Ended(node, ply))
       ELSE MoveLoop(s1, g, moves, 1, depth, ply, [alpha |-> alpha, beta |-> beta, from |-> alpha],
                     [score |-> -SCORE_INFINITY, move |-> moves[1]], n)
MoveLoop(s, g, moves, i, depth, ply, window, best, n) ==
    LET s1 == alpha_beta(s, g, moves[i].to, depth - 1, ply + 1, -window.beta, -window.alpha)
        s2 == Tick(s1)
        score == -s1.score
        best1 == IF score > best.score THEN [score |-> score, move |-> moves[i]] ELSE best
        alpha == Larger(window.alpha, score)
    IN IF TimeUp(s2) THEN Return(s2, best.score)
       ELSE IF alpha >= window.beta \/ i = Len(moves)
       THEN Conclude(s2, n, depth, ply, best1.score, best1.move, window.from, window.beta)
       ELSE MoveLoop(s2, g, moves, i + 1, depth, ply, [window EXCEPT !.alpha = alpha], best1, n)

-----------------------------------------------------------------------------
(* Engine::search: one depth at the root, then the next. *)
RECURSIVE RootLoop(_, _, _, _, _, _), Deepen(_, _, _, _, _, _, _)
RootLoop(s, g, moves, i, depth, best) ==
    LET s1 == Tick(s)
        s2 == alpha_beta(s1, g, moves[i].to, depth - 1, 1, -SCORE_INFINITY, -best.score)
    IN IF i > Len(moves) THEN [s |-> s, best |-> best]
       ELSE IF TimeUp(s1) THEN [s |-> s1, best |-> best]
       ELSE RootLoop(s2, g, moves, i + 1, depth,
                     IF -s2.score > best.score THEN [score |-> -s2.score, move |-> moves[i]] ELSE best)

Completed(s) == ~TimeUp(s)

IsMate(score) == score >= SCORE_MATE - 100 \/ score <= -(SCORE_MATE - 100)

Deepen(s, g, root, moves, depth, limit, result) ==
    LET s1 == Tick(s)
        ordered == order_moves(moves, probe_move(s1.tt, root, result.move))
        done == RootLoop(s1, g, ordered, 1, depth, [score |-> -SCORE_INFINITY, move |-> ordered[1]])
        s2 == Tick(done.s)
        result1 == IF Completed(s2)
                   THEN [move |-> done.best.move, score |-> done.best.score, depth |-> depth]
                   ELSE result
        s3 == IF Completed(s2)
              THEN [s2 EXCEPT !.tt = store(@, root, depth, 0, done.best.score, "exact", done.best.move)]
              ELSE s2
    IN IF depth > limit \/ TimeUp(s1) THEN [tt |-> s.tt, result |-> result]
       ELSE IF IsMate(result1.score) THEN [tt |-> s3.tt, result |-> result1]
       ELSE Deepen(s3, g, root, ordered, depth + 1, limit, result1)

search(table, g, root, budget, limit) ==
    LET moves == g[root].moves
        fresh == [tt |-> [table EXCEPT !.age = (@ + 1) % 256], calls |-> 0, budget |-> budget, score |-> 0]
    IN IF moves = << >> THEN [tt |-> fresh.tt, result |-> [move |-> NoTTMove, score |-> 0, depth |-> 0]]
       ELSE Deepen(fresh, g, root, moves, 1, limit, [move |-> moves[1], score |-> 0, depth |-> 0])

-----------------------------------------------------------------------------
NoReport == [root |-> 0, limit |-> 0]

EngineInit == /\ graph \in DOMAIN Graphs /\ searches = 0 /\ report = NoReport
              /\ tt = [entries |-> [i \in 0..(Slots - 1) |-> EmptySlot], age |-> 0]

(* EngineMoveSelector::select and the analysis: a position is set, and     *)
(* searched to a depth and a time of the caller's choice.  A game that is  *)
(* drawn by its clock has ended and is not searched.                       *)
Select(root, limit, budget) ==
    LET g == Graphs[graph]
        found == search(tt, g, root, budget, limit)
    IN /\ searches < MaxSearches /\ ~g[root].drawn
       /\ tt' = found.tt /\ searches' = searches + 1
       /\ report' = [root |-> root, limit |-> limit, before |-> tt, result |-> found.result]
       /\ UNCHANGED graph

EngineNext == \E root \in DOMAIN Graphs[graph], budget \in Budgets : \E limit \in 1..Len(Graphs[graph]) :
                 Select(root, limit, budget)

-----------------------------------------------------------------------------
(* What the game is worth to the side to move, by minimax to the end. *)
RECURSIVE Worth(_, _, _)
Worth(g, n, ply) ==
    IF g[n].drawn THEN SCORE_DRAW
    ELSE IF g[n].moves = << >> THEN Ended(g[n], ply)
    ELSE Max({-Worth(g, m.to, ply + 1) : m \in ToSet(g[n].moves)})

RECURSIVE Height(_, _)
Height(g, n) == IF g[n].drawn \/ g[n].moves = << >> THEN 0
                ELSE 1 + Max({Height(g, m.to) : m \in ToSet(g[n].moves)})

Searched == report.root # 0 /\ report.result.depth > 0

(* A mate the engine announces is there, in no more moves than announced,  *)
(* whatever earlier searches of other positions, cut short by the clock,   *)
(* left in the table.                                                      *)
MateIsForced ==
    Searched /\ IsMate(report.result.score) =>
        LET worth == Worth(Graphs[graph], report.root, 0)
        IN IF report.result.score > 0 THEN worth >= report.result.score
           ELSE worth <= report.result.score

(* A search that saw the game to its end returns its minimax value and a   *)
(* move that keeps it: neither the cut-offs nor the table change it.       *)
SolvedGamesAreSolved ==
    LET g == Graphs[graph]
    IN Searched /\ report.result.depth >= Height(g, report.root) =>
          /\ report.result.score = Worth(g, report.root, 0)
          /\ -Worth(g, report.result.move.to, 1) = Worth(g, report.root, 0)

(* Time running out in the middle of a depth leaves the answer of the last *)
(* depth that was searched to its end.                                     *)
AnswerOfTheLastFullDepth ==
    Searched => report.result = search(report.before, Graphs[graph], report.root, 1000000,
                                       report.result.depth).result

(* Cut-offs, a table that outlives its search and a clock that stops it    *)
(* change the time a search takes, not what it claims.                     *)
SearchIsHonest == MateIsForced /\ SolvedGamesAreSolved /\ AnswerOfTheLastFullDepth

=============================================================================

---------------------------- MODULE ChessProofs ----------------------------
(***************************************************************************)
(* Games of chess from any openings that are positions of a game.  Making  *)
(* a move keeps the position key and the castling rights true to the       *)
(* board, and undoing it gives the position back; and the legal moves of   *)
(* the generator, which works with attack tables, rays and a board it      *)
(* makes moves on, are the moves of the rules, which know squares only.    *)
(*                                                                         *)
(* Both rest on one invariant: every position of a game is a position      *)
(* (IsPosition), so nobody can take a king and nobody castles with what    *)
(* is not his king and his rook.  The second is then a matter of geometry: *)
(* AttackedAgrees for checks, LegalByRules and RulesAreLegal for moves.    *)
(*                                                                         *)
(* The evaluation is fair because each of its parts is: MirrorOf relates a *)
(* board to the one seen from the other side, attacks and moves carry over *)
(* (AttacksFlipped, PseudoFlipped), and the sums and counts of the score   *)
(* run along the bijection between the two (TotalMoved, FlipImage).        *)
(***************************************************************************)
EXTENDS Evaluator, FiniteSetTheorems, WellFoundedInduction, NaturalsInduction, TLAPS

-----------------------------------------------------------------------------
(* Squares and lines *)

(* A square is its rank and its file. *)
LEMMA SquareParts ==
    ASSUME NEW s \in Squares
    PROVE  rank_of(s) \in 0..7 /\ file_of(s) \in 0..7 /\ s = make_square(rank_of(s), file_of(s))
BY DEF Squares, rank_of, file_of, make_square

(* Every rank and file make a square. *)
LEMMA MadeSquare ==
    ASSUME NEW r \in 0..7, NEW f \in 0..7
    PROVE  /\ make_square(r, f) \in Squares
           /\ rank_of(make_square(r, f)) = r /\ file_of(make_square(r, f)) = f
BY DEF Squares, rank_of, file_of, make_square

(* The steps of the sliding men go both ways. *)
Straight(d) == d[1] \in {-1, 0, 1} /\ d[2] \in {-1, 0, 1} /\ (d[1] = 0 <=> d[2] # 0)
Diagonal(d) == d[1] \in {-1, 1} /\ d[2] \in {-1, 1}

(* The steps of the rook. *)
LEMMA RookStepsAre ==
    /\ \A d \in RookSteps : Straight(d)
    /\ \A x, y \in {-1, 0, 1} : Straight(<<x, y>>) => <<x, y>> \in RookSteps
BY DEF RookSteps, Straight

(* The steps of the bishop. *)
LEMMA BishopStepsAre ==
    /\ \A d \in BishopSteps : Diagonal(d)
    /\ \A x, y \in {-1, 1} : <<x, y>> \in BishopSteps
BY DEF BishopSteps, Diagonal

(* The steps of the king. *)
LEMMA KingStepsAre ==
    /\ \A d \in KingSteps : Straight(d) \/ Diagonal(d)
    /\ \A x, y \in {-1, 0, 1} : x # 0 \/ y # 0 => <<x, y>> \in KingSteps
BY RookStepsAre, BishopStepsAre DEF KingSteps, Straight

(* The steps of the knight. *)
LEMMA KnightStepsAre ==
    /\ \A d \in KnightSteps : \/ d[1] \in {-1, 1} /\ d[2] \in {-2, 2}
                              \/ d[1] \in {-2, 2} /\ d[2] \in {-1, 1}
    /\ \A x \in {-1, 1}, y \in {-2, 2} : <<x, y>> \in KnightSteps /\ <<y, x>> \in KnightSteps
BY DEF KnightSteps


-----------------------------------------------------------------------------
(* Lines of sight *)

Sees(b, s, t, x, y) ==
    \E k \in 1..7 : /\ rank_of(t) = rank_of(s) + k * x /\ file_of(t) = file_of(s) + k * y
                    /\ \A i \in 1..(k - 1) :
                          Empty(b, make_square(rank_of(s) + i * x, file_of(s) + i * y))

(* A ray holds the squares that are seen along it. *)
LEMMA RaySees ==
    ASSUME NEW b, NEW s \in Squares, NEW t \in Squares, NEW d, d[1] \in {-1, 0, 1}, d[2] \in {-1, 0, 1}
    PROVE  t \in Ray(b, rank_of(s), file_of(s), d) <=> Sees(b, s, t, d[1], d[2])
<1> DEFINE r(k) == rank_of(s) + k * d[1]
           f(k) == file_of(s) + k * d[2]
           Clear(k) == \A i \in 1..(k - 1) : Empty(b, make_square(r(i), f(i)))
<1>1. \A k \in 1..7 : r(k) \in Int /\ f(k) \in Int
  BY SquareParts
<1>2. \A k \in 1..7 : OnBoard(r(k), f(k)) /\ t = make_square(r(k), f(k))
                      <=> rank_of(t) = r(k) /\ file_of(t) = f(k)
  BY <1>1, SquareParts, MadeSquare DEF OnBoard
<1>3. t \in Ray(b, rank_of(s), file_of(s), d)
      <=> \E k \in 1..7 : OnBoard(r(k), f(k)) /\ t = make_square(r(k), f(k)) /\ Clear(k)
  BY DEF Ray
<1>4. Sees(b, s, t, d[1], d[2]) <=> \E k \in 1..7 : rank_of(t) = r(k) /\ file_of(t) = f(k) /\ Clear(k)
  BY DEF Sees
<1>. QED
  BY <1>2, <1>3, <1>4

(* Steps of a ray, repeated and turned round. *)
LEMMA Multiples ==
    ASSUME NEW x \in {-1, 0, 1}, NEW k \in Int, NEW i \in Int
    PROVE  k * x \in Int /\ (k - i) * x = k * x - i * x /\ i * (-x) = -(i * x)
<1>1. CASE x = 0
  BY <1>1
<1>2. CASE x = 1
  BY <1>2
<1>3. CASE x = -1
  BY <1>3
<1>. QED
  BY <1>1, <1>2, <1>3

(* Whoever sees is seen. *)
LEMMA SeesBack ==
    ASSUME NEW b, NEW s \in Squares, NEW t \in Squares, NEW x \in {-1, 0, 1}, NEW y \in {-1, 0, 1},
           Sees(b, s, t, x, y)
    PROVE  Sees(b, t, s, -x, -y)
<1>1. PICK k \in 1..7 :
          /\ rank_of(t) = rank_of(s) + k * x /\ file_of(t) = file_of(s) + k * y
          /\ \A i \in 1..(k - 1) : Empty(b, make_square(rank_of(s) + i * x, file_of(s) + i * y))
  BY DEF Sees
<1>2. rank_of(s) = rank_of(t) + k * (-x) /\ file_of(s) = file_of(t) + k * (-y)
  BY <1>1, Multiples, SquareParts
<1>3. ASSUME NEW i \in 1..(k - 1)
      PROVE  Empty(b, make_square(rank_of(t) + i * (-x), file_of(t) + i * (-y)))
  <2>1. k - i \in 1..(k - 1) /\ k \in Int /\ i \in Int
    OBVIOUS
  <2>2. rank_of(t) + i * (-x) = rank_of(s) + (k - i) * x
    BY <1>1, <2>1, Multiples, SquareParts
  <2>3. file_of(t) + i * (-y) = file_of(s) + (k - i) * y
    BY <1>1, <2>1, Multiples, SquareParts
  <2>. QED
    BY <1>1, <2>1, <2>2, <2>3
<1>. QED
  BY <1>2, <1>3 DEF Sees

(* What slides along ranks and files, or diagonals, sees what sees it. *)
LEMMA RaysOf ==
    ASSUME NEW b, NEW s \in Squares, NEW t \in Squares
    PROVE  /\ t \in Rays(b, s, RookSteps) <=> \E x, y \in {-1, 0, 1} : Straight(<<x, y>>) /\ Sees(b, s, t, x, y)
           /\ t \in Rays(b, s, BishopSteps) <=> \E x, y \in {-1, 1} : Sees(b, s, t, x, y)
           /\ t \in Rays(b, s, KingSteps) <=> t \in Rays(b, s, RookSteps) \/ t \in Rays(b, s, BishopSteps)
<1>1. t \in Rays(b, s, RookSteps) <=> \E d \in RookSteps : Sees(b, s, t, d[1], d[2])
  BY RaySees, RookStepsAre DEF Rays, Straight
<1>2. t \in Rays(b, s, BishopSteps) <=> \E d \in BishopSteps : Sees(b, s, t, d[1], d[2])
  BY RaySees, BishopStepsAre DEF Rays, Diagonal
<1>3. t \in Rays(b, s, KingSteps) <=> t \in Rays(b, s, RookSteps) \/ t \in Rays(b, s, BishopSteps)
  BY DEF Rays, KingSteps
<1>4. (\E d \in RookSteps : Sees(b, s, t, d[1], d[2]))
      <=> \E x, y \in {-1, 0, 1} : Straight(<<x, y>>) /\ Sees(b, s, t, x, y)
  <2>1. \A x, y \in {-1, 0, 1} : Straight(<<x, y>>) => \E d \in RookSteps : d[1] = x /\ d[2] = y
    BY RookStepsAre
  <2>2. \A d \in RookSteps : d[1] \in {-1, 0, 1} /\ d[2] \in {-1, 0, 1} /\ Straight(<<d[1], d[2]>>)
    BY RookStepsAre DEF Straight
  <2>. QED
    BY <2>1, <2>2
<1>5. (\E d \in BishopSteps : Sees(b, s, t, d[1], d[2])) <=> \E x, y \in {-1, 1} : Sees(b, s, t, x, y)
  <2>1. \A x, y \in {-1, 1} : \E d \in BishopSteps : d[1] = x /\ d[2] = y
    BY BishopStepsAre
  <2>. QED
    BY <2>1, BishopStepsAre DEF Diagonal
<1>. QED
  BY <1>1, <1>2, <1>3, <1>4, <1>5

(* A square on the rays of another has that other on its own rays. *)
LEMMA RaysBack ==
    ASSUME NEW b, NEW s \in Squares, NEW t \in Squares
    PROVE  /\ t \in Rays(b, s, RookSteps) => s \in Rays(b, t, RookSteps)
           /\ t \in Rays(b, s, BishopSteps) => s \in Rays(b, t, BishopSteps)
<1>1. ASSUME NEW x \in {-1, 0, 1}, NEW y \in {-1, 0, 1}, Straight(<<x, y>>), Sees(b, s, t, x, y)
      PROVE  s \in Rays(b, t, RookSteps)
  <2>1. Sees(b, t, s, -x, -y) /\ -x \in {-1, 0, 1} /\ -y \in {-1, 0, 1} /\ Straight(<<-x, -y>>)
    BY <1>1, SeesBack DEF Straight
  <2>. QED
    BY <2>1, RaysOf
<1>2. ASSUME NEW x \in {-1, 1}, NEW y \in {-1, 1}, Sees(b, s, t, x, y)
      PROVE  s \in Rays(b, t, BishopSteps)
  <2>1. Sees(b, t, s, -x, -y) /\ -x \in {-1, 1} /\ -y \in {-1, 1}
    BY <1>2, SeesBack
  <2>. QED
    BY <2>1, RaysOf
<1>. QED
  BY <1>1, <1>2, RaysOf


-----------------------------------------------------------------------------
(* What a man attacks, told by ranks and files *)

Rise(s, t) == rank_of(t) - rank_of(s)
Shift(s, t) == file_of(t) - file_of(s)
OnLine(s, t) == (Rise(s, t) = 0) # (Shift(s, t) = 0)
OnDiagonal(s, t) == Rise(s, t) # 0 /\ Abs(Rise(s, t)) = Abs(Shift(s, t))
Clear(b, s, t) == \A x \in Between(s, t) : Empty(b, x)

(* How far two squares lie apart. *)
LEMMA Offsets ==
    ASSUME NEW s \in Squares, NEW t \in Squares
    PROVE  Rise(s, t) \in -7..7 /\ Shift(s, t) \in -7..7
BY SquareParts DEF Rise, Shift

(* A square is a target if its distance is one of the steps. *)
LEMMA TargetsAre ==
    ASSUME NEW s \in Squares, NEW t \in Squares, NEW steps,
           \A d \in steps : d[1] \in Int /\ d[2] \in Int
    PROVE  t \in Targets(s, steps) <=> \E d \in steps : Rise(s, t) = d[1] /\ Shift(s, t) = d[2]
<1>1. ASSUME NEW x \in Int, NEW y \in Int
      PROVE  OnBoard(rank_of(s) + x, file_of(s) + y) /\ t = make_square(rank_of(s) + x, file_of(s) + y)
             <=> Rise(s, t) = x /\ Shift(s, t) = y
  <2>1. ASSUME Rise(s, t) = x, Shift(s, t) = y
        PROVE  rank_of(t) = rank_of(s) + x /\ file_of(t) = file_of(s) + y
    BY <2>1, SquareParts DEF Rise, Shift
  <2>2. ASSUME rank_of(t) = rank_of(s) + x, file_of(t) = file_of(s) + y
        PROVE  Rise(s, t) = x /\ Shift(s, t) = y
    BY <2>2, SquareParts DEF Rise, Shift
  <2>3. OnBoard(rank_of(s) + x, file_of(s) + y) /\ t = make_square(rank_of(s) + x, file_of(s) + y)
        <=> rank_of(t) = rank_of(s) + x /\ file_of(t) = file_of(s) + y
    BY SquareParts, MadeSquare DEF OnBoard
  <2>. QED
    BY <2>1, <2>2, <2>3
<1>. QED
  BY <1>1 DEF Targets

(* Targets are squares. *)
LEMMA TargetsOnBoard ==
    ASSUME NEW s, NEW steps
    PROVE  Targets(s, steps) \subseteq Squares
BY MadeSquare DEF Targets, OnBoard

(* What the knight's table holds. *)
LEMMA KnightTargets ==
    ASSUME NEW s \in Squares, NEW t \in Squares
    PROVE  t \in Targets(s, KnightSteps) <=> {Abs(Rise(s, t)), Abs(Shift(s, t))} = {1, 2}
<1>1. \A d \in KnightSteps : d[1] \in Int /\ d[2] \in Int
  BY KnightStepsAre
<1>2. t \in Targets(s, KnightSteps) <=> \E d \in KnightSteps : Rise(s, t) = d[1] /\ Shift(s, t) = d[2]
  BY <1>1, TargetsAre
<1>3. PICK r \in -7..7, f \in -7..7 : r = Rise(s, t) /\ f = Shift(s, t)
  BY Offsets
<1>4. (\E d \in KnightSteps : r = d[1] /\ f = d[2])
      <=> \/ r \in {-1, 1} /\ f \in {-2, 2}
          \/ r \in {-2, 2} /\ f \in {-1, 1}
  <2>1. \A x \in {-1, 1}, y \in {-2, 2} : /\ \E d \in KnightSteps : x = d[1] /\ y = d[2]
                                          /\ \E d \in KnightSteps : y = d[1] /\ x = d[2]
    BY KnightStepsAre
  <2>. QED
    BY <2>1, KnightStepsAre
<1>5. {Abs(r), Abs(f)} = {1, 2} <=> \/ r \in {-1, 1} /\ f \in {-2, 2}
                                    \/ r \in {-2, 2} /\ f \in {-1, 1}
  <2>1. \A p, q : {p, q} = {1, 2} <=> (p = 1 /\ q = 2) \/ (p = 2 /\ q = 1)
    <3>1. ASSUME NEW p, NEW q, {p, q} = {1, 2}
          PROVE  (p = 1 /\ q = 2) \/ (p = 2 /\ q = 1)
      <4>1. p \in {1, 2} /\ q \in {1, 2} /\ 1 \in {p, q} /\ 2 \in {p, q}
        BY <3>1, Zenon
      <4>. QED
        BY <4>1
    <3>. QED
      BY <3>1
  <2>. QED
    BY <2>1 DEF Abs
<1>. QED
  BY <1>2, <1>3, <1>4, <1>5

(* What the king's table holds. *)
LEMMA KingTargets ==
    ASSUME NEW s \in Squares, NEW t \in Squares
    PROVE  t \in Targets(s, KingSteps) <=> s # t /\ Abs(Rise(s, t)) <= 1 /\ Abs(Shift(s, t)) <= 1
<1>1. \A d \in KingSteps : d[1] \in {-1, 0, 1} /\ d[2] \in {-1, 0, 1} /\ (d[1] # 0 \/ d[2] # 0)
  BY KingStepsAre DEF Straight, Diagonal
<1>2. t \in Targets(s, KingSteps) <=> \E d \in KingSteps : Rise(s, t) = d[1] /\ Shift(s, t) = d[2]
  BY <1>1, TargetsAre
<1>3. PICK r \in -7..7, f \in -7..7 : r = Rise(s, t) /\ f = Shift(s, t)
  BY Offsets
<1>4. (\E d \in KingSteps : r = d[1] /\ f = d[2])
      <=> r \in {-1, 0, 1} /\ f \in {-1, 0, 1} /\ (r # 0 \/ f # 0)
  <2>1. \A x, y \in {-1, 0, 1} : x # 0 \/ y # 0 => \E d \in KingSteps : x = d[1] /\ y = d[2]
    BY KingStepsAre
  <2>. QED
    BY <1>1, <2>1
<1>5. s # t <=> r # 0 \/ f # 0
  BY <1>3, SquareParts DEF Rise, Shift
<1>6. /\ r \in {-1, 0, 1} <=> Abs(r) <= 1
      /\ f \in {-1, 0, 1} <=> Abs(f) <= 1
  BY DEF Abs
<1>. QED
  BY <1>2, <1>3, <1>4, <1>5, <1>6

(* What the pawn's table holds. *)
LEMMA PawnTargets ==
    ASSUME NEW s \in Squares, NEW t \in Squares, NEW u \in {-1, 1}
    PROVE  t \in Targets(s, {<<u, -1>>, <<u, 1>>}) <=> Rise(s, t) = u /\ Abs(Shift(s, t)) = 1
<1> DEFINE steps == {<<u, -1>>, <<u, 1>>}
<1>1. /\ \A d \in steps : d[1] = u /\ d[2] \in {-1, 1}
      /\ \A y \in {-1, 1} : <<u, y>> \in steps
  OBVIOUS
<1>2. \A y \in {-1, 1} : <<u, y>>[1] = u /\ <<u, y>>[2] = y
  OBVIOUS
<1> HIDE DEF steps
<1>3. t \in Targets(s, steps) <=> \E d \in steps : Rise(s, t) = d[1] /\ Shift(s, t) = d[2]
  BY <1>1, TargetsAre
<1>4. t \in Targets(s, steps) <=> Rise(s, t) = u /\ Shift(s, t) \in {-1, 1}
  BY <1>1, <1>2, <1>3
<1>5. t \in Targets(s, steps) <=> Rise(s, t) = u /\ Abs(Shift(s, t)) = 1
  BY <1>4, Offsets DEF Abs
<1>. QED
  BY <1>5 DEF steps

-----------------------------------------------------------------------------
(* Along a line the squares that are passed are those between. *)
LEMMA PassedSquares ==
    ASSUME NEW s \in Squares, NEW t \in Squares, NEW x \in {-1, 0, 1}, NEW y \in {-1, 0, 1},
           x # 0 \/ y # 0, NEW k \in 1..7, Rise(s, t) = k * x, Shift(s, t) = k * y
    PROVE  Between(s, t) = {make_square(rank_of(s) + i * x, file_of(s) + i * y) : i \in 1..(k - 1)}
<1>1. k * x \in {-k, 0, k} /\ k * y \in {-k, 0, k} /\ (k * x # 0 \/ k * y # 0)
      /\ k * x = (IF x = 0 THEN 0 ELSE IF x = 1 THEN k ELSE -k)
      /\ k * y = (IF y = 0 THEN 0 ELSE IF y = 1 THEN k ELSE -k)
  BY Multiples
<1> DEFINE n == IF Abs(k * x) > Abs(k * y) THEN Abs(k * x) ELSE Abs(k * y)
<1>2. n = k
  BY <1>1 DEF Abs
<1>3. (-k) \div k = -1 /\ 0 \div k = 0 /\ k \div k = 1
  <2>1. k = 1 \/ k = 2 \/ k = 3 \/ k = 4 \/ k = 5 \/ k = 6 \/ k = 7
    OBVIOUS
  <2>. QED
    BY <2>1
<1>4. (k * x) \div k = x /\ (k * y) \div k = y
  BY <1>1, <1>3
<1>5. Between(s, t) = {s + i * (8 * x + y) : i \in 1..(k - 1)}
  BY <1>2, <1>4 DEF Between, Rise, Shift
<1>6. ASSUME NEW i \in 1..(k - 1)
      PROVE  s + i * (8 * x + y) = make_square(rank_of(s) + i * x, file_of(s) + i * y)
  <2>1. i * (8 * x + y) = 8 * (i * x) + i * y
    <3>1. /\ x = 0 \/ x = 1 \/ x = -1
          /\ y = 0 \/ y = 1 \/ y = -1
      OBVIOUS
    <3>. QED
      BY <3>1
  <2>2. PICK ix \in Int, iy \in Int : ix = i * x /\ iy = i * y
    BY Multiples
  <2>3. s + (8 * ix + iy) = make_square(rank_of(s) + ix, file_of(s) + iy)
    BY SquareParts DEF make_square
  <2>. QED
    BY <2>1, <2>2, <2>3
<1>. QED
  BY <1>5, <1>6

(* To see along a line is to have nothing between. *)
LEMMA SeesClear ==
    ASSUME NEW b, NEW s \in Squares, NEW t \in Squares, NEW x \in {-1, 0, 1}, NEW y \in {-1, 0, 1},
           x # 0 \/ y # 0
    PROVE  Sees(b, s, t, x, y) <=> /\ \E k \in 1..7 : Rise(s, t) = k * x /\ Shift(s, t) = k * y
                                   /\ Clear(b, s, t)
<1>1. \A k \in 1..7 : rank_of(t) = rank_of(s) + k * x /\ file_of(t) = file_of(s) + k * y
                      <=> Rise(s, t) = k * x /\ Shift(s, t) = k * y
  <2>1. ASSUME NEW r \in Int, NEW f \in Int
        PROVE  rank_of(t) = rank_of(s) + r /\ file_of(t) = file_of(s) + f <=> Rise(s, t) = r /\ Shift(s, t) = f
    BY SquareParts DEF Rise, Shift
  <2>. QED
    BY <2>1, Multiples
<1>2. ASSUME NEW k \in 1..7, Rise(s, t) = k * x, Shift(s, t) = k * y
      PROVE  Clear(b, s, t) <=> \A i \in 1..(k - 1) :
                                   Empty(b, make_square(rank_of(s) + i * x, file_of(s) + i * y))
  <2>1. Between(s, t) = {make_square(rank_of(s) + i * x, file_of(s) + i * y) : i \in 1..(k - 1)}
    BY <1>2, PassedSquares
  <2>. QED
    BY <2>1 DEF Clear
<1>. QED
  BY <1>1, <1>2 DEF Sees

(* The rook's rays hold the squares in line with nothing between. *)
LEMMA RookRays ==
    ASSUME NEW b, NEW s \in Squares, NEW t \in Squares
    PROVE  t \in Rays(b, s, RookSteps) <=> OnLine(s, t) /\ Clear(b, s, t)
<1>1. PICK r \in -7..7, f \in -7..7 : r = Rise(s, t) /\ f = Shift(s, t)
  BY Offsets
<1>2. (r = 0) # (f = 0) <=> \E x, y \in {-1, 0, 1} : Straight(<<x, y>>) /\ \E k \in 1..7 : r = k * x /\ f = k * y
  <2>1. ASSUME (r = 0) # (f = 0)
        PROVE  \E x, y \in {-1, 0, 1} : Straight(<<x, y>>) /\ \E k \in 1..7 : r = k * x /\ f = k * y
    <3>1. CASE r > 0
      <4>1. Straight(<<1, 0>>) /\ r \in 1..7 /\ r = r * 1 /\ f = r * 0
        BY <2>1, <3>1 DEF Straight
      <4>. QED
        BY <4>1
    <3>2. CASE r < 0
      <4>1. Straight(<<-1, 0>>) /\ -r \in 1..7 /\ r = (-r) * (-1) /\ f = (-r) * 0
        BY <2>1, <3>2 DEF Straight
      <4>. QED
        BY <4>1
    <3>3. CASE f > 0
      <4>1. Straight(<<0, 1>>) /\ f \in 1..7 /\ r = f * 0 /\ f = f * 1
        BY <2>1, <3>3 DEF Straight
      <4>. QED
        BY <4>1
    <3>4. CASE f < 0
      <4>1. Straight(<<0, -1>>) /\ -f \in 1..7 /\ r = (-f) * 0 /\ f = (-f) * (-1)
        BY <2>1, <3>4 DEF Straight
      <4>. QED
        BY <4>1
    <3>. QED
      BY <2>1, <3>1, <3>2, <3>3, <3>4
  <2>2. ASSUME NEW x \in {-1, 0, 1}, NEW y \in {-1, 0, 1}, Straight(<<x, y>>), NEW k \in 1..7, r = k * x, f = k * y
        PROVE  (r = 0) # (f = 0)
    BY <2>2 DEF Straight
  <2>. QED
    BY <2>1, <2>2
<1>3. \A x, y \in {-1, 0, 1} : Straight(<<x, y>>) => x # 0 \/ y # 0
  BY DEF Straight
<1>4. t \in Rays(b, s, RookSteps) <=> \E x, y \in {-1, 0, 1} : Straight(<<x, y>>) /\ Sees(b, s, t, x, y)
  BY RaysOf
<1>5. t \in Rays(b, s, RookSteps)
      <=> \E x, y \in {-1, 0, 1} : /\ Straight(<<x, y>>) /\ \E k \in 1..7 : r = k * x /\ f = k * y
                                   /\ Clear(b, s, t)
  BY <1>1, <1>3, <1>4, SeesClear
<1>. QED
  BY <1>1, <1>2, <1>5 DEF OnLine

(* The bishop's rays hold the squares on a diagonal with nothing between. *)
LEMMA BishopRays ==
    ASSUME NEW b, NEW s \in Squares, NEW t \in Squares
    PROVE  t \in Rays(b, s, BishopSteps) <=> OnDiagonal(s, t) /\ Clear(b, s, t)
<1>1. PICK r \in -7..7, f \in -7..7 : r = Rise(s, t) /\ f = Shift(s, t)
  BY Offsets
<1>2. r # 0 /\ Abs(r) = Abs(f) <=> \E x, y \in {-1, 1} : \E k \in 1..7 : r = k * x /\ f = k * y
  <2>1. ASSUME r # 0, Abs(r) = Abs(f)
        PROVE  \E x, y \in {-1, 1} : \E k \in 1..7 : r = k * x /\ f = k * y
    <3>1. PICK k \in 1..7 : k = Abs(r)
      BY <2>1 DEF Abs
    <3>2. /\ r = k * 1 \/ r = k * (-1)
          /\ f = k * 1 \/ f = k * (-1)
      BY <2>1, <3>1 DEF Abs
    <3>. QED
      BY <3>2
  <2>2. ASSUME NEW x \in {-1, 1}, NEW y \in {-1, 1}, NEW k \in 1..7, r = k * x, f = k * y
        PROVE  r # 0 /\ Abs(r) = Abs(f)
    BY <2>2 DEF Abs
  <2>. QED
    BY <2>1, <2>2
<1>3. t \in Rays(b, s, BishopSteps) <=> \E x, y \in {-1, 1} : Sees(b, s, t, x, y)
  BY RaysOf
<1>4. \A x, y \in {-1, 1} : Sees(b, s, t, x, y) <=> (\E k \in 1..7 : r = k * x /\ f = k * y) /\ Clear(b, s, t)
  BY <1>1, SeesClear
<1>. QED
  BY <1>1, <1>2, <1>3, <1>4 DEF OnDiagonal


-----------------------------------------------------------------------------
(* Attacks: the code's tables and rays against the rules *)

Kinds == {"P", "N", "B", "R", "Q", "K"}
Sides == {"w", "b"}

(* A man is of a side and of a kind. *)
LEMMA PieceParts ==
    ASSUME NEW q \in Pieces
    PROVE  q[1] \in Sides /\ q[2] \in Kinds /\ q = <<q[1], q[2]>> /\ q # << >>
<1>1. PICK c \in Sides, k \in Kinds : q = <<c, k>>
  BY DEF Pieces, Sides, Kinds
<1>. QED
  BY <1>1

(* The man on a square of a board. *)
LEMMA ManOf ==
    ASSUME NEW b, IsBoard(b), NEW s \in DOMAIN b
    PROVE  /\ s \in Squares /\ b[s] \in Pieces /\ b[s][1] \in Sides /\ b[s][2] \in Kinds
           /\ \A c, k : b[s] = <<c, k>> <=> b[s][1] = c /\ b[s][2] = k
<1>1. s \in Squares /\ b[s] \in Pieces
  BY DEF IsBoard
<1>2. b[s] = <<b[s][1], b[s][2]>> /\ b[s][1] \in Sides /\ b[s][2] \in Kinds
  BY <1>1, PieceParts
<1>3. ASSUME NEW c, NEW k
      PROVE  b[s] = <<c, k>> <=> b[s][1] = c /\ b[s][2] = k
  <2>1. b[s] = <<c, k>> => b[s][1] = c /\ b[s][2] = k
    OBVIOUS
  <2>2. b[s][1] = c /\ b[s][2] = k => b[s] = <<c, k>>
    BY <1>2
  <2>. QED
    BY <2>1, <2>2
<1>. QED
  BY <1>1, <1>2, <1>3

(* Pawns of the two sides go opposite ways. *)
LEMMA UpIs ==
    ASSUME NEW c \in Sides
    PROVE  /\ Up(c) \in {-1, 1} /\ -Up(c) \in {-1, 1} /\ Up(Opposite(c)) = -Up(c)
           /\ Opposite(c) \in Sides /\ Opposite(c) # c /\ Opposite(Opposite(c)) = c
<1>1. CASE c = "w"
  BY <1>1 DEF Up, Sides, Opposite
<1>2. CASE c = "b"
  <2>1. Opposite(c) = "w" /\ Opposite("w") = "b" /\ "w" # "b"
    BY <1>2 DEF Opposite
  <2>2. Up(c) = -1 /\ Up("w") = 1
    BY <1>2, <2>1 DEF Up
  <2>. QED
    BY <1>2, <2>1, <2>2 DEF Sides
<1>. QED
  BY <1>1, <1>2 DEF Sides

(* Distances told from the other end. *)
LEMMA TurnedRound ==
    ASSUME NEW s \in Squares, NEW t \in Squares
    PROVE  /\ Rise(t, s) = -Rise(s, t) /\ Abs(Rise(t, s)) = Abs(Rise(s, t))
           /\ Abs(Shift(t, s)) = Abs(Shift(s, t))
BY SquareParts DEF Rise, Shift, Abs

(* What each man attacks. *)
LEMMA AttackForms ==
    ASSUME NEW b, NEW s \in DOMAIN b, NEW t
    PROVE  /\ b[s][2] = "P" => (Attacks(b, s, t) <=> Rise(s, t) = Up(b[s][1]) /\ Abs(Shift(s, t)) = 1)
           /\ b[s][2] = "N" => (Attacks(b, s, t) <=> {Abs(Rise(s, t)), Abs(Shift(s, t))} = {1, 2})
           /\ b[s][2] = "K" => (Attacks(b, s, t) <=> s # t /\ Abs(Rise(s, t)) <= 1 /\ Abs(Shift(s, t)) <= 1)
           /\ b[s][2] = "R" => (Attacks(b, s, t) <=> OnLine(s, t) /\ Clear(b, s, t))
           /\ b[s][2] = "B" => (Attacks(b, s, t) <=> OnDiagonal(s, t) /\ Clear(b, s, t))
           /\ b[s][2] = "Q" => (Attacks(b, s, t) <=> (OnLine(s, t) \/ OnDiagonal(s, t)) /\ Clear(b, s, t))
BY DEF Attacks, Rise, Shift, OnLine, OnDiagonal, Clear

(* A man attacks a square exactly if the square, looked at from where it   *)
(* is attacked, sees the man.                                              *)
LEMMA AttackSeen ==
    ASSUME NEW b, IsBoard(b), NEW s \in DOMAIN b, NEW t \in Squares
    PROVE  /\ b[s][2] = "P" => (Attacks(b, s, t) <=> s \in Targets(t, {<<-Up(b[s][1]), -1>>, <<-Up(b[s][1]), 1>>}))
           /\ b[s][2] = "N" => (Attacks(b, s, t) <=> s \in Targets(t, KnightSteps))
           /\ b[s][2] = "K" => (Attacks(b, s, t) <=> s \in Targets(t, KingSteps))
           /\ b[s][2] = "R" => (Attacks(b, s, t) <=> s \in Rays(b, t, RookSteps))
           /\ b[s][2] = "B" => (Attacks(b, s, t) <=> s \in Rays(b, t, BishopSteps))
           /\ b[s][2] = "Q" => (Attacks(b, s, t) <=> s \in Rays(b, t, RookSteps) \/ s \in Rays(b, t, BishopSteps))
<1>1. s \in Squares /\ b[s][1] \in Sides
  BY ManOf
<1>2. b[s][2] = "P" => (Attacks(b, s, t) <=> s \in Targets(t, {<<-Up(b[s][1]), -1>>, <<-Up(b[s][1]), 1>>}))
  <2>1. PICK u \in {-1, 1} : u = -Up(b[s][1]) /\ Up(b[s][1]) = -u
    BY <1>1, UpIs
  <2>2. s \in Targets(t, {<<u, -1>>, <<u, 1>>}) <=> Rise(t, s) = u /\ Abs(Shift(t, s)) = 1
    BY <1>1, PawnTargets
  <2>3. Rise(t, s) = u <=> Rise(s, t) = -u
    BY <1>1, TurnedRound, Offsets
  <2>4. s \in Targets(t, {<<u, -1>>, <<u, 1>>}) <=> Rise(s, t) = Up(b[s][1]) /\ Abs(Shift(s, t)) = 1
    BY <1>1, <2>1, <2>2, <2>3, TurnedRound
  <2>. QED
    BY <2>1, <2>4, AttackForms
<1>3. b[s][2] = "N" => (Attacks(b, s, t) <=> s \in Targets(t, KnightSteps))
  BY <1>1, KnightTargets, AttackForms, TurnedRound
<1>4. b[s][2] = "K" => (Attacks(b, s, t) <=> s \in Targets(t, KingSteps))
  BY <1>1, KingTargets, AttackForms, TurnedRound
<1>5. /\ OnLine(s, t) /\ Clear(b, s, t) <=> s \in Rays(b, t, RookSteps)
      /\ OnDiagonal(s, t) /\ Clear(b, s, t) <=> s \in Rays(b, t, BishopSteps)
  BY <1>1, RookRays, BishopRays, RaysBack
<1>. QED
  BY <1>2, <1>3, <1>4, <1>5, AttackForms

(* No man attacks the square it stands on. *)
LEMMA NotItself ==
    ASSUME NEW b, IsBoard(b), NEW s \in DOMAIN b, NEW t, Attacks(b, s, t)
    PROVE  s # t
<1>1. s \in Squares /\ b[s][1] \in Sides /\ b[s][2] \in Kinds
  BY ManOf
<1>2. ASSUME s = t
      PROVE  Rise(s, t) = 0 /\ Shift(s, t) = 0 /\ Abs(Rise(s, t)) = 0 /\ Abs(Shift(s, t)) = 0
  BY <1>1, <1>2, SquareParts DEF Rise, Shift, Abs
<1>3. Up(b[s][1]) # 0
  BY <1>1, UpIs
<1>4. {0, 0} # {1, 2}
  <2>1. 1 \in {1, 2} /\ 1 \notin {0, 0}
    OBVIOUS
  <2>. QED
    BY <2>1, Zenon
<1>. QED
  BY <1>1, <1>2, <1>3, <1>4, AttackForms DEF Kinds, OnLine, OnDiagonal

(* is_square_attacked, which looks from the square outward, finds what     *)
(* the rules tell from the men.                                            *)
LEMMA AttackedAgrees ==
    ASSUME NEW b, IsBoard(b), NEW t \in Squares, NEW c \in Sides
    PROVE  is_square_attacked(b, t, c) <=> Attacked(b, t, c)
<1> DEFINE front == {<<-Up(c), -1>>, <<-Up(c), 1>>}
<1>1. is_square_attacked(b, t, c) <=>
        \E s \in DOMAIN b : b[s][1] = c /\
          \/ b[s][2] = "P" /\ s \in Targets(t, front)
          \/ b[s][2] = "N" /\ s \in Targets(t, KnightSteps)
          \/ b[s][2] = "K" /\ s \in Targets(t, KingSteps)
          \/ (b[s][2] = "R" \/ b[s][2] = "Q") /\ s \in Rays(b, t, RookSteps)
          \/ (b[s][2] = "B" \/ b[s][2] = "Q") /\ s \in Rays(b, t, BishopSteps)
  BY ManOf DEF is_square_attacked, Is
<1>2. ASSUME NEW s \in DOMAIN b, b[s][1] = c
      PROVE  Attacks(b, s, t) <=>
          \/ b[s][2] = "P" /\ s \in Targets(t, front)
          \/ b[s][2] = "N" /\ s \in Targets(t, KnightSteps)
          \/ b[s][2] = "K" /\ s \in Targets(t, KingSteps)
          \/ (b[s][2] = "R" \/ b[s][2] = "Q") /\ s \in Rays(b, t, RookSteps)
          \/ (b[s][2] = "B" \/ b[s][2] = "Q") /\ s \in Rays(b, t, BishopSteps)
  <2>1. b[s][2] \in Kinds
    BY ManOf
  <2>2. b[s][2] = "P" => (Attacks(b, s, t) <=> s \in Targets(t, front))
    BY <1>2, AttackSeen
  <2>3. CASE b[s][2] = "P"
    BY <2>2, <2>3
  <2>4. CASE b[s][2] # "P"
    BY <2>1, <2>4, AttackSeen DEF Kinds
  <2>. QED
    BY <2>3, <2>4
<1>3. \A s \in DOMAIN b : Attacks(b, s, t) => s # t
  BY NotItself
<1>. QED
  BY <1>1, <1>2, <1>3 DEF Attacked


-----------------------------------------------------------------------------
(* The moves of one man, told by what he attacks *)

Move(s, t, kind, q) == [from |-> s, to |-> t, kind |-> kind, promo |-> q]
Promos(c, t) == IF rank_of(t) = HomeRank(Opposite(c)) THEN {"Q", "R", "B", "N"} ELSE {""}

PawnMove(p, s, m) ==
    LET b == p.board  c == p.side
    IN \E t \in Squares : \E q \in Promos(c, t) :
        \/ /\ Rise(s, t) = Up(c) /\ Shift(s, t) = 0 /\ Empty(b, t)
           /\ m = Move(s, t, "", q)
        \/ /\ Rise(s, t) = 2 * Up(c) /\ Shift(s, t) = 0 /\ rank_of(s) = HomeRank(c) + Up(c)
           /\ Empty(b, (s + t) \div 2) /\ Empty(b, t)
           /\ m = Move(s, t, "double", "")
        \/ Attacks(b, s, t) /\ Mine(b, t, Opposite(c)) /\ m = Move(s, t, "", q)
        \/ Attacks(b, s, t) /\ ~Mine(b, t, Opposite(c)) /\ t = p.ep /\ m = Move(s, t, "ep", q)

OfficerMove(p, s, m) ==
    \E t \in Squares : Attacks(p.board, s, t) /\ ~Mine(p.board, t, p.side) /\ m = Move(s, t, "", "")

(* Rays hold squares. *)
LEMMA RaysOnBoard ==
    ASSUME NEW b, NEW s, NEW steps
    PROVE  Rays(b, s, steps) \subseteq Squares
BY MadeSquare DEF Rays, Ray, OnBoard

(* The moves of a man other than a pawn are what it attacks and its side   *)
(* does not hold.                                                          *)
LEMMA OfficersMoves ==
    ASSUME NEW p, IsBoard(p.board), NEW s \in DOMAIN p.board, p.board[s][1] = p.side, p.board[s][2] # "P", NEW m
    PROVE  m \in MovesOf(p, s) <=> \/ OfficerMove(p, s, m)
                                   \/ p.board[s][2] = "K" /\ m \in CastlingMoves(p, p.side)
<1> DEFINE b == p.board
           c == p.side
           free(ts) == {t \in ts : ~Mine(b, t, c)}
<1>1. s \in Squares /\ b[s][2] \in Kinds
  BY ManOf
<1>2. ASSUME NEW ts \in SUBSET Squares, \A t \in Squares : t \in ts <=> Attacks(b, s, t)
      PROVE  m \in Plain(s, free(ts)) <=> OfficerMove(p, s, m)
  BY <1>2 DEF Plain, OfficerMove, Move
<1>3. CASE b[s][2] = "N"
  <2>1. \A t \in Squares : t \in Targets(s, KnightSteps) <=> Attacks(b, s, t)
    BY <1>1, <1>3, KnightTargets, AttackForms
  <2>2. MovesOf(p, s) = Plain(s, free(Targets(s, KnightSteps)))
    BY <1>3 DEF MovesOf
  <2>. QED
    BY <1>2, <1>3, <2>1, <2>2, TargetsOnBoard
<1>4. CASE b[s][2] = "B"
  <2>1. \A t \in Squares : t \in Rays(b, s, BishopSteps) <=> Attacks(b, s, t)
    BY <1>1, <1>4, BishopRays, AttackForms
  <2>2. MovesOf(p, s) = Plain(s, free(Rays(b, s, BishopSteps)))
    BY <1>4 DEF MovesOf
  <2>. QED
    BY <1>2, <1>4, <2>1, <2>2, RaysOnBoard
<1>5. CASE b[s][2] = "R"
  <2>1. \A t \in Squares : t \in Rays(b, s, RookSteps) <=> Attacks(b, s, t)
    BY <1>1, <1>5, RookRays, AttackForms
  <2>2. MovesOf(p, s) = Plain(s, free(Rays(b, s, RookSteps)))
    BY <1>5 DEF MovesOf
  <2>. QED
    BY <1>2, <1>5, <2>1, <2>2, RaysOnBoard
<1>6. CASE b[s][2] = "Q"
  <2>1. \A t \in Squares : t \in Rays(b, s, KingSteps) <=> Attacks(b, s, t)
    BY <1>1, <1>6, RaysOf, RookRays, BishopRays, AttackForms
  <2>2. MovesOf(p, s) = Plain(s, free(Rays(b, s, KingSteps)))
    BY <1>6 DEF MovesOf
  <2>. QED
    BY <1>2, <1>6, <2>1, <2>2, RaysOnBoard
<1>7. CASE b[s][2] = "K"
  <2>1. \A t \in Squares : t \in Targets(s, KingSteps) <=> Attacks(b, s, t)
    BY <1>1, <1>7, KingTargets, AttackForms
  <2>2. MovesOf(p, s) = Plain(s, free(Targets(s, KingSteps))) \cup CastlingMoves(p, c)
    BY <1>7 DEF MovesOf
  <2>. QED
    BY <1>2, <1>7, <2>1, <2>2, TargetsOnBoard
<1>. QED
  BY <1>1, <1>3, <1>4, <1>5, <1>6, <1>7 DEF Kinds

(* The square in front of a pawn. *)
LEMMA Forward ==
    ASSUME NEW s \in Squares, NEW t \in Squares, NEW u \in {-1, 1}
    PROVE  /\ t = s + 8 * u <=> Rise(s, t) = u /\ Shift(s, t) = 0
           /\ t = s + 16 * u <=> Rise(s, t) = 2 * u /\ Shift(s, t) = 0
           /\ t = s + 16 * u => (s + t) \div 2 = s + 8 * u
<1>1. PICK r \in 0..7, f \in 0..7, r2 \in 0..7, f2 \in 0..7 :
          /\ r = rank_of(s) /\ f = file_of(s) /\ s = 8 * r + f
          /\ r2 = rank_of(t) /\ f2 = file_of(t) /\ t = 8 * r2 + f2
  BY SquareParts DEF make_square
<1>2. Rise(s, t) = r2 - r /\ Shift(s, t) = f2 - f
  BY <1>1 DEF Rise, Shift
<1>3. t = s + 16 * u => (s + t) \div 2 = s + 8 * u
  BY DEF Squares
<1>4. /\ t = s + 8 * u <=> r2 - r = u /\ f2 - f = 0
      /\ t = s + 16 * u <=> r2 - r = 2 * u /\ f2 - f = 0
  <2>1. /\ 8 * r2 + f2 = 8 * r + f + 8 <=> r2 - r = 1 /\ f2 - f = 0
        /\ 8 * r2 + f2 = 8 * r + f + 16 <=> r2 - r = 2 /\ f2 - f = 0
        /\ 8 * r2 + f2 = 8 * r + f - 8 <=> r2 - r = -1 /\ f2 - f = 0
        /\ 8 * r2 + f2 = 8 * r + f - 16 <=> r2 - r = -2 /\ f2 - f = 0
    OBVIOUS
  <2>2. 8 * r2 + f2 = 8 * r + f + 8 * u <=> r2 - r = u /\ f2 - f = 0
    BY <2>1
  <2>3. 8 * r2 + f2 = 8 * r + f + 16 * u <=> r2 - r = 2 * u /\ f2 - f = 0
    BY <2>1
  <2>. QED
    BY <1>1, <2>2, <2>3
<1>. QED
  BY <1>2, <1>3, <1>4

(* The first ranks of the two sides. *)
LEMMA HomeRanks ==
    ASSUME NEW c \in Sides
    PROVE  \/ HomeRank(c) = 0 /\ Up(c) = 1 /\ HomeRank(Opposite(c)) = 7
           \/ HomeRank(c) = 7 /\ Up(c) = -1 /\ HomeRank(Opposite(c)) = 0
BY DEF Sides, HomeRank, Up, Opposite

(* The moves of a pawn: one step, two steps, captures, en passant. *)
LEMMA PawnsMoves ==
    ASSUME NEW p, IsBoard(p.board), p.side \in Sides,
           NEW s \in DOMAIN p.board, p.board[s][1] = p.side, p.board[s][2] = "P", NEW m
    PROVE  m \in MovesOf(p, s) <=> PawnMove(p, s, m)
<1> DEFINE b == p.board
           c == p.side
           ahead == s + 8 * Up(c)
           single == ahead \in Squares /\ Empty(b, ahead)
           double == single /\ rank_of(s) = HomeRank(c) + Up(c) /\ Empty(b, s + 16 * Up(c))
           aside == Targets(s, {<<Up(c), -1>>, <<Up(c), 1>>})
<1>1. s \in Squares /\ Up(c) \in {-1, 1}
  BY ManOf, UpIs
<1>2. \A t \in Squares : t \in aside <=> Attacks(b, s, t)
  <2>1. PICK u \in {-1, 1} : u = Up(c)
    BY <1>1
  <2>2. ASSUME NEW t \in Squares
        PROVE  t \in Targets(s, {<<u, -1>>, <<u, 1>>}) <=> Attacks(b, s, t)
    <3>1. t \in Targets(s, {<<u, -1>>, <<u, 1>>}) <=> Rise(s, t) = u /\ Abs(Shift(s, t)) = 1
      BY <1>1, PawnTargets
    <3>2. Attacks(b, s, t) <=> Rise(s, t) = Up(b[s][1]) /\ Abs(Shift(s, t)) = 1
      BY AttackForms
    <3>. QED
      BY <2>1, <3>1, <3>2
  <2>. QED
    BY <2>1, <2>2
<1>4. \A t \in Squares : \A kind : m \in PawnTo(c, s, t, kind) <=> \E q \in Promos(c, t) : m = Move(s, t, kind, q)
  BY DEF PawnTo, Promos, Move
<1>5. m \in MovesOf(p, s) <=> \/ single /\ m \in PawnTo(c, s, ahead, "")
                              \/ double /\ m = Move(s, s + 16 * Up(c), "double", "")
                              \/ \E t \in aside : Mine(b, t, Opposite(c)) /\ m \in PawnTo(c, s, t, "")
                              \/ \E t \in aside : t = p.ep /\ ~Mine(b, t, Opposite(c)) /\ m \in PawnTo(c, s, t, "ep")
  <2>1. MovesOf(p, s) = generate_pawn_moves(p, s, c)
    BY DEF MovesOf
  <2>. QED
    BY <2>1 DEF generate_pawn_moves, Move
<1>6. single /\ m \in PawnTo(c, s, ahead, "")
      <=> \E t \in Squares : \E q \in Promos(c, t) :
             Rise(s, t) = Up(c) /\ Shift(s, t) = 0 /\ Empty(b, t) /\ m = Move(s, t, "", q)
  <2>1. \A t \in Squares : t = ahead <=> Rise(s, t) = Up(c) /\ Shift(s, t) = 0
    BY <1>1, Forward
  <2>2. ahead \in Squares => (m \in PawnTo(c, s, ahead, "") <=> \E q \in Promos(c, ahead) : m = Move(s, ahead, "", q))
    BY <1>4
  <2>. HIDE DEF ahead
  <2>. QED
    BY <2>1, <2>2
<1>7. double /\ m = Move(s, s + 16 * Up(c), "double", "")
      <=> \E t \in Squares : \E q \in Promos(c, t) :
             /\ Rise(s, t) = 2 * Up(c) /\ Shift(s, t) = 0 /\ rank_of(s) = HomeRank(c) + Up(c)
             /\ Empty(b, (s + t) \div 2) /\ Empty(b, t) /\ m = Move(s, t, "double", "")
  <2>1. ASSUME rank_of(s) = HomeRank(c) + Up(c)
        PROVE  s + 16 * Up(c) \in Squares /\ ahead \in Squares
    BY <1>1, <2>1, HomeRanks, SquareParts DEF make_square, Squares
  <2>2. \A t \in Squares : Promos(c, t) # {}
    BY DEF Promos
  <2>3. \A t \in Squares : /\ t = s + 16 * Up(c) <=> Rise(s, t) = 2 * Up(c) /\ Shift(s, t) = 0
                           /\ t = s + 16 * Up(c) => (s + t) \div 2 = ahead
    <3>1. ASSUME NEW t \in Squares
          PROVE  t = s + 16 * Up(c) <=> Rise(s, t) = 2 * Up(c) /\ Shift(s, t) = 0
      BY <1>1, Forward
    <3>2. ASSUME NEW t \in Squares, t = s + 16 * Up(c)
          PROVE  (s + t) \div 2 = ahead
      BY <1>1, <3>2, Forward
    <3>. QED
      BY <3>1, <3>2
  <2>4. PICK far : far = s + 16 * Up(c)
    OBVIOUS
  <2>5. \A t \in Squares : /\ t = far <=> Rise(s, t) = 2 * Up(c) /\ Shift(s, t) = 0
                           /\ t = far => (s + t) \div 2 = ahead
    <3>. HIDE DEF ahead
    <3>. QED
      BY <2>3, <2>4
  <2>6. ASSUME NEW t \in Squares, Rise(s, t) = 2 * Up(c), Shift(s, t) = 0
        PROVE  t = far /\ (s + t) \div 2 = ahead
    BY <2>5, <2>6
  <2>7. rank_of(s) = HomeRank(c) + Up(c) => far \in Squares /\ ahead \in Squares
    BY <2>1, <2>4
  <2>8. double /\ m = Move(s, far, "double", "")
        <=> \E t \in Squares : \E q \in Promos(c, t) :
               /\ Rise(s, t) = 2 * Up(c) /\ Shift(s, t) = 0 /\ rank_of(s) = HomeRank(c) + Up(c)
               /\ Empty(b, (s + t) \div 2) /\ Empty(b, t) /\ m = Move(s, t, "double", "")
    <3>. HIDE DEF ahead
    <3>1. double <=> single /\ rank_of(s) = HomeRank(c) + Up(c) /\ Empty(b, far)
      BY <2>4
    <3>. HIDE DEF double
    <3>. QED
      BY <2>2, <2>5, <2>6, <2>7, <3>1
  <2>. QED
    BY <2>4, <2>8
<1>8. aside \subseteq Squares
  BY TargetsOnBoard
<1>9. (\E t \in aside : Mine(b, t, Opposite(c)) /\ m \in PawnTo(c, s, t, ""))
      <=> \E t \in Squares : \E q \in Promos(c, t) :
             Attacks(b, s, t) /\ Mine(b, t, Opposite(c)) /\ m = Move(s, t, "", q)
  BY <1>2, <1>4, <1>8
<1>10. (\E t \in aside : t = p.ep /\ ~Mine(b, t, Opposite(c)) /\ m \in PawnTo(c, s, t, "ep"))
      <=> \E t \in Squares : \E q \in Promos(c, t) :
             Attacks(b, s, t) /\ ~Mine(b, t, Opposite(c)) /\ t = p.ep /\ m = Move(s, t, "ep", q)
  BY <1>2, <1>4, <1>8
<1>. QED
  BY <1>5, <1>6, <1>7, <1>9, <1>10 DEF PawnMove


-----------------------------------------------------------------------------
(* What the generator may return *)

Home(c) == make_square(HomeRank(c), 4)
Right(c, kind) == IF kind = "kingside" THEN (IF c = "w" THEN "K" ELSE "k")
                  ELSE (IF c = "w" THEN "Q" ELSE "q")
Gap(c, kind) == IF kind = "kingside" THEN {Home(c) + 1, Home(c) + 2}
                ELSE {Home(c) - 1, Home(c) - 2, Home(c) - 3}
Goal(c, kind) == IF kind = "kingside" THEN Home(c) + 2 ELSE Home(c) - 2
Step(c, kind) == IF kind = "kingside" THEN Home(c) + 1 ELSE Home(c) - 1
RookCorner(c, kind) == IF kind = "kingside" THEN Home(c) + 3 ELSE Home(c) - 4
Ways == {"kingside", "queenside"}

CastleOpen(p, kind) ==
    /\ Right(p.side, kind) \in p.rights
    /\ \A s \in Gap(p.side, kind) : Empty(p.board, s)
    /\ ~is_square_attacked(p.board, Home(p.side), Opposite(p.side))
    /\ ~is_square_attacked(p.board, Step(p.side, kind), Opposite(p.side))
CastleMove(p, m) ==
    \E kind \in Ways : m = Move(Home(p.side), Goal(p.side, kind), kind, "") /\ CastleOpen(p, kind)

Ordinary(p, m) ==
    LET b == p.board  c == p.side
    IN /\ m.from \in DOMAIN b /\ b[m.from][1] = c /\ m.to \in Squares /\ m.to # m.from
       /\ ~Mine(b, m.to, c) /\ (Mine(b, m.to, Opposite(c)) => Attacks(b, m.from, m.to))
       /\ m.kind \in {"", "double", "ep"}
       /\ m.promo # "" => b[m.from][2] = "P" /\ m.promo \in {"Q", "R", "B", "N"}
       /\ m.kind = "ep" => b[m.from][2] = "P" /\ m.to = p.ep
       /\ m.kind = "double" => /\ b[m.from][2] = "P" /\ m.promo = "" /\ rank_of(m.from) = HomeRank(c) + Up(c)
                               /\ m.to = m.from + 16 * Up(c)
                               /\ Empty(b, m.from + 8 * Up(c)) /\ Empty(b, m.to)

(* The castling moves, each from what it asks for. *)
LEMMA CastlesAre ==
    ASSUME NEW p, p.side \in Sides, NEW m
    PROVE  m \in CastlingMoves(p, p.side) <=> CastleMove(p, m)
<1>1. Through(Home(p.side), "kingside") = {Home(p.side), Step(p.side, "kingside")}
      /\ Through(Home(p.side), "queenside") = {Home(p.side), Step(p.side, "queenside")}
  BY DEF Through, Step
<1>2. CastlingMoves(p, p.side) = {Move(Home(p.side), Goal(p.side, kind), kind, "") : kind \in {k \in Ways : CastleOpen(p, k)}}
  BY <1>1 DEF CastlingMoves, Home, Right, Gap, Goal, Move, Ways, CastleOpen
<1>. QED
  BY <1>2 DEF CastleMove

(* A move of a man other than a pawn is an ordinary move. *)
LEMMA OfficersOrdinary ==
    ASSUME NEW p, IsBoard(p.board), NEW s \in DOMAIN p.board, p.board[s][1] = p.side,
           NEW m, OfficerMove(p, s, m)
    PROVE  Ordinary(p, m)
<1>1. PICK t \in Squares : Attacks(p.board, s, t) /\ ~Mine(p.board, t, p.side) /\ m = Move(s, t, "", "")
  BY DEF OfficerMove
<1>2. m.from = s /\ m.to = t /\ m.kind = "" /\ m.promo = "" /\ s # t
  BY <1>1, NotItself DEF Move
<1>. QED
  BY <1>1, <1>2 DEF Ordinary

(* A move of a pawn is an ordinary move. *)
LEMMA PawnsOrdinary ==
    ASSUME NEW p, IsBoard(p.board), p.side \in Sides, PawnPassed(p),
           NEW s \in DOMAIN p.board, p.board[s][1] = p.side, p.board[s][2] = "P",
           NEW m, PawnMove(p, s, m)
    PROVE  Ordinary(p, m)
<1> DEFINE b == p.board
           c == p.side
<1>1. PICK t \in Squares : \E q \in Promos(c, t) :
        \/ /\ Rise(s, t) = Up(c) /\ Shift(s, t) = 0 /\ Empty(b, t)
           /\ m = Move(s, t, "", q)
        \/ /\ Rise(s, t) = 2 * Up(c) /\ Shift(s, t) = 0 /\ rank_of(s) = HomeRank(c) + Up(c)
           /\ Empty(b, (s + t) \div 2) /\ Empty(b, t)
           /\ m = Move(s, t, "double", "")
        \/ Attacks(b, s, t) /\ Mine(b, t, Opposite(c)) /\ m = Move(s, t, "", q)
        \/ Attacks(b, s, t) /\ ~Mine(b, t, Opposite(c)) /\ t = p.ep /\ m = Move(s, t, "ep", q)
  BY DEF PawnMove
<1>2. PICK q \in Promos(c, t) :
        \/ /\ Rise(s, t) = Up(c) /\ Shift(s, t) = 0 /\ Empty(b, t)
           /\ m = Move(s, t, "", q)
        \/ /\ Rise(s, t) = 2 * Up(c) /\ Shift(s, t) = 0 /\ rank_of(s) = HomeRank(c) + Up(c)
           /\ Empty(b, (s + t) \div 2) /\ Empty(b, t)
           /\ m = Move(s, t, "double", "")
        \/ Attacks(b, s, t) /\ Mine(b, t, Opposite(c)) /\ m = Move(s, t, "", q)
        \/ Attacks(b, s, t) /\ ~Mine(b, t, Opposite(c)) /\ t = p.ep /\ m = Move(s, t, "ep", q)
  BY <1>1
<1>3. s \in Squares /\ Up(c) \in {-1, 1} /\ Opposite(c) # c
  BY ManOf, UpIs
<1>4. q # "" => q \in {"Q", "R", "B", "N"}
  BY DEF Promos
<1>5. CASE Rise(s, t) = Up(c) /\ Shift(s, t) = 0 /\ Empty(b, t) /\ m = Move(s, t, "", q)
  <2>1. m.from = s /\ m.to = t /\ m.kind = "" /\ m.promo = q
    BY <1>5 DEF Move
  <2>2. s # t
    BY <1>3, <1>5 DEF Empty
  <2>. QED
    BY <1>4, <1>5, <2>1, <2>2 DEF Ordinary, Empty, Mine
<1>6. CASE /\ Rise(s, t) = 2 * Up(c) /\ Shift(s, t) = 0 /\ rank_of(s) = HomeRank(c) + Up(c)
           /\ Empty(b, (s + t) \div 2) /\ Empty(b, t)
           /\ m = Move(s, t, "double", "")
  <2>1. m.from = s /\ m.to = t /\ m.kind = "double" /\ m.promo = ""
    BY <1>6 DEF Move
  <2>2. s # t
    BY <1>6 DEF Empty
  <2>3. t = s + 16 * Up(c) /\ (s + t) \div 2 = s + 8 * Up(c)
    BY <1>3, <1>6, Forward
  <2>. QED
    BY <1>6, <2>1, <2>2, <2>3 DEF Ordinary, Empty, Mine
<1>7. CASE Attacks(b, s, t) /\ Mine(b, t, Opposite(c)) /\ m = Move(s, t, "", q)
  <2>1. m.from = s /\ m.to = t /\ m.kind = "" /\ m.promo = q
    BY <1>7 DEF Move
  <2>2. s # t /\ ~Mine(b, t, c)
    BY <1>3, <1>7, NotItself DEF Mine
  <2>. QED
    BY <1>4, <1>7, <2>1, <2>2 DEF Ordinary
<1>8. CASE Attacks(b, s, t) /\ ~Mine(b, t, Opposite(c)) /\ t = p.ep /\ m = Move(s, t, "ep", q)
  <2>1. m.from = s /\ m.to = t /\ m.kind = "ep" /\ m.promo = q
    BY <1>8 DEF Move
  <2>2. s # t
    BY <1>8, NotItself
  <2>3. Empty(b, t)
    BY <1>8 DEF PawnPassed, Squares, NoSquare
  <2>. QED
    BY <1>4, <1>8, <2>1, <2>2, <2>3 DEF Ordinary, Mine, Empty
<1>. QED
  BY <1>2, <1>5, <1>6, <1>7, <1>8

(* A pseudo-legal move is an ordinary one or a castling one. *)
LEMMA PseudoShape ==
    ASSUME NEW p, IsPosition(p), NEW m \in generate_pseudo_legal_moves(p)
    PROVE  Ordinary(p, m) \/ CastleMove(p, m)
<1>1. IsBoard(p.board) /\ p.side \in Sides /\ PawnPassed(p)
  BY DEF IsPosition, Sides
<1>2. PICK s \in DOMAIN p.board : p.board[s][1] = p.side /\ m \in MovesOf(p, s)
  BY DEF generate_pseudo_legal_moves
<1>3. CASE p.board[s][2] = "P"
  BY <1>1, <1>2, <1>3, PawnsMoves, PawnsOrdinary
<1>4. CASE p.board[s][2] # "P"
  BY <1>1, <1>2, <1>4, OfficersMoves, OfficersOrdinary, CastlesAre
<1>. QED
  BY <1>3, <1>4


-----------------------------------------------------------------------------
(* Kings and checks *)

(* What a position consists of. *)
LEMMA PositionParts ==
    ASSUME NEW p, IsPosition(p)
    PROVE  /\ IsBoard(p.board) /\ p.side \in Sides /\ PawnPassed(p) /\ RightsBacked(p)
           /\ p.rights \subseteq DOMAIN Corner /\ p.half \in Nat /\ p.full \in Nat
           /\ \A c \in Sides : OneKing(p.board, c)
           /\ ~is_in_check(p.board, Opposite(p.side))
BY DEF IsPosition, Sides

(* A man is told by its side and its kind. *)
LEMMA ManAt ==
    ASSUME NEW p, IsPosition(p), NEW s \in DOMAIN p.board, NEW c, NEW k
    PROVE  p.board[s] = <<c, k>> <=> p.board[s][1] = c /\ p.board[s][2] = k
<1>1. IsBoard(p.board)
  BY PositionParts
<1>. QED
  BY <1>1, ManOf

(* king_square finds the one king. *)
LEMMA KingFound ==
    ASSUME NEW b, IsBoard(b), NEW c, NEW k \in DOMAIN b,
           \A s \in DOMAIN b : b[s] = <<c, "K">> <=> s = k
    PROVE  /\ find_king(b, c) = k /\ k \in Squares
           /\ \A o : Opposite(c) = o => (is_in_check(b, c) <=> is_square_attacked(b, k, o))
<1>1. k \in Squares /\ k # NoSquare /\ k < NoSquare /\ k \in Int
  BY DEF IsBoard, Squares, NoSquare
<1>2. {s \in DOMAIN b : b[s] = <<c, "K">>} \cup {NoSquare} = {k, NoSquare}
  OBVIOUS
<1>3. Min({k, NoSquare}) = k
  BY <1>1 DEF Min, NoSquare
<1>. QED
  BY <1>1, <1>2, <1>3 DEF find_king, is_in_check

(* The side to move never takes a king: it would have been in check when   *)
(* its owner moved.                                                        *)
LEMMA NoKingTaken ==
    ASSUME NEW p, IsPosition(p), NEW s \in DOMAIN p.board, p.board[s][1] = p.side,
           NEW t \in DOMAIN p.board, Attacks(p.board, s, t)
    PROVE  p.board[t] # <<Opposite(p.side), "K">>
<1>1. SUFFICES ASSUME p.board[t] = <<Opposite(p.side), "K">>
               PROVE  FALSE
  OBVIOUS
<1>2. PICK o \in Sides : o = Opposite(p.side) /\ Opposite(o) = p.side /\ p.side \in Sides
  BY PositionParts, UpIs
<1>3. PICK k \in DOMAIN p.board : \A x \in DOMAIN p.board : p.board[x] = <<o, "K">> <=> x = k
  <2>1. OneKing(p.board, o)
    BY <1>2, PositionParts
  <2>. QED
    BY <2>1 DEF OneKing
<1>4. k = t
  BY <1>1, <1>2, <1>3
<1>5. ~is_square_attacked(p.board, t, p.side)
  <2>1. is_in_check(p.board, o) <=> is_square_attacked(p.board, k, p.side)
    BY <1>2, <1>3, KingFound, PositionParts
  <2>. QED
    BY <1>2, <1>4, <2>1, PositionParts
<1>6. t \in Squares /\ s # t
  BY ManOf, NotItself, PositionParts
<1>7. Attacked(p.board, t, p.side)
  BY <1>6 DEF Attacked
<1>. QED
  BY <1>2, <1>5, <1>6, <1>7, AttackedAgrees, PositionParts

-----------------------------------------------------------------------------
(* The board after a move *)

(* Where a move takes what it takes. *)
LEMMA WhereTaken ==
    ASSUME NEW p, IsPosition(p), NEW m, Ordinary(p, m)
    PROVE  /\ CapturedAt(p.side, m) \in Squares /\ CapturedAt(p.side, m) # m.from
           /\ CapturedAt(p.side, m) = m.to \/ Empty(p.board, m.to)
           /\ m.kind # "ep" => CapturedAt(p.side, m) = m.to
           /\ m.kind = "ep" => /\ Is(p.board, CapturedAt(p.side, m), Opposite(p.side), "P")
                               /\ CapturedAt(p.side, m) = m.to - 8 * Up(p.side) /\ m.to \in 16..47
           /\ \A k \in DOMAIN p.board : p.board[k][2] = "K" => k # CapturedAt(p.side, m)
<1> DEFINE b == p.board
           c == p.side
           o == Opposite(c)
<1>1. IsBoard(b) /\ c \in Sides /\ PawnPassed(p) /\ o \in Sides /\ o # c
  BY PositionParts, UpIs
<1>2. CASE m.kind = "ep"
  <2>1. m.to = p.ep /\ m.to \in Squares /\ CapturedAt(c, m) = m.to - 8 * Up(c)
    BY <1>2 DEF Ordinary, CapturedAt
  <2>2. Empty(b, m.to) /\ Is(b, m.to - 8 * Up(c), o, "P") /\ rank_of(m.to) \in {5, 2}
    <3>1. p.ep # NoSquare
      BY <2>1 DEF Squares, NoSquare
    <3>2. Empty(b, p.ep) /\ Is(b, p.ep - 8 * Up(c), o, "P") /\ rank_of(p.ep) \in {5, 2}
      BY <1>1, <3>1 DEF PawnPassed
    <3>. QED
      BY <2>1, <3>2
  <2>3. m.to \in 16..47
    BY <2>1, <2>2, SquareParts DEF make_square
  <2>4. m.to - 8 * Up(c) \in DOMAIN b /\ b[m.to - 8 * Up(c)][1] = o /\ b[m.to - 8 * Up(c)][2] = "P"
    BY <2>2 DEF Is
  <2>5. m.to - 8 * Up(c) # m.from
    BY <1>1, <2>4 DEF Ordinary
  <2>. QED
    BY <1>1, <1>2, <2>1, <2>2, <2>3, <2>4, <2>5, ManOf
<1>3. CASE m.kind # "ep"
  <2>1. CapturedAt(c, m) = m.to /\ m.to \in Squares /\ m.to # m.from
    BY <1>3 DEF Ordinary, CapturedAt
  <2>2. ASSUME m.to \in DOMAIN b, b[m.to][2] = "K"
        PROVE  FALSE
    <3>1. b[m.to][1] = o /\ b[m.to] = <<o, "K">>
      <4>1. b[m.to][1] \in Sides /\ b[m.to][1] # c
        BY <1>1, <2>2, ManOf DEF Ordinary, Mine
      <4>2. b[m.to][1] = o
        BY <1>1, <4>1, UpIs DEF Sides
      <4>3. PICK t \in DOMAIN b : t = m.to
        BY <2>2
      <4>4. b[t] = <<o, "K">> <=> b[t][1] = o /\ b[t][2] = "K"
        BY <1>1, ManOf
      <4>. QED
        BY <2>2, <4>2, <4>3, <4>4
    <3>2. Attacks(b, m.from, m.to)
      BY <2>2, <3>1 DEF Ordinary, Mine
    <3>. QED
      BY <2>2, <3>1, <3>2, NoKingTaken DEF Ordinary
  <2>. QED
    BY <1>3, <2>1, <2>2
<1>. QED
  BY <1>2, <1>3

(* The man that arrives, and the squares nobody has moved to or from. *)
Arriving(p, m) == IF m.promo = "" THEN p.board[m.from] ELSE <<p.side, m.promo>>
Bare(p, m) == DOMAIN p.board \ {m.from, CapturedAt(p.side, m)}

(* The men after an ordinary move. *)
LEMMA BoardAfter ==
    ASSUME NEW p, IsPosition(p), NEW m, Ordinary(p, m)
    PROVE  /\ MenAfter(p.board, m) =
                  [x \in Bare(p, m) \cup {m.to} |-> IF x = m.to THEN Arriving(p, m) ELSE p.board[x]]
           /\ IsBoard(MenAfter(p.board, m)) /\ Arriving(p, m)[1] = p.side
           /\ Arriving(p, m)[2] = "K" <=> p.board[m.from][2] = "K"
<1> DEFINE b == p.board
           c == p.side
           man == Arriving(p, m)
           bare == Bare(p, m)
           b1 == [x \in bare \cup {m.to} |-> IF x = m.to THEN man ELSE b[x]]
<1>1. IsBoard(b) /\ c \in Sides
  BY PositionParts
<1>2. m.from \in DOMAIN b /\ b[m.from][1] = c /\ ~Castles(m) /\ m.to \in Squares
      /\ (m.promo # "" => b[m.from][2] = "P" /\ m.promo \in {"Q", "R", "B", "N"})
  BY DEF Ordinary, Castles
<1>3. Lift(b, {m.from, CapturedAt(c, m)} \cup {}) = [x \in bare |-> b[x]]
  BY DEF Lift, Bare
<1>4. MenAfter(b, m) = b1
  BY <1>2, <1>3 DEF MenAfter, Put, Arriving
<1>5. man \in Pieces /\ man[1] = c /\ (man[2] = "K" <=> b[m.from][2] = "K")
  <2>1. CASE m.promo = ""
    BY <1>1, <1>2, <2>1, ManOf DEF Arriving
  <2>2. CASE m.promo # ""
    BY <1>1, <1>2, <2>2 DEF Pieces, Sides, Arriving
  <2>. QED
    BY <2>1, <2>2
<1>6. IsBoard(b1)
  BY <1>1, <1>2, <1>5 DEF IsBoard, Bare
<1>. QED
  BY <1>4, <1>5, <1>6


(* Where the kings start. *)
LEMMA HomeIs == ASSUME NEW c \in Sides
                PROVE  /\ Home(c) \in {4, 60} /\ (c = "w" <=> Home(c) = 4)
                       /\ rank_of(Home(c)) = HomeRank(c) /\ HomeRank(c) \in {0, 7}
BY DEF Home, HomeRank, make_square, rank_of, Sides

(* The squares of a castling move. *)
LEMMA CastleSquares ==
    ASSUME NEW c \in Sides, NEW kind \in Ways
    PROVE  /\ Home(c) \in Squares /\ Goal(c, kind) \in Squares /\ Step(c, kind) \in Squares
           /\ RookCorner(c, kind) \in Squares
           /\ Home(c) # Goal(c, kind) /\ Home(c) # Step(c, kind) /\ Home(c) # RookCorner(c, kind)
           /\ Goal(c, kind) # Step(c, kind) /\ Goal(c, kind) # RookCorner(c, kind)
           /\ Step(c, kind) # RookCorner(c, kind)
           /\ Goal(c, kind) \in Gap(c, kind) /\ Step(c, kind) \in Gap(c, kind)
           /\ Right(c, kind) \in DOMAIN Corner
           /\ KingHome[Right(c, kind)] = Home(c) /\ Corner[Right(c, kind)] = RookCorner(c, kind)
           /\ (IF Right(c, kind) \in {"K", "Q"} THEN "w" ELSE "b") = c
<1>1. Home(c) \in {4, 60} /\ (c = "w" => Home(c) = 4) /\ (c = "b" => Home(c) = 60)
  BY HomeIs
<1>2. /\ Home(c) \in Squares /\ Goal(c, kind) \in Squares /\ Step(c, kind) \in Squares
      /\ RookCorner(c, kind) \in Squares
      /\ Home(c) # Goal(c, kind) /\ Home(c) # Step(c, kind) /\ Home(c) # RookCorner(c, kind)
      /\ Goal(c, kind) # Step(c, kind) /\ Goal(c, kind) # RookCorner(c, kind)
      /\ Step(c, kind) # RookCorner(c, kind)
      /\ Goal(c, kind) \in Gap(c, kind) /\ Step(c, kind) \in Gap(c, kind)
  BY <1>1 DEF Ways, Squares, Goal, Step, RookCorner, Gap
<1>3. /\ Right(c, kind) \in DOMAIN Corner
      /\ KingHome[Right(c, kind)] = Home(c) /\ Corner[Right(c, kind)] = RookCorner(c, kind)
      /\ (IF Right(c, kind) \in {"K", "Q"} THEN "w" ELSE "b") = c
  BY <1>1 DEF Ways, Right, KingHome, Corner, RookCorner, Sides
<1>. QED
  BY <1>2, <1>3

(* Where make_move takes the castling rook from, and where it puts it. *)
LEMMA RookSquares ==
    ASSUME NEW c \in Sides, NEW kind \in Ways, NEW m, m.from = Home(c), m.kind = kind
    PROVE  RookFrom(m) = RookCorner(c, kind) /\ RookTo(m) = Step(c, kind)
<1>1. PICK hr \in {0, 7} : hr = HomeRank(c) /\ Home(c) = 8 * hr + 4 /\ rank_of(m.from) = hr
  BY HomeIs DEF Home, make_square
<1>2. CASE kind = "kingside"
  <2>1. RookFrom(m) = 8 * hr + 7 /\ RookTo(m) = 8 * hr + 5
    BY <1>1, <1>2 DEF RookFrom, RookTo, Rook, make_square
  <2>. QED
    BY <1>1, <1>2, <2>1 DEF RookCorner, Step
<1>3. CASE kind = "queenside"
  <2>1. RookFrom(m) = 8 * hr + 0 /\ RookTo(m) = 8 * hr + 3
    BY <1>1, <1>3 DEF RookFrom, RookTo, Rook, make_square
  <2>2. RookCorner(c, kind) = Home(c) - 4 /\ Step(c, kind) = Home(c) - 1
    BY <1>3 DEF RookCorner, Step
  <2>3. 8 * hr + 0 = (8 * hr + 4) - 4 /\ 8 * hr + 3 = (8 * hr + 4) - 1
    OBVIOUS
  <2>. QED
    BY <1>1, <2>1, <2>2, <2>3
<1>. QED
  BY <1>2, <1>3 DEF Ways

(* What stands where before a castling move. *)
LEMMA CastleFacts ==
    ASSUME NEW p, IsPosition(p), NEW kind \in Ways, CastleOpen(p, kind)
    PROVE  LET b == p.board  c == p.side  m == Move(Home(c), Goal(c, kind), kind, "")
           IN /\ Is(b, Home(c), c, "K") /\ Is(b, RookCorner(c, kind), c, "R")
              /\ Empty(b, Goal(c, kind)) /\ Empty(b, Step(c, kind))
              /\ Castles(m) /\ RookFrom(m) = RookCorner(c, kind) /\ RookTo(m) = Step(c, kind)
              /\ CapturedAt(c, m) = Goal(c, kind)
              /\ m.from = Home(c) /\ m.to = Goal(c, kind) /\ m.kind = kind /\ m.promo = ""
<1> DEFINE b == p.board
           c == p.side
           m == Move(Home(c), Goal(c, kind), kind, "")
<1>1. c \in Sides /\ RightsBacked(p) /\ Right(c, kind) \in p.rights
  BY PositionParts DEF CastleOpen
<1>2. Is(b, Home(c), c, "K") /\ Is(b, RookCorner(c, kind), c, "R")
  BY <1>1, CastleSquares DEF RightsBacked
<1>3. Empty(b, Goal(c, kind)) /\ Empty(b, Step(c, kind))
  BY <1>1, CastleSquares DEF CastleOpen
<1>4. m.from = Home(c) /\ m.to = Goal(c, kind) /\ m.kind = kind /\ m.promo = ""
  BY DEF Move
<1>5. Castles(m) /\ CapturedAt(c, m) = Goal(c, kind)
  BY <1>4 DEF Castles, CapturedAt, Ways
<1>6. RookFrom(m) = RookCorner(c, kind) /\ RookTo(m) = Step(c, kind)
  BY <1>1, <1>4, RookSquares
<1>. QED
  BY <1>2, <1>3, <1>4, <1>5, <1>6

(* The men after a castling move. *)
LEMMA BoardCastled ==
    ASSUME NEW p, IsPosition(p), NEW kind \in Ways, CastleOpen(p, kind)
    PROVE  LET b == p.board  c == p.side
               b1 == MenAfter(b, Move(Home(c), Goal(c, kind), kind, ""))
           IN /\ b1 = [x \in (DOMAIN b \ {Home(c), RookCorner(c, kind)}) \cup {Goal(c, kind), Step(c, kind)} |->
                          IF x = Step(c, kind) THEN <<c, "R">> ELSE IF x = Goal(c, kind) THEN <<c, "K">> ELSE b[x]]
              /\ IsBoard(b1)
<1> DEFINE b == p.board
           c == p.side
           m == Move(Home(c), Goal(c, kind), kind, "")
           h == Home(c)
           g == Goal(c, kind)
           st == Step(c, kind)
           rc == RookCorner(c, kind)
           b1 == [x \in (DOMAIN b \ {h, rc}) \cup {g, st} |->
                     IF x = st THEN <<c, "R">> ELSE IF x = g THEN <<c, "K">> ELSE b[x]]
<1>1. IsBoard(b) /\ c \in Sides
  BY PositionParts
<1>2. /\ h \in DOMAIN b /\ rc \in DOMAIN b /\ g \notin DOMAIN b /\ st \notin DOMAIN b
      /\ b[h] = <<c, "K">> /\ b[rc] = <<c, "R">> /\ b[h][1] = c
  <2>1. Is(b, h, c, "K") /\ Is(b, rc, c, "R") /\ Empty(b, g) /\ Empty(b, st)
    BY CastleFacts
  <2>2. b[h] = <<c, "K">> => b[h][1] = c
    OBVIOUS
  <2>. QED
    BY <2>1, <2>2 DEF Is, Empty
<1>3. g \in Squares /\ st \in Squares /\ g # st
  BY <1>1, CastleSquares
<1>4. MenAfter(b, m) = Put(Put(Lift(b, {h, g} \cup {rc}), g, b[h]), st, b[rc])
  <2>1. /\ m.from = h /\ m.to = g /\ m.promo = "" /\ Castles(m) /\ CapturedAt(c, m) = g
        /\ RookFrom(m) = rc /\ RookTo(m) = st
    BY CastleFacts
  <2>. QED
    BY <1>2, <2>1 DEF MenAfter
<1>5. Lift(b, {h, g} \cup {rc}) = [x \in DOMAIN b \ {h, rc} |-> b[x]]
  <2>1. DOMAIN b \ ({h, g} \cup {rc}) = DOMAIN b \ {h, rc}
    BY <1>2
  <2>. QED
    BY <2>1 DEF Lift
<1>6. MenAfter(b, m) = b1
  BY <1>2, <1>3, <1>4, <1>5 DEF Put
<1>7. <<c, "R">> \in Pieces /\ <<c, "K">> \in Pieces
  BY <1>1 DEF Pieces, Sides
<1>8. IsBoard(b1)
  BY <1>1, <1>3, <1>7 DEF IsBoard
<1>. QED
  BY <1>6, <1>8


(* The same, square by square. *)
LEMMA SquaresAfter ==
    ASSUME NEW p, IsPosition(p), NEW m, Ordinary(p, m)
    PROVE  /\ DOMAIN MenAfter(p.board, m) = Bare(p, m) \cup {m.to}
           /\ MenAfter(p.board, m)[m.to] = Arriving(p, m)
           /\ \A x \in DOMAIN MenAfter(p.board, m) : x # m.to => MenAfter(p.board, m)[x] = p.board[x]
<1> DEFINE after == [x \in Bare(p, m) \cup {m.to} |-> IF x = m.to THEN Arriving(p, m) ELSE p.board[x]]
<1>1. MenAfter(p.board, m) = after
  BY BoardAfter
<1>2. /\ DOMAIN after = Bare(p, m) \cup {m.to} /\ after[m.to] = Arriving(p, m)
      /\ \A x \in DOMAIN after : x # m.to => after[x] = p.board[x]
  OBVIOUS
<1>. QED
  BY <1>1, <1>2

(* The same, square by square. *)
LEMMA SquaresCastled ==
    ASSUME NEW p, IsPosition(p), NEW kind \in Ways, CastleOpen(p, kind)
    PROVE  LET b == p.board  c == p.side
               h == Home(c)  g == Goal(c, kind)  st == Step(c, kind)  rc == RookCorner(c, kind)
               b1 == MenAfter(b, Move(h, g, kind, ""))
           IN /\ DOMAIN b1 = (DOMAIN b \ {h, rc}) \cup {g, st}
              /\ b1[g] = <<c, "K">> /\ b1[st] = <<c, "R">>
              /\ \A x \in DOMAIN b1 : x # g /\ x # st => b1[x] = b[x]
<1> DEFINE b == p.board
           c == p.side
           h == Home(c)
           g == Goal(c, kind)
           st == Step(c, kind)
           rc == RookCorner(c, kind)
<1>1. MenAfter(b, Move(h, g, kind, "")) =
        [x \in (DOMAIN b \ {h, rc}) \cup {g, st} |->
            IF x = st THEN <<c, "R">> ELSE IF x = g THEN <<c, "K">> ELSE b[x]]
  BY BoardCastled
<1>2. g # st
  BY CastleSquares, PositionParts
<1>. QED
  BY <1>1, <1>2

-----------------------------------------------------------------------------
(* Taking a move back *)

HasFields(p) == p = [board |-> p.board, side |-> p.side, rights |-> p.rights, ep |-> p.ep,
                     half |-> p.half, full |-> p.full, key |-> p.key]

(* What make_move assigns. *)
LEMMA MadeFields ==
    ASSUME NEW p, NEW m
    PROVE  LET q == make_move(p, m)
           IN /\ HasFields(q)
              /\ q.board = MenAfter(p.board, m) /\ q.side = Opposite(p.side)
              /\ q.rights = p.rights \ Revoked(m) /\ q.ep = Passed(p.board[m.from][1], m)
              /\ q.half = (IF p.board[m.from][2] = "P" \/ Taken(p.board, m) # << >> THEN 0 ELSE p.half + 1)
              /\ q.full = (IF p.side = "b" THEN p.full + 1 ELSE p.full)
              /\ q.key = KeyAfter(p, MenAfter(p.board, m), m, p.board[m.from], Taken(p.board, m),
                                  Passed(p.board[m.from][1], m), p.rights \ Revoked(m))
BY DEF make_move, HasFields

(* What the undo information remembers. *)
LEMMA TakenIs ==
    ASSUME NEW p, IsPosition(p), NEW m, m.from \in DOMAIN p.board, p.board[m.from][1] = p.side
    PROVE  /\ Taken(p.board, m) = << >> <=> CapturedAt(p.side, m) \notin DOMAIN p.board
           /\ CapturedAt(p.side, m) \in DOMAIN p.board => Taken(p.board, m) = p.board[CapturedAt(p.side, m)]
<1>1. Taken(p.board, m) = IF CapturedAt(p.side, m) \notin DOMAIN p.board THEN << >> ELSE p.board[CapturedAt(p.side, m)]
  BY DEF Taken, Empty
<1>2. ASSUME CapturedAt(p.side, m) \in DOMAIN p.board
      PROVE  p.board[CapturedAt(p.side, m)] # << >>
  <2>1. p.board[CapturedAt(p.side, m)] \in Pieces
    BY <1>2, PositionParts DEF IsBoard
  <2>. QED
    BY <2>1, PieceParts
<1>. QED
  BY <1>1, <1>2

(* The men after an ordinary move is taken back. *)
LEMMA MenUndone ==
    ASSUME NEW p, IsPosition(p), NEW m, Ordinary(p, m)
    PROVE  LET b == p.board
               cap == CapturedAt(p.side, m)
               back == Put(Lift(MenAfter(b, m), {m.to}), m.from, b[m.from])
           IN (IF Taken(b, m) = << >> THEN back ELSE Put(back, cap, Taken(b, m))) = b
<1> DEFINE b == p.board
           cap == CapturedAt(p.side, m)
           b1 == MenAfter(b, m)
           bare == Bare(p, m)
           back == Put(Lift(b1, {m.to}), m.from, b[m.from])
           base == [x \in bare \cup {m.from} |-> b[x]]
<1>1. m.from \in DOMAIN b /\ m.to # m.from /\ b[m.from][1] = p.side /\ cap # m.from
      /\ (cap = m.to \/ m.to \notin DOMAIN b) /\ b = [x \in DOMAIN b |-> b[x]]
  BY WhereTaken, PositionParts DEF Ordinary, Empty, IsBoard
<1>2. DOMAIN b1 = bare \cup {m.to} /\ \A x \in bare : x # m.to => b1[x] = b[x]
  <2>1. /\ DOMAIN MenAfter(p.board, m) = Bare(p, m) \cup {m.to}
        /\ \A x \in DOMAIN MenAfter(p.board, m) : x # m.to => MenAfter(p.board, m)[x] = p.board[x]
    BY SquaresAfter, Zenon
  <2>. QED
    BY <2>1
<1>3. m.to \notin bare
  BY <1>1 DEF Bare
<1>4. Lift(b1, {m.to}) = [x \in bare |-> b[x]]
  <2>1. DOMAIN b1 \ {m.to} = bare
    BY <1>2, <1>3
  <2>. QED
    BY <1>2, <1>3, <2>1 DEF Lift
<1>5. back = base
  BY <1>4 DEF Put
<1>6. CASE cap \notin DOMAIN b
  <2>1. Taken(b, m) = << >> /\ bare \cup {m.from} = DOMAIN b
    BY <1>1, <1>6, TakenIs DEF Bare
  <2>. QED
    BY <1>1, <1>5, <2>1
<1>7. CASE cap \in DOMAIN b
  <2>1. Taken(b, m) = b[cap] /\ Taken(b, m) # << >> /\ (bare \cup {m.from}) \cup {cap} = DOMAIN b
    BY <1>1, <1>7, TakenIs DEF Bare
  <2>2. Put(base, cap, b[cap]) = [x \in DOMAIN b |-> b[x]]
    BY <2>1 DEF Put
  <2>. QED
    BY <1>1, <1>5, <2>1, <2>2
<1>. QED
  BY <1>6, <1>7

(* The men after a castling move is taken back. *)
LEMMA CastleUndone ==
    ASSUME NEW p, IsPosition(p), NEW kind \in Ways, CastleOpen(p, kind)
    PROVE  LET b == p.board  c == p.side
               h == Home(c)  g == Goal(c, kind)  st == Step(c, kind)  rc == RookCorner(c, kind)
               b1 == MenAfter(b, Move(h, g, kind, ""))
           IN Put(Put(Lift(b1, {g} \cup {st}), h, b1[g]), rc, b1[st]) = b
<1> DEFINE b == p.board
           c == p.side
           h == Home(c)
           g == Goal(c, kind)
           st == Step(c, kind)
           rc == RookCorner(c, kind)
           b1 == MenAfter(b, Move(h, g, kind, ""))
           bare == DOMAIN b \ {h, rc}
<1>1. /\ h \in DOMAIN b /\ rc \in DOMAIN b /\ g \notin DOMAIN b /\ st \notin DOMAIN b
      /\ b[h] = <<c, "K">> /\ b[rc] = <<c, "R">> /\ b = [x \in DOMAIN b |-> b[x]]
  BY CastleFacts, PositionParts DEF Is, Empty, IsBoard
<1>2. g # st /\ h # rc
  BY CastleSquares, PositionParts
<1>3. /\ DOMAIN b1 = bare \cup {g, st} /\ b1[g] = <<c, "K">> /\ b1[st] = <<c, "R">>
      /\ \A x \in bare : x # g /\ x # st => b1[x] = b[x]
  BY SquaresCastled
<1>4. Lift(b1, {g} \cup {st}) = [x \in bare |-> b[x]]
  <2>1. DOMAIN b1 \ ({g} \cup {st}) = bare
    BY <1>1, <1>3
  <2>. QED
    BY <1>1, <1>3, <2>1 DEF Lift
<1>5. Put([x \in bare |-> b[x]], h, b1[g]) = [x \in bare \cup {h} |-> b[x]]
  BY <1>1, <1>3 DEF Put
<1>6. Put([x \in bare \cup {h} |-> b[x]], rc, b1[st]) = [x \in (bare \cup {h}) \cup {rc} |-> b[x]]
  BY <1>1, <1>3 DEF Put
<1>7. (bare \cup {h}) \cup {rc} = DOMAIN b
  BY <1>1
<1>. QED
  BY <1>1, <1>4, <1>5, <1>6, <1>7

(* undo_move after make_move is the position before. *)
LEMMA Undone ==
    ASSUME NEW p, IsPosition(p), HasFields(p), NEW m \in generate_pseudo_legal_moves(p)
    PROVE  undo_move(make_move(p, m), m, UndoInfo(p, m)) = p
<1> DEFINE b == p.board
           c == p.side
           q == make_move(p, m)
           u == UndoInfo(p, m)
<1>1. c \in Sides /\ Opposite(q.side) = c /\ q.board = MenAfter(b, m)
  BY MadeFields, PositionParts, UpIs
<1>2. u.captured = Taken(b, m) /\ u.rights = p.rights /\ u.ep = p.ep /\ u.half = p.half /\ u.key = p.key
  BY DEF UndoInfo
<1>3. (IF c = "b" THEN q.full - 1 ELSE q.full) = p.full
  <2>1. p.full \in Nat /\ q.full = (IF c = "b" THEN p.full + 1 ELSE p.full)
    BY MadeFields, PositionParts
  <2>. QED
    BY <2>1
<1> DEFINE back == Put(Lift(q.board, {m.to} \cup IF Castles(m) THEN {RookTo(m)} ELSE {}), m.from, UndoMan(q, m, c))
           men == IF u.captured = << >> THEN back ELSE Put(back, CapturedAt(c, m), u.captured)
           board == IF Castles(m) THEN Put(men, RookFrom(m), q.board[RookTo(m)]) ELSE men
<1>4. undo_move(q, m, u) = [board |-> board, side |-> c, rights |-> p.rights, ep |-> p.ep, half |-> p.half,
                            full |-> p.full, key |-> p.key]
  BY <1>1, <1>2, <1>3 DEF undo_move
<1>5. CASE Ordinary(p, m)
  <2>1. ~Castles(m) /\ m.from \in DOMAIN b /\ b[m.from][1] = c /\ m.to # m.from
        /\ (m.promo # "" => b[m.from][2] = "P")
    BY <1>5 DEF Ordinary, Castles
  <2>2. UndoMan(q, m, c) = b[m.from]
    <3>1. CASE m.promo = ""
      <4>1. q.board[m.to] = b[m.from]
        <5>1. MenAfter(p.board, m)[m.to] = Arriving(p, m)
          BY <1>5, SquaresAfter, Zenon
        <5>. QED
          BY <1>1, <3>1, <5>1 DEF Arriving
      <4>. QED
        BY <3>1, <4>1 DEF UndoMan
    <3>2. CASE m.promo # ""
      <4>1. PICK s \in DOMAIN b : s = m.from
        BY <2>1
      <4>2. b[s] = <<c, "P">> <=> b[s][1] = c /\ b[s][2] = "P"
        BY ManAt
      <4>. QED
        BY <2>1, <3>2, <4>1, <4>2 DEF UndoMan
    <3>. QED
      BY <3>1, <3>2
  <2>3. back = Put(Lift(MenAfter(b, m), {m.to}), m.from, b[m.from])
    <3>1. {m.to} \cup {} = {m.to}
      OBVIOUS
    <3>. QED
      BY <1>1, <2>1, <2>2, <3>1
  <2>4. board = b
    BY <1>2, <1>5, <2>1, <2>3, MenUndone
  <2>. QED
    BY <1>4, <2>4 DEF HasFields
<1>6. CASE CastleMove(p, m)
  <2>1. PICK kind \in Ways : m = Move(Home(c), Goal(c, kind), kind, "") /\ CastleOpen(p, kind)
    BY <1>6 DEF CastleMove
  <2>2. /\ Castles(m) /\ RookFrom(m) = RookCorner(c, kind) /\ RookTo(m) = Step(c, kind)
        /\ CapturedAt(c, m) = Goal(c, kind) /\ m.from = Home(c) /\ m.to = Goal(c, kind) /\ m.promo = ""
        /\ Home(c) \in DOMAIN b /\ b[Home(c)] = <<c, "K">> /\ Goal(c, kind) \notin DOMAIN b
    BY <2>1, CastleFacts DEF Is, Empty
  <2>3. Taken(b, m) = << >>
    <3>1. b[m.from][1] = c /\ m.from \in DOMAIN b
      <4>1. b[Home(c)] = <<c, "K">> => b[Home(c)][1] = c
        OBVIOUS
      <4>. QED
        BY <2>2, <4>1
    <3>. QED
      BY <2>2, <3>1, TakenIs
  <2>4. back = Put(Lift(q.board, {Goal(c, kind)} \cup {Step(c, kind)}), Home(c), q.board[Goal(c, kind)])
    BY <2>2 DEF UndoMan
  <2>5. board = Put(back, RookCorner(c, kind), q.board[Step(c, kind)])
    BY <1>2, <2>2, <2>3
  <2>6. q.board = MenAfter(b, Move(Home(c), Goal(c, kind), kind, ""))
    BY <1>1, <2>1
  <2>7. board = b
    BY <2>1, <2>4, <2>5, <2>6, CastleUndone
  <2>. QED
    BY <1>4, <2>7 DEF HasFields
<1>. QED
  BY <1>5, <1>6, PseudoShape

-----------------------------------------------------------------------------
(* The position key *)

(* What exclusive or with a word does to a set of words. *)
LEMMA XorIn == ASSUME NEW k, NEW w, NEW x
               PROVE  x \in (k ## w) <=> ~(x \in k <=> x \in w)
BY DEF ##, SymDiff

PieceWord(man, s) == <<"piece", man, s>>
ManKeys(b) == {PieceKey(b, s) : s \in DOMAIN b}

(* Words of different men or squares are different, and differ from all    *)
(* others.                                                                 *)
LEMMA WordsApart ==
    ASSUME NEW man, NEW man2, NEW s, NEW s2, NEW f, NEW rs
    PROVE  /\ PieceWord(man, s) = PieceWord(man2, s2) <=> man = man2 /\ s = s2
           /\ PieceWord(man, s) # <<"ep", f>> /\ PieceWord(man, s) # <<"castling", rs>>
           /\ PieceWord(man, s) # <<"side">> /\ <<"ep", f>> # <<"castling", rs>>
           /\ <<"ep", f>> # <<"side">> /\ <<"castling", rs>> # <<"side">>
BY DEF PieceWord

(* The words of the men are told by the men. *)
LEMMA MenWords ==
    ASSUME NEW b
    PROVE  /\ \A man, s : PieceWord(man, s) \in ManKeys(b) <=> s \in DOMAIN b /\ b[s] = man
           /\ \A x \in ManKeys(b) : \E man, s : x = PieceWord(man, s)
<1>1. \A x : x \in ManKeys(b) <=> \E s \in DOMAIN b : x = PieceWord(b[s], s)
  BY DEF ManKeys, PieceKey, PieceWord
<1>. QED
  BY <1>1, WordsApart

(* The words of the men, and those of everything else. *)
Rest(p) == SideKey(p.side) \cup {<<"castling", p.rights>>} \cup EpKey(p.ep)

(* The words of side, rights and en passant square. *)
LEMMA RestWords ==
    ASSUME NEW p
    PROVE  /\ compute_hash(p) = ManKeys(p.board) \cup Rest(p)
           /\ \A man, s : PieceWord(man, s) \notin Rest(p)
<1>1. compute_hash(p) = ManKeys(p.board) \cup Rest(p)
  BY DEF compute_hash, ManKeys, Rest
<1>2. ASSUME NEW man, NEW s
      PROVE  PieceWord(man, s) \notin Rest(p)
  BY WordsApart DEF Rest, SideKey, EpKey
<1>. QED
  BY <1>1, <1>2

(* How those change with a move. *)
LEMMA RestAfter ==
    ASSUME NEW p, p.side \in Sides, NEW q, q.side = Opposite(p.side), NEW x
    PROVE  x \in Rest(q) <=>
             x \in (Rest(p) ## EpKey(p.ep) ## EpKey(q.ep)
                            ## {<<"castling", p.rights>>} ## {<<"castling", q.rights>>} ## {<<"side">>})
<1>1. x \in SideKey(q.side) <=> (x = <<"side">> /\ x \notin SideKey(p.side))
  BY DEF SideKey, Opposite, Sides
<1>2. x \in SideKey(p.side) => x = <<"side">>
  BY DEF SideKey
<1>3. /\ x \in EpKey(p.ep) \/ x \in EpKey(q.ep) =>
             x # <<"side">> /\ x # <<"castling", p.rights>> /\ x # <<"castling", q.rights>>
      /\ x = <<"castling", p.rights>> \/ x = <<"castling", q.rights>> => x # <<"side">>
  BY WordsApart DEF EpKey
<1>4. /\ x \in Rest(p) <=> x \in SideKey(p.side) \/ x = <<"castling", p.rights>> \/ x \in EpKey(p.ep)
      /\ x \in Rest(q) <=> x \in SideKey(q.side) \/ x = <<"castling", q.rights>> \/ x \in EpKey(q.ep)
  BY DEF Rest
<1> DEFINE k1 == Rest(p) ## EpKey(p.ep)
           k2 == k1 ## EpKey(q.ep)
           k3 == k2 ## {<<"castling", p.rights>>}
           k4 == k3 ## {<<"castling", q.rights>>}
<1>5. /\ x \in k1 <=> ~(x \in Rest(p) <=> x \in EpKey(p.ep))
      /\ x \in k2 <=> ~(x \in k1 <=> x \in EpKey(q.ep))
      /\ x \in k3 <=> ~(x \in k2 <=> x = <<"castling", p.rights>>)
      /\ x \in k4 <=> ~(x \in k3 <=> x = <<"castling", q.rights>>)
      /\ x \in (k4 ## {<<"side">>}) <=> ~(x \in k4 <=> x = <<"side">>)
  BY XorIn
<1> HIDE DEF k1, k2, k3, k4
<1>6. x \in Rest(q) <=> x \in (k4 ## {<<"side">>})
  BY <1>1, <1>2, <1>3, <1>4, <1>5
<1>. QED
  BY <1>6 DEF k1, k2, k3, k4

(* What the key gains and loses with an ordinary move. *)
LEMMA MenAfterMove ==
    ASSUME NEW p, IsPosition(p), NEW m, Ordinary(p, m), NEW x
    PROVE  x \in ManKeys(MenAfter(p.board, m)) <=>
             x \in (ManKeys(p.board) ## {PieceWord(p.board[m.from], m.from)}
                                 ## TakenKey(p.side, m, Taken(p.board, m))
                                 ## {PieceWord(MenAfter(p.board, m)[m.to], m.to)})
<1> DEFINE b == p.board
           cap == CapturedAt(p.side, m)
           b1 == MenAfter(b, m)
           T == TakenKey(p.side, m, Taken(b, m))
           F == {PieceWord(b[m.from], m.from)}
           A == {PieceWord(b1[m.to], m.to)}
<1>1. /\ m.from \in DOMAIN b /\ b[m.from][1] = p.side /\ m.to # m.from /\ cap # m.from
      /\ (cap = m.to \/ m.to \notin DOMAIN b)
  BY WhereTaken DEF Ordinary, Empty
<1>2. /\ DOMAIN b1 = (DOMAIN b \ {m.from, cap}) \cup {m.to}
      /\ \A s \in DOMAIN b1 : s # m.to => b1[s] = b[s]
  <2>1. /\ DOMAIN MenAfter(p.board, m) = Bare(p, m) \cup {m.to}
        /\ \A s \in DOMAIN MenAfter(p.board, m) : s # m.to => MenAfter(p.board, m)[s] = p.board[s]
    BY SquaresAfter, Zenon
  <2>. QED
    BY <2>1 DEF Bare
<1>3. T = IF cap \in DOMAIN b THEN {PieceWord(b[cap], cap)} ELSE {}
  BY <1>1, TakenIs DEF TakenKey, PieceWord
<1>4. x \in (ManKeys(b) ## F ## T ## A) <=> ~(~(~(x \in ManKeys(b) <=> x \in F) <=> x \in T) <=> x \in A)
  BY XorIn
<1>5. CASE \E man, s : x = PieceWord(man, s)
  <2>1. PICK man, s : x = PieceWord(man, s)
    BY <1>5
  <2>2. /\ x \in ManKeys(b) <=> s \in DOMAIN b /\ b[s] = man
        /\ x \in ManKeys(b1) <=> s \in DOMAIN b1 /\ b1[s] = man
    BY <2>1, MenWords
  <2>3. /\ x \in F <=> s = m.from /\ man = b[m.from]
        /\ x \in A <=> s = m.to /\ man = b1[m.to]
        /\ x \in T <=> s = cap /\ cap \in DOMAIN b /\ man = b[cap]
    BY <1>3, <2>1, WordsApart
  <2> HIDE DEF b, cap, b1, T, F, A
  <2>4. x \in ManKeys(b1) <=> ~(~(~(x \in ManKeys(b) <=> x \in F) <=> x \in T) <=> x \in A)
    <3>1. CASE s = m.from
      BY <1>1, <1>2, <2>2, <2>3, <3>1
    <3>2. CASE s = m.to
      BY <1>1, <1>2, <2>2, <2>3, <3>2
    <3>3. CASE s = cap /\ cap # m.to
      BY <1>1, <1>2, <2>2, <2>3, <3>3
    <3>4. CASE s # m.from /\ s # m.to /\ s # cap
      BY <1>1, <1>2, <2>2, <2>3, <3>4
    <3>. QED
      BY <3>1, <3>2, <3>3, <3>4
  <2>. QED
    BY <1>4, <2>4 DEF b, cap, b1, T, F, A
<1>6. CASE ~\E man, s : x = PieceWord(man, s)
  <2>1. x \notin ManKeys(b) /\ x \notin ManKeys(b1) /\ x \notin F /\ x \notin A /\ x \notin T
    BY <1>3, <1>6, MenWords
  <2>. QED
    BY <1>4, <2>1
<1>. QED
  BY <1>5, <1>6

(* What the key gains and loses with a castling move. *)
LEMMA MenCastled ==
    ASSUME NEW p, IsPosition(p), NEW kind \in Ways, CastleOpen(p, kind), NEW x
    PROVE  LET b == p.board  c == p.side  h == Home(c)  g == Goal(c, kind)
               st == Step(c, kind)  rc == RookCorner(c, kind)
           IN x \in ManKeys(MenAfter(b, Move(h, g, kind, ""))) <=>
                x \in (ManKeys(b) ## {PieceWord(<<c, "K">>, h)}
                              ## {PieceWord(<<c, "R">>, rc), PieceWord(<<c, "R">>, st)}
                              ## {PieceWord(<<c, "K">>, g)})
<1> DEFINE b == p.board
           c == p.side
           h == Home(c)
           g == Goal(c, kind)
           st == Step(c, kind)
           rc == RookCorner(c, kind)
           b1 == MenAfter(b, Move(h, g, kind, ""))
           F == {PieceWord(<<c, "K">>, h)}
           R == {PieceWord(<<c, "R">>, rc), PieceWord(<<c, "R">>, st)}
           A == {PieceWord(<<c, "K">>, g)}
<1>1. /\ h \in DOMAIN b /\ rc \in DOMAIN b /\ g \notin DOMAIN b /\ st \notin DOMAIN b
      /\ b[h] = <<c, "K">> /\ b[rc] = <<c, "R">>
  BY CastleFacts DEF Is, Empty
<1>2. g # st /\ h # rc
  BY CastleSquares, PositionParts
<1>3. /\ DOMAIN b1 = (DOMAIN b \ {h, rc}) \cup {g, st} /\ b1[g] = <<c, "K">> /\ b1[st] = <<c, "R">>
      /\ \A s \in DOMAIN b1 : s # g /\ s # st => b1[s] = b[s]
  BY SquaresCastled
<1>4. x \in (ManKeys(b) ## F ## R ## A) <=> ~(~(~(x \in ManKeys(b) <=> x \in F) <=> x \in R) <=> x \in A)
  BY XorIn
<1>5. CASE \E man, s : x = PieceWord(man, s)
  <2>1. PICK man, s : x = PieceWord(man, s)
    BY <1>5
  <2>2. /\ x \in ManKeys(b) <=> s \in DOMAIN b /\ b[s] = man
        /\ x \in ManKeys(b1) <=> s \in DOMAIN b1 /\ b1[s] = man
    <3>1. \A a : PieceWord(man, s) \in ManKeys(a) <=> s \in DOMAIN a /\ a[s] = man
      BY MenWords, Zenon
    <3>. QED
      BY <2>1, <3>1
  <2>3. /\ x \in F <=> s = h /\ man = <<c, "K">>
        /\ x \in A <=> s = g /\ man = <<c, "K">>
        /\ x \in R <=> (s = rc \/ s = st) /\ man = <<c, "R">>
    BY <2>1, WordsApart
  <2> HIDE DEF b, h, g, st, rc, b1, R, F, A
  <2>4. x \in ManKeys(b1) <=> ~(~(~(x \in ManKeys(b) <=> x \in F) <=> x \in R) <=> x \in A)
    <3>1. CASE s = h
      BY <1>1, <1>2, <1>3, <2>2, <2>3, <3>1
    <3>2. CASE s = rc
      BY <1>1, <1>2, <1>3, <2>2, <2>3, <3>2
    <3>3. CASE s = g
      BY <1>1, <1>2, <1>3, <2>2, <2>3, <3>3
    <3>4. CASE s = st
      BY <1>1, <1>2, <1>3, <2>2, <2>3, <3>4
    <3>5. CASE s # h /\ s # rc /\ s # g /\ s # st
      BY <1>1, <1>2, <1>3, <2>2, <2>3, <3>5
    <3>. QED
      BY <3>1, <3>2, <3>3, <3>4, <3>5
  <2>. QED
    BY <1>4, <2>4 DEF b, h, g, st, rc, b1, R, F, A
<1>6. CASE ~\E man, s : x = PieceWord(man, s)
  <2>1. x \notin ManKeys(b) /\ x \notin ManKeys(b1) /\ x \notin F /\ x \notin A /\ x \notin R
    BY <1>6, MenWords
  <2>. QED
    BY <1>4, <2>1
<1>. QED
  BY <1>5, <1>6

(* The key make_move keeps up is the key of the position it makes. *)
LEMMA KeyKept ==
    ASSUME NEW p, IsPosition(p), p.key = compute_hash(p), NEW m, Ordinary(p, m) \/ CastleMove(p, m)
    PROVE  make_move(p, m).key = compute_hash(make_move(p, m))
<1> DEFINE q == make_move(p, m)
           man == p.board[m.from]
           F == {PieceWord(man, m.from)}
           R == IF Castles(m) THEN {PieceWord(<<man[1], "R">>, RookFrom(m)), PieceWord(<<man[1], "R">>, RookTo(m))}
                ELSE {}
           T == TakenKey(man[1], m, Taken(p.board, m))
           A == {PieceWord(q.board[m.to], m.to)}
           E1 == EpKey(p.ep)
           E2 == EpKey(q.ep)
           C1 == {<<"castling", p.rights>>}
           C2 == {<<"castling", q.rights>>}
           W == {<<"side">>}
<1>1. /\ q.board = MenAfter(p.board, m) /\ q.side = Opposite(p.side)
      /\ q.key = KeyAfter(p, MenAfter(p.board, m), m, man, Taken(p.board, m), q.ep, q.rights)
  BY MadeFields
<1>2. q.key = p.key ## F ## R ## T ## A ## E1 ## E2 ## C1 ## C2 ## W
  BY <1>1 DEF KeyAfter, PieceWord
<1>3. ASSUME NEW x
      PROVE  x \in ManKeys(q.board) <=> x \in (ManKeys(p.board) ## F ## R ## T ## A)
  <2>1. CASE Ordinary(p, m)
    <3>1. /\ x \in (ManKeys(p.board) ## F ## R ## T ## A) <=>
               ~(~(~(~(x \in ManKeys(p.board) <=> x \in F) <=> x \in R) <=> x \in T) <=> x \in A)
          /\ x \in (ManKeys(p.board) ## F ## T ## A) <=> ~(~(~(x \in ManKeys(p.board) <=> x \in F) <=> x \in T) <=> x \in A)
      BY XorIn
    <3>2. ~Castles(m) /\ man[1] = p.side
      BY <2>1 DEF Ordinary, Castles
    <3>3. x \notin R
      BY <3>2
    <3>4. x \in ManKeys(q.board) <=> x \in (ManKeys(p.board) ## F ## T ## A)
      BY <1>1, <2>1, <3>2, MenAfterMove
    <3> HIDE DEF F, R, T, A, q
    <3>. QED
      BY <3>1, <3>3, <3>4
  <2>2. CASE CastleMove(p, m)
    <3>1. PICK kind \in Ways : m = Move(Home(p.side), Goal(p.side, kind), kind, "") /\ CastleOpen(p, kind)
      BY <2>2 DEF CastleMove
    <3> DEFINE c == p.side
               h == Home(c)
               g == Goal(c, kind)
               st == Step(c, kind)
               rc == RookCorner(c, kind)
    <3>2. /\ Castles(m) /\ RookFrom(m) = rc /\ RookTo(m) = st /\ m.from = h /\ m.to = g
          /\ CapturedAt(c, m) = g /\ h \in DOMAIN p.board /\ man = <<c, "K">> /\ g \notin DOMAIN p.board
      BY <3>1, CastleFacts DEF Is, Empty
    <3>3. man[1] = c
      BY <3>2
    <3>4. T = {}
      BY <3>2, <3>3, TakenIs DEF TakenKey
    <3>5. q.board[m.to] = <<c, "K">>
      BY <1>1, <3>1, <3>2, SquaresCastled
    <3>6. R = {PieceWord(<<c, "R">>, rc), PieceWord(<<c, "R">>, st)}
      BY <3>2, <3>3
    <3>7. F = {PieceWord(<<c, "K">>, h)} /\ A = {PieceWord(<<c, "K">>, g)}
      BY <3>2, <3>5
    <3>8. x \in ManKeys(q.board) <=> x \in (ManKeys(p.board) ## F ## R ## A)
      BY <1>1, <3>1, <3>6, <3>7, MenCastled
    <3>9. /\ x \in (ManKeys(p.board) ## F ## R ## T ## A) <=>
               ~(~(~(~(x \in ManKeys(p.board) <=> x \in F) <=> x \in R) <=> x \in T) <=> x \in A)
          /\ x \in (ManKeys(p.board) ## F ## R ## A) <=> ~(~(~(x \in ManKeys(p.board) <=> x \in F) <=> x \in R) <=> x \in A)
      BY XorIn
    <3>10. x \notin T
      BY <3>4
    <3> HIDE DEF F, R, T, A, q
    <3>. QED
      BY <3>8, <3>9, <3>10
  <2>. QED
    BY <2>1, <2>2
<1>4. ASSUME NEW x
      PROVE  x \in Rest(q) <=> x \in (Rest(p) ## E1 ## E2 ## C1 ## C2 ## W)
  BY <1>1, PositionParts, RestAfter
<1>5. /\ p.key = ManKeys(p.board) \cup Rest(p) /\ compute_hash(q) = ManKeys(q.board) \cup Rest(q)
      /\ \A x : ~(x \in ManKeys(p.board) /\ x \in Rest(p)) /\ ~(x \in ManKeys(q.board) /\ x \in Rest(q))
  BY RestWords, MenWords
<1> HIDE DEF F, R, T, A, E1, E2, C1, C2, W, q
<1>6. ASSUME NEW x
      PROVE  x \in (p.key ## F ## R ## T ## A ## E1 ## E2 ## C1 ## C2 ## W) <=> x \in ManKeys(q.board) \cup Rest(q)
  <2> DEFINE k1 == p.key ## F
             k2 == k1 ## R
             k3 == k2 ## T
             k4 == k3 ## A
             k5 == k4 ## E1
             k6 == k5 ## E2
             k7 == k6 ## C1
             k8 == k7 ## C2
             k9 == k8 ## W
             j1 == ManKeys(p.board) ## F
             j2 == j1 ## R
             j3 == j2 ## T
             j4 == j3 ## A
             i5 == Rest(p) ## E1
             i6 == i5 ## E2
             i7 == i6 ## C1
             i8 == i7 ## C2
             i9 == i8 ## W
  <2>1. /\ x \in k1 <=> ~(x \in p.key <=> x \in F)
        /\ x \in k2 <=> ~(x \in k1 <=> x \in R)
        /\ x \in k3 <=> ~(x \in k2 <=> x \in T)
        /\ x \in k4 <=> ~(x \in k3 <=> x \in A)
        /\ x \in k5 <=> ~(x \in k4 <=> x \in E1)
        /\ x \in k6 <=> ~(x \in k5 <=> x \in E2)
        /\ x \in k7 <=> ~(x \in k6 <=> x \in C1)
        /\ x \in k8 <=> ~(x \in k7 <=> x \in C2)
        /\ x \in k9 <=> ~(x \in k8 <=> x \in W)
    BY XorIn
  <2>2. /\ x \in j1 <=> ~(x \in ManKeys(p.board) <=> x \in F)
        /\ x \in j2 <=> ~(x \in j1 <=> x \in R)
        /\ x \in j3 <=> ~(x \in j2 <=> x \in T)
        /\ x \in j4 <=> ~(x \in j3 <=> x \in A)
    BY XorIn
  <2>3. /\ x \in i5 <=> ~(x \in Rest(p) <=> x \in E1)
        /\ x \in i6 <=> ~(x \in i5 <=> x \in E2)
        /\ x \in i7 <=> ~(x \in i6 <=> x \in C1)
        /\ x \in i8 <=> ~(x \in i7 <=> x \in C2)
        /\ x \in i9 <=> ~(x \in i8 <=> x \in W)
    BY XorIn
  <2>4. (x \in ManKeys(q.board) <=> x \in j4) /\ (x \in Rest(q) <=> x \in i9)
    BY <1>3, <1>4
  <2> HIDE DEF k1, k2, k3, k4, k5, k6, k7, k8, k9, j1, j2, j3, j4, i5, i6, i7, i8, i9
  <2>5. x \in k9 <=> x \in ManKeys(q.board) \cup Rest(q)
    BY <1>5, <2>1, <2>2, <2>3, <2>4
  <2>. QED
    BY <2>5 DEF k1, k2, k3, k4, k5, k6, k7, k8, k9
<1>7. q.key = compute_hash(q)
  BY <1>2, <1>5, <1>6
<1>. QED
  BY <1>7 DEF q

-----------------------------------------------------------------------------
(* Positions lead to positions *)

(* make_move drops the rights of a king or a rook that leaves home or is   *)
(* taken there.                                                            *)
LEMMA RightsKept ==
    ASSUME NEW p, IsPosition(p), NEW m, Ordinary(p, m) \/ CastleMove(p, m)
    PROVE  RightsBacked(make_move(p, m))
<1> DEFINE q == make_move(p, m)
           b == p.board
           b1 == MenAfter(b, m)
<1>1. q.rights = p.rights \ Revoked(m) /\ q.board = b1
  BY MadeFields
<1>2. SUFFICES ASSUME NEW r \in p.rights \ Revoked(m), NEW d, d = IF r \in {"K", "Q"} THEN "w" ELSE "b"
               PROVE  Is(b1, KingHome[r], d, "K") /\ Is(b1, Corner[r], d, "R")
  BY <1>1 DEF RightsBacked
<1> DEFINE kh == KingHome[r]
           cn == Corner[r]
<1>3. /\ kh \in DOMAIN b /\ b[kh] = <<d, "K">> /\ cn \in DOMAIN b /\ b[cn] = <<d, "R">>
      /\ kh # m.from /\ cn # m.from /\ cn # m.to
  <2>1. Is(b, kh, d, "K") /\ Is(b, cn, d, "R") /\ r \in DOMAIN Corner
    BY <1>2, PositionParts DEF RightsBacked
  <2>. QED
    BY <1>2, <2>1 DEF Is, Revoked
<1>4. /\ b[kh][1] = d /\ b[kh][2] = "K" /\ b[cn][1] = d /\ b[cn][2] = "R"
  BY <1>3
<1> HIDE DEF kh, cn
<1>5. CASE Ordinary(p, m)
  <2> DEFINE cap == CapturedAt(p.side, m)
  <2>1. /\ cap = m.to \/ m.to \notin DOMAIN b
        /\ m.kind # "ep" => cap = m.to
        /\ m.kind = "ep" => cap \in DOMAIN b /\ b[cap][2] = "P"
        /\ \A k \in DOMAIN b : b[k][2] = "K" => k # cap
    <3>1. Is(b, cap, Opposite(p.side), "P") => cap \in DOMAIN b /\ b[cap][2] = "P"
      BY DEF Is
    <3>. QED
      BY <1>5, <3>1, WhereTaken DEF Empty
  <2>2. kh # cap /\ kh # m.to /\ cn # cap
    BY <1>3, <1>4, <2>1
  <2>3. /\ DOMAIN b1 = (DOMAIN b \ {m.from, cap}) \cup {m.to}
        /\ \A s \in DOMAIN b1 : s # m.to => b1[s] = b[s]
    <3>1. /\ DOMAIN MenAfter(p.board, m) = Bare(p, m) \cup {m.to}
          /\ \A s \in DOMAIN MenAfter(p.board, m) : s # m.to => MenAfter(p.board, m)[s] = p.board[s]
      BY <1>5, SquaresAfter, Zenon
    <3>. QED
      BY <3>1 DEF Bare
  <2> HIDE DEF cap, b1
  <2>4. kh \in DOMAIN b1 /\ b1[kh] = <<d, "K">> /\ cn \in DOMAIN b1 /\ b1[cn] = <<d, "R">>
    BY <1>3, <2>2, <2>3
  <2>. QED
    BY <2>4 DEF kh, cn, Is, b1
<1>6. CASE CastleMove(p, m)
  <2>1. PICK kind \in Ways : m = Move(Home(p.side), Goal(p.side, kind), kind, "") /\ CastleOpen(p, kind)
    BY <1>6 DEF CastleMove
  <2> DEFINE c == p.side
             h == Home(c)
             g == Goal(c, kind)
             st == Step(c, kind)
             rc == RookCorner(c, kind)
  <2>2. /\ h \in DOMAIN b /\ rc \in DOMAIN b /\ g \notin DOMAIN b /\ st \notin DOMAIN b
        /\ b[h] = <<c, "K">> /\ b[rc] = <<c, "R">> /\ m.from = h
    BY <2>1, CastleFacts DEF Is, Empty
  <2>3. /\ DOMAIN b1 = (DOMAIN b \ {h, rc}) \cup {g, st}
        /\ \A s \in DOMAIN b1 : s # g /\ s # st => b1[s] = b[s]
    BY <2>1, SquaresCastled
  <2>4. b[rc][2] = "R"
    BY <2>2
  <2>5. kh # rc /\ kh # h
    BY <1>3, <1>4, <2>2, <2>4
  <2>6. cn # rc
    <3>1. /\ Right(c, kind) \in DOMAIN Corner /\ KingHome[Right(c, kind)] = h /\ Corner[Right(c, kind)] = rc
      BY CastleSquares, PositionParts
    <3>2. \A i, j \in DOMAIN Corner : Corner[i] = Corner[j] => i = j
      BY DEF Corner
    <3>3. r \in DOMAIN Corner
      BY PositionParts
    <3>4. r # Right(c, kind)
      BY <1>3, <2>2, <3>1 DEF kh
    <3>. QED
      BY <3>1, <3>2, <3>3, <3>4 DEF cn
  <2>7. cn # h
    BY <1>3, <2>2
  <2> HIDE DEF h, g, st, rc, b1
  <2>8. kh \in DOMAIN b1 /\ b1[kh] = <<d, "K">> /\ cn \in DOMAIN b1 /\ b1[cn] = <<d, "R">>
    BY <1>3, <2>2, <2>3, <2>5, <2>6, <2>7
  <2>. QED
    BY <2>8 DEF kh, cn, Is, b1
<1>. QED
  BY <1>5, <1>6

(* A pawn's double step leaves a square of its third rank behind. *)
LEMMA DoubleStep ==
    ASSUME NEW c \in Sides, NEW s \in Squares, rank_of(s) = HomeRank(c) + Up(c)
    PROVE  /\ s + 8 * Up(c) \in Squares /\ (s + 16 * Up(c)) - 8 * Up(c) = s + 8 * Up(c)
           /\ s + 8 * Up(c) # s + 16 * Up(c)
           /\ rank_of(s + 8 * Up(c)) = IF Opposite(c) = "w" THEN 5 ELSE 2
           /\ (s + 8 * Up(c)) - 8 * Up(Opposite(c)) = s + 16 * Up(c)
<1>1. /\ s + 16 * 1 - 8 * 1 = s + 8 * 1 /\ s + 16 * (-1) - 8 * (-1) = s + 8 * (-1)
      /\ s + 8 * 1 - 8 * (-1) = s + 16 * 1 /\ s + 8 * (-1) - 8 * 1 = s + 16 * (-1)
      /\ s + 8 * 1 # s + 16 * 1 /\ s + 8 * (-1) # s + 16 * (-1)
  BY DEF Squares
<1>2. CASE c = "w"
  <2>1. Up(c) = 1 /\ Up(Opposite(c)) = -1 /\ Opposite(c) = "b" /\ HomeRank(c) = 0
    BY <1>2 DEF Up, Opposite, HomeRank
  <2>2. rank_of(s) = 1
    BY <2>1
  <2>3. s + 8 * 1 \in Squares /\ rank_of(s + 8 * 1) = 2
    BY <2>2 DEF Squares, rank_of
  <2>4. PICK u, v \in Int : u = 1 /\ v = (-1) /\ Up(c) = u /\ Up(Opposite(c)) = v
    BY <2>1
  <2>5. /\ s + 8 * u \in Squares /\ s + 16 * u - 8 * u = s + 8 * u /\ s + 8 * u # s + 16 * u
        /\ rank_of(s + 8 * u) = IF Opposite(c) = "w" THEN 5 ELSE 2
        /\ s + 8 * u - 8 * v = s + 16 * u
    BY <1>1, <2>1, <2>3, <2>4
  <2>. QED
    BY <2>4, <2>5 DEF Squares
<1>3. CASE c = "b"
  <2>1. Up(c) = -1 /\ Up(Opposite(c)) = 1 /\ Opposite(c) = "w" /\ HomeRank(c) = 7
    BY <1>3 DEF Up, Opposite, HomeRank
  <2>2. rank_of(s) = 6
    BY <2>1
  <2>3. s + 8 * (-1) \in Squares /\ rank_of(s + 8 * (-1)) = 5
    BY <2>2 DEF Squares, rank_of
  <2>4. PICK u, v \in Int : u = (-1) /\ v = 1 /\ Up(c) = u /\ Up(Opposite(c)) = v
    BY <2>1
  <2>5. /\ s + 8 * u \in Squares /\ s + 16 * u - 8 * u = s + 8 * u /\ s + 8 * u # s + 16 * u
        /\ rank_of(s + 8 * u) = IF Opposite(c) = "w" THEN 5 ELSE 2
        /\ s + 8 * u - 8 * v = s + 16 * u
    BY <1>1, <2>1, <2>3, <2>4
  <2>. QED
    BY <2>4, <2>5 DEF Squares
<1>. QED
  BY <1>2, <1>3 DEF Sides

(* The en passant square make_move sets lies behind a pawn that passed     *)
(* it.                                                                     *)
LEMMA PassedKept ==
    ASSUME NEW p, IsPosition(p), NEW m, Ordinary(p, m) \/ CastleMove(p, m)
    PROVE  PawnPassed(make_move(p, m))
<1> DEFINE q == make_move(p, m)
           b == p.board
           c == p.side
<1>1. /\ q.board = MenAfter(b, m) /\ q.side = Opposite(c) /\ q.ep = Passed(b[m.from][1], m)
      /\ c \in Sides
  BY MadeFields, PositionParts
<1>2. CASE m.kind # "double"
  BY <1>1, <1>2 DEF PawnPassed, Passed
<1>3. CASE m.kind = "double"
  <2>1. Ordinary(p, m)
    <3>1. \A kind \in Ways : Move(Home(c), Goal(c, kind), kind, "").kind # "double"
      BY DEF Ways, Move
    <3>. QED
      BY <1>3, <3>1 DEF CastleMove
  <2>2. /\ m.from \in DOMAIN b /\ b[m.from][1] = c /\ b[m.from][2] = "P" /\ m.promo = ""
        /\ rank_of(m.from) = HomeRank(c) + Up(c) /\ m.to = m.from + 16 * Up(c) /\ m.to \in Squares
        /\ Empty(b, m.from + 8 * Up(c))
    BY <1>3, <2>1 DEF Ordinary
  <2>3. m.from \in Squares
    BY <2>2, PositionParts DEF IsBoard
  <2>4. q.ep = m.to - 8 * Up(c)
    BY <1>1, <1>3, <2>2 DEF Passed
  <2>5. /\ q.ep = m.from + 8 * Up(c) /\ q.ep \in Squares /\ q.ep # m.to
        /\ rank_of(q.ep) = IF q.side = "w" THEN 5 ELSE 2
        /\ q.ep - 8 * Up(q.side) = m.to
    <3>1. PICK s \in Squares : s = m.from
      BY <2>3
    <3>2. /\ s + 8 * Up(c) \in Squares /\ (s + 16 * Up(c)) - 8 * Up(c) = s + 8 * Up(c)
          /\ s + 8 * Up(c) # s + 16 * Up(c)
          /\ rank_of(s + 8 * Up(c)) = IF Opposite(c) = "w" THEN 5 ELSE 2
          /\ (s + 8 * Up(c)) - 8 * Up(Opposite(c)) = s + 16 * Up(c)
      BY <1>1, <2>2, <3>1, DoubleStep
    <3>3. q.ep = s + 8 * Up(c) /\ m.to = s + 16 * Up(c)
      BY <2>2, <2>4, <3>1, <3>2
    <3>. QED
      BY <1>1, <3>1, <3>2, <3>3
  <2>6. /\ DOMAIN MenAfter(b, m) = Bare(p, m) \cup {m.to} /\ MenAfter(b, m)[m.to] = Arriving(p, m)
    BY <2>1, SquaresAfter, Zenon
  <2>7. Empty(q.board, q.ep)
    BY <1>1, <2>2, <2>5, <2>6 DEF Empty, Bare
  <2>8. Is(q.board, m.to, c, "P")
    <3>1. Arriving(p, m) = b[m.from]
      BY <2>2 DEF Arriving
    <3>2. PICK s \in DOMAIN b : s = m.from
      BY <2>2
    <3>3. b[s] = <<c, "P">>
      <4>1. b[s] = <<c, "P">> <=> b[s][1] = c /\ b[s][2] = "P"
        BY ManAt
      <4>. QED
        BY <2>2, <3>2, <4>1
    <3>. QED
      BY <1>1, <2>6, <3>1, <3>2, <3>3 DEF Is
  <2>9. Opposite(q.side) = c
    BY <1>1, UpIs
  <2>. QED
    BY <2>5, <2>7, <2>8, <2>9 DEF PawnPassed
<1>. QED
  BY <1>2, <1>3

(* Each side has its one king after a move. *)
LEMMA KingsKept ==
    ASSUME NEW p, IsPosition(p), NEW m, Ordinary(p, m) \/ CastleMove(p, m), NEW d \in Sides
    PROVE  OneKing(MenAfter(p.board, m), d)
<1> DEFINE b == p.board
           b1 == MenAfter(b, m)
<1>1. PICK k \in DOMAIN b : \A s \in DOMAIN b : b[s] = <<d, "K">> <=> s = k
  <2>1. OneKing(p.board, d)
    BY PositionParts
  <2>. QED
    BY <2>1 DEF OneKing
<1>2. b[k] = <<d, "K">> /\ b[k][1] = d /\ b[k][2] = "K"
  BY <1>1
<1>3. CASE Ordinary(p, m)
  <2> DEFINE cap == CapturedAt(p.side, m)
             new == IF k = m.from THEN m.to ELSE k
  <2>1. /\ cap = m.to \/ m.to \notin DOMAIN b
        /\ k # cap /\ m.from \in DOMAIN b
    BY <1>2, <1>3, WhereTaken DEF Empty, Ordinary
  <2>2. /\ DOMAIN b1 = (DOMAIN b \ {m.from, cap}) \cup {m.to}
        /\ \A s \in DOMAIN b1 : s # m.to => b1[s] = b[s]
        /\ b1[m.to] = Arriving(p, m)
    <3>1. /\ DOMAIN MenAfter(p.board, m) = Bare(p, m) \cup {m.to}
          /\ MenAfter(p.board, m)[m.to] = Arriving(p, m)
          /\ \A s \in DOMAIN MenAfter(p.board, m) : s # m.to => MenAfter(p.board, m)[s] = p.board[s]
      BY <1>3, SquaresAfter, Zenon
    <3>. QED
      BY <3>1 DEF Bare
  <2>3. Arriving(p, m) = <<d, "K">> <=> k = m.from
    <3>1. Arriving(p, m)[2] = "K" <=> b[m.from][2] = "K"
      BY <1>3, BoardAfter
    <3>2. b[m.from][2] = "K" => Arriving(p, m) = b[m.from]
      BY <1>3 DEF Arriving, Ordinary
    <3>3. b[m.from] = <<d, "K">> <=> k = m.from
      BY <1>1, <2>1
    <3>4. /\ Arriving(p, m) = <<d, "K">> => Arriving(p, m)[2] = "K"
          /\ b[m.from] = <<d, "K">> => b[m.from][2] = "K"
      OBVIOUS
    <3>. QED
      BY <3>1, <3>2, <3>3, <3>4
  <2> HIDE DEF cap, b1
  <2>4. new \in DOMAIN b1
    BY <2>1, <2>2
  <2>5. ASSUME NEW s \in DOMAIN b1
        PROVE  b1[s] = <<d, "K">> <=> s = new
    <3>1. CASE s = m.to
      BY <2>1, <2>2, <2>3, <3>1
    <3>2. CASE s # m.to
      BY <1>1, <2>1, <2>2, <3>2
    <3>. QED
      BY <3>1, <3>2
  <2>. QED
    BY <2>4, <2>5 DEF OneKing, b1
<1>4. CASE CastleMove(p, m)
  <2>1. PICK kind \in Ways : m = Move(Home(p.side), Goal(p.side, kind), kind, "") /\ CastleOpen(p, kind)
    BY <1>4 DEF CastleMove
  <2> DEFINE c == p.side
             h == Home(c)
             g == Goal(c, kind)
             st == Step(c, kind)
             rc == RookCorner(c, kind)
             new == IF k = h THEN g ELSE k
  <2>2. /\ h \in DOMAIN b /\ rc \in DOMAIN b /\ g \notin DOMAIN b /\ st \notin DOMAIN b
        /\ b[h] = <<c, "K">> /\ b[rc] = <<c, "R">>
    BY <2>1, CastleFacts DEF Is, Empty
  <2>3. /\ DOMAIN b1 = (DOMAIN b \ {h, rc}) \cup {g, st} /\ b1[g] = <<c, "K">> /\ b1[st] = <<c, "R">>
        /\ \A s \in DOMAIN b1 : s # g /\ s # st => b1[s] = b[s]
    BY <2>1, SquaresCastled
  <2>4. g # st /\ h # rc
    BY CastleSquares, PositionParts
  <2>5. k # rc /\ (k = h <=> c = d) /\ <<c, "R">> # <<d, "K">> /\ (<<c, "K">> = <<d, "K">> <=> c = d)
    <3>1. <<c, "R">> # <<d, "K">> /\ (<<c, "K">> = <<d, "K">> <=> c = d)
      OBVIOUS
    <3>. QED
      BY <1>1, <1>2, <2>2, <3>1
  <2> HIDE DEF h, g, st, rc, b1
  <2>6. new \in DOMAIN b1
    BY <2>2, <2>3, <2>5
  <2>7. ASSUME NEW s \in DOMAIN b1
        PROVE  b1[s] = <<d, "K">> <=> s = new
    <3>1. CASE s = g
      BY <2>2, <2>3, <2>5, <3>1
    <3>2. CASE s = st
      BY <2>2, <2>3, <2>4, <2>5, <3>2
    <3>3. CASE s # g /\ s # st
      BY <1>1, <2>2, <2>3, <2>5, <3>3
    <3>. QED
      BY <3>1, <3>2, <3>3
  <2>. QED
    BY <2>6, <2>7 DEF OneKing, b1
<1>. QED
  BY <1>3, <1>4

(* A legal move leads from a position to a position. *)
LEMMA PositionKept ==
    ASSUME NEW p, IsPosition(p), NEW m \in generate_legal_moves(p)
    PROVE  IsPosition(make_move(p, m)) /\ (Ordinary(p, m) \/ CastleMove(p, m))
<1> DEFINE q == make_move(p, m)
           c == p.side
<1>1. m \in generate_pseudo_legal_moves(p) /\ ~is_in_check(MenAfter(p.board, m), c)
  BY DEF generate_legal_moves
<1>2. Ordinary(p, m) \/ CastleMove(p, m)
  BY <1>1, PseudoShape
<1>3. /\ q.board = MenAfter(p.board, m) /\ q.side = Opposite(c) /\ q.rights = p.rights \ Revoked(m)
      /\ q.half = (IF p.board[m.from][2] = "P" \/ Taken(p.board, m) # << >> THEN 0 ELSE p.half + 1)
      /\ q.full = (IF c = "b" THEN p.full + 1 ELSE p.full)
  BY MadeFields
<1>4. /\ c \in Sides /\ p.rights \subseteq DOMAIN Corner /\ p.half \in Nat /\ p.full \in Nat
  BY PositionParts
<1>5. IsBoard(q.board)
  <2>1. CASE Ordinary(p, m)
    BY <1>3, <2>1, BoardAfter
  <2>2. CASE CastleMove(p, m)
    <3>1. PICK kind \in Ways : m = Move(Home(c), Goal(c, kind), kind, "") /\ CastleOpen(p, kind)
      BY <2>2 DEF CastleMove
    <3>2. IsBoard(MenAfter(p.board, m))
      BY <3>1, BoardCastled
    <3>. QED
      BY <1>3, <3>2
  <2>. QED
    BY <1>2, <2>1, <2>2
<1>6. q.side \in {"w", "b"} /\ Opposite(q.side) = c
  BY <1>3, <1>4, UpIs DEF Sides
<1>7. q.half \in Nat /\ q.full \in Nat /\ q.rights \subseteq DOMAIN Corner
  BY <1>3, <1>4
<1>8. OneKing(q.board, "w") /\ OneKing(q.board, "b")
  BY <1>2, <1>3, KingsKept DEF Sides
<1>9. ~is_in_check(q.board, Opposite(q.side))
  BY <1>1, <1>3, <1>6
<1>10. RightsBacked(q) /\ PawnPassed(q)
  BY <1>2, RightsKept, PassedKept
<1> HIDE DEF q, c
<1>11. IsPosition(q)
  BY <1>5, <1>6, <1>7, <1>8, <1>9, <1>10 DEF IsPosition
<1>. QED
  BY <1>2, <1>11 DEF q

-----------------------------------------------------------------------------
(* Games *)

(* A pawn goes two ranks only in a double step. *)
LEMMA OneRankAhead ==
    ASSUME NEW p, IsPosition(p), NEW m \in generate_pseudo_legal_moves(p),
           Is(MenAfter(p.board, m), m.to, p.side, "P"), m.kind # "double"
    PROVE  Abs(m.to - m.from) # 16
<1> DEFINE b == p.board
           c == p.side
<1>1. IsBoard(b) /\ c \in Sides
  BY PositionParts
<1>2. CASE Ordinary(p, m)
  <2>1. /\ MenAfter(b, m)[m.to] = Arriving(p, m) /\ (Arriving(p, m)[2] = "K" <=> b[m.from][2] = "K")
    <3>1. MenAfter(p.board, m)[m.to] = Arriving(p, m)
      BY <1>2, SquaresAfter, Zenon
    <3>2. Arriving(p, m)[2] = "K" <=> p.board[m.from][2] = "K"
      BY <1>2, BoardAfter
    <3>. QED
      BY <3>1, <3>2
  <2>2. Arriving(p, m)[2] = "P"
    BY <2>1 DEF Is
  <2>3. b[m.from][2] = "P"
    BY <1>2, <2>2 DEF Arriving, Ordinary
  <2>4. PICK s \in DOMAIN b : b[s][1] = c /\ m \in MovesOf(p, s)
    BY DEF generate_pseudo_legal_moves
  <2>5. m.from = s
    <3>1. CASE b[s][2] = "P"
      <4>1. PawnMove(p, s, m)
        BY <1>1, <2>4, <3>1, PawnsMoves
      <4>2. \A t, kind, q : Move(s, t, kind, q).from = s
        BY DEF Move
      <4>. QED
        BY <4>1, <4>2 DEF PawnMove
    <3>2. CASE b[s][2] # "P"
      <4>1. ~CastleMove(p, m)
        <5>1. \A kind \in Ways : Move(Home(c), Goal(c, kind), kind, "").kind \notin {"", "double", "ep"}
          BY DEF Ways, Move
        <5>. QED
          BY <1>2, <5>1 DEF CastleMove, Ordinary
      <4>2. OfficerMove(p, s, m)
        BY <1>1, <2>4, <3>2, <4>1, OfficersMoves, CastlesAre
      <4>3. \A t : Move(s, t, "", "").from = s
        BY DEF Move
      <4>. QED
        BY <4>2, <4>3 DEF OfficerMove
    <3>. QED
      BY <3>1, <3>2
  <2>6. PawnMove(p, s, m)
    BY <1>1, <2>3, <2>4, <2>5, PawnsMoves
  <2>7. PICK t \in Squares : m.to = t /\ Rise(s, t) = Up(c) /\ Abs(Shift(s, t)) <= 1
    <3>1. \A t, kind, q : m = Move(s, t, kind, q) => m.to = t /\ m.kind = kind
      BY DEF Move
    <3>2. \A t \in Squares : Attacks(b, s, t) => Rise(s, t) = Up(c) /\ Abs(Shift(s, t)) = 1
      BY <1>1, <2>3, <2>4, <2>5, AttackForms
    <3>3. Abs(0) <= 1 /\ 1 <= 1
      BY DEF Abs
    <3>4. \E t \in Squares : m.to = t /\ ((Rise(s, t) = Up(c) /\ Shift(s, t) = 0) \/ Attacks(b, s, t))
      <4>1. m.kind # "double"
        OBVIOUS
      <4>2. PICK t \in Squares : \E q \in Promos(c, t) :
              \/ Rise(s, t) = Up(c) /\ Shift(s, t) = 0 /\ m = Move(s, t, "", q)
              \/ m = Move(s, t, "double", "")
              \/ Attacks(b, s, t) /\ m = Move(s, t, "", q)
              \/ Attacks(b, s, t) /\ m = Move(s, t, "ep", q)
        BY <2>6 DEF PawnMove
      <4>3. PICK q \in Promos(c, t) :
              \/ Rise(s, t) = Up(c) /\ Shift(s, t) = 0 /\ m = Move(s, t, "", q)
              \/ Attacks(b, s, t) /\ m = Move(s, t, "", q)
              \/ Attacks(b, s, t) /\ m = Move(s, t, "ep", q)
        BY <3>1, <4>1, <4>2
      <4>. QED
        BY <3>1, <4>3
    <3>. QED
      BY <3>2, <3>3, <3>4
  <2>8. s \in Squares /\ Up(c) \in {-1, 1}
    BY <1>1, ManOf, UpIs
  <2>. QED
    <3>1. PICK r, f, r2, f2 \in 0..7 : s = 8 * r + f /\ t = 8 * r2 + f2 /\ r = rank_of(s) /\ f = file_of(s)
                                       /\ r2 = rank_of(t) /\ f2 = file_of(t)
      BY <2>8, SquareParts DEF make_square
    <3>2. r2 - r \in {-1, 1} /\ f2 - f \in -1..1
      BY <2>7, <2>8, <3>1 DEF Rise, Shift, Abs
    <3>3. (8 * r2 + f2) - (8 * r + f) \in -9..9
      BY <3>2
    <3>. QED
      BY <2>5, <2>7, <3>1, <3>3 DEF Abs
<1>3. CASE CastleMove(p, m)
  <2>1. PICK kind \in Ways : m = Move(Home(c), Goal(c, kind), kind, "") /\ CastleOpen(p, kind)
    BY <1>3 DEF CastleMove
  <2>2. MenAfter(b, m)[m.to] = <<c, "K">>
    <3>1. m.to = Goal(c, kind)
      BY <2>1 DEF Move
    <3>. QED
      BY <2>1, <3>1, SquaresCastled
  <2>. QED
    BY <2>2 DEF Is
<1>. QED
  BY <1>2, <1>3, PseudoShape

(* The en passant square is the one the last move tells of. *)
LEMMA PassedIsLast ==
    ASSUME NEW p, IsPosition(p), NEW m \in generate_pseudo_legal_moves(p)
    PROVE  make_move(p, m).ep = JustPassed(make_move(p, m), m)
<1> DEFINE q == make_move(p, m)
           b == p.board
           c == p.side
<1>1. /\ q.board = MenAfter(b, m) /\ q.side = Opposite(c) /\ q.ep = Passed(b[m.from][1], m)
      /\ c \in Sides /\ Opposite(q.side) = c
  BY MadeFields, PositionParts, UpIs
<1>2. q.ep = IF m.kind = "double" THEN m.to - 8 * Up(b[m.from][1]) ELSE NoSquare
  BY <1>1 DEF Passed
<1>3. JustPassed(q, m) = IF Is(q.board, m.to, c, "P") /\ Abs(m.to - m.from) = 16
                         THEN (m.from + m.to) \div 2 ELSE NoSquare
  BY <1>1 DEF JustPassed
<1>4. CASE m.kind # "double"
  BY <1>1, <1>2, <1>3, <1>4, OneRankAhead
<1>5. CASE m.kind = "double"
  <2>1. Ordinary(p, m)
    <3>1. \A kind \in Ways : Move(Home(c), Goal(c, kind), kind, "").kind # "double"
      BY DEF Ways, Move
    <3>. QED
      BY <1>5, <3>1, PseudoShape DEF CastleMove
  <2>2. /\ m.from \in DOMAIN b /\ b[m.from][1] = c /\ b[m.from][2] = "P" /\ m.promo = ""
        /\ m.to = m.from + 16 * Up(c) /\ m.to \in Squares
    BY <1>5, <2>1 DEF Ordinary
  <2>3. Is(q.board, m.to, c, "P")
    <3>1. PICK s \in DOMAIN b : s = m.from
      BY <2>2
    <3>2. b[s] = <<c, "P">> <=> b[s][1] = c /\ b[s][2] = "P"
      BY ManAt
    <3>3. Arriving(p, m) = <<c, "P">>
      BY <2>2, <3>1, <3>2 DEF Arriving
    <3>4. DOMAIN MenAfter(b, m) = Bare(p, m) \cup {m.to} /\ MenAfter(b, m)[m.to] = Arriving(p, m)
      BY <2>1, SquaresAfter, Zenon
    <3>. QED
      BY <1>1, <3>3, <3>4 DEF Is
  <2>4. PICK s \in Squares, t \in Squares, u \in {-1, 1} : s = m.from /\ t = m.to /\ u = Up(c)
    BY <1>1, <2>2, UpIs, PositionParts DEF IsBoard
  <2>5. t = s + 16 * u => Abs(t - s) = 16 /\ (s + t) \div 2 = t - 8 * u
    BY DEF Abs, Squares
  <2>. QED
    BY <1>2, <1>3, <1>5, <2>2, <2>3, <2>4, <2>5
<1>. QED
  BY <1>4, <1>5

ChessInv == /\ opening \in DOMAIN Openings
            /\ IsPosition(pos) /\ HasFields(pos) /\ pos.key = compute_hash(pos)
            /\ \E S : line \in Seq(S)
            /\ line # << >> => pos.ep = JustPassed(pos, Last(line))

(* A game begins with a position and its key. *)
LEMMA ChessBegins == ASSUME ChessInit PROVE ChessInv
<1>1. opening \in DOMAIN Openings /\ line = << >>
  BY DEF ChessInit
<1> DEFINE o == Openings[opening].pos
<1>2. pos = [board |-> o.board, side |-> o.side, rights |-> o.rights, ep |-> o.ep,
             half |-> o.half, full |-> o.full, key |-> compute_hash(o)]
  BY DEF ChessInit, Begin, Keyed
<1>3. /\ pos.board = o.board /\ pos.side = o.side /\ pos.rights = o.rights /\ pos.ep = o.ep
      /\ pos.half = o.half /\ pos.full = o.full /\ pos.key = compute_hash(o)
  BY <1>2
<1>4. HasFields(pos)
  BY <1>2 DEF HasFields
<1>5. IsPosition(o)
  BY <1>1, OpeningsAssumption
<1> HIDE DEF o
<1>6. IsPosition(pos)
  BY <1>3, <1>5 DEF IsPosition, RightsBacked, PawnPassed
<1>7. pos.key = compute_hash(pos)
  BY <1>3 DEF compute_hash, PieceKey
<1>8. line \in Seq({})
  BY <1>1
<1>. QED
  BY <1>1, <1>4, <1>6, <1>7, <1>8 DEF ChessInv

(* A move of a game keeps the invariant. *)
LEMMA ChessMoves ==
    ASSUME ChessInv, [ChessNext]_chessVars
    PROVE  ChessInv'
<1>1. CASE UNCHANGED chessVars
  BY <1>1 DEF ChessInv, chessVars
<1>2. ASSUME NEW m \in generate_legal_moves(pos), Play(m)
      PROVE  ChessInv'
  <2>1. IsPosition(pos) /\ pos.key = compute_hash(pos) /\ m \in generate_pseudo_legal_moves(pos)
    BY <1>2 DEF ChessInv, generate_legal_moves
  <2>2. pos' = make_move(pos, m) /\ line' = Append(line, m) /\ opening' = opening
    BY <1>2 DEF Play
  <2>3. IsPosition(make_move(pos, m)) /\ (Ordinary(pos, m) \/ CastleMove(pos, m))
    BY <1>2, <2>1, PositionKept
  <2>4. make_move(pos, m).key = compute_hash(make_move(pos, m)) /\ HasFields(make_move(pos, m))
    BY <2>1, <2>3, KeyKept, MadeFields
  <2>5. make_move(pos, m).ep = JustPassed(make_move(pos, m), m)
    BY <2>1, PassedIsLast
  <2>6. PICK S : line \in Seq(S)
    BY <1>2 DEF ChessInv
  <2>7. line' \in Seq(S \cup {m}) /\ Last(line') = m
    BY <2>2, <2>6 DEF Last
  <2>. QED
    BY <2>2, <2>3, <2>4, <2>5, <2>7 DEF ChessInv
<1>. QED
  BY <1>1, <1>2 DEF ChessNext

(* In any game, undo_move after make_move of a pseudo-legal move is the    *)
(* position before, the key that make_move keeps up is compute_hash of the *)
(* board, and no castling right outlives its king or its rook.             *)
THEOREM PositionsStaySound == ChessSpec => []PositionsAreSound
<1>1. ChessInit => ChessInv
  BY ChessBegins
<1>2. ChessInv /\ [ChessNext]_chessVars => ChessInv'
  BY ChessMoves
<1>3. ChessInv => PositionsAreSound
  <2>1. SUFFICES ASSUME ChessInv PROVE PositionsAreSound
    OBVIOUS
  <2>2. IsPosition(pos) /\ HasFields(pos) /\ pos.key = compute_hash(pos)
    BY <2>1 DEF ChessInv
  <2>3. UndoRestores
    BY <2>2, Undone DEF UndoRestores
  <2>4. RightsAreBacked
    BY <2>2, PositionParts DEF RightsAreBacked
  <2>. QED
    BY <2>2, <2>3, <2>4 DEF PositionsAreSound, KeyIsThePosition
<1>. QED
  BY <1>1, <1>2, <1>3, PTL DEF ChessSpec

-----------------------------------------------------------------------------
(* The moves of the generator are the moves of the rules *)

(* The file of a square beside. *)
LEMMA FileShift ==
    ASSUME NEW s \in Squares, NEW t \in Squares
    PROVE  /\ file_of(s) = file_of(t) <=> Shift(s, t) = 0
           /\ Abs(Shift(s, t)) = 1 => Shift(s, t) # 0
BY SquareParts DEF Shift, Abs

(* The parts of a move. *)
LEMMA MoveParts ==
    \A m, s, t, kind, q : m = Move(s, t, kind, q) => m.from = s /\ m.to = t /\ m.kind = kind /\ m.promo = q
BY DEF Move

(* A square is empty, one's own or the other side's. *)
LEMMA EmptyOrMine ==
    ASSUME NEW p, IsPosition(p), NEW t
    PROVE  /\ ~Empty(p.board, t) <=> Mine(p.board, t, p.side) \/ Mine(p.board, t, Opposite(p.side))
           /\ ~(Mine(p.board, t, p.side) /\ Mine(p.board, t, Opposite(p.side)))
<1>1. IsBoard(p.board) /\ p.side \in Sides /\ Opposite(p.side) # p.side
  BY PositionParts, UpIs
<1>2. \A c \in Sides : c = p.side \/ c = Opposite(p.side)
  BY <1>1 DEF Sides, Opposite
<1>3. t \in DOMAIN p.board => p.board[t][1] \in Sides
  BY <1>1, ManOf
<1>. QED
  BY <1>1, <1>2, <1>3 DEF Empty, Mine

(* The en passant square is empty. *)
LEMMA PassedEmpty ==
    ASSUME NEW p, IsPosition(p), NEW t \in Squares, t = p.ep
    PROVE  Empty(p.board, t)
BY PositionParts DEF PawnPassed, Squares, NoSquare

(* A pawn reaches what the generator has it go to. *)
LEMMA PawnReaches ==
    ASSUME NEW p, IsPosition(p), NEW s \in DOMAIN p.board, p.board[s][1] = p.side,
           p.board[s][2] = "P", NEW t \in Squares
    PROVE  (\E m : PawnMove(p, s, m) /\ m.to = t) <=> Reaches(p.board, s, t, p.ep) /\ ~Mine(p.board, t, p.side)
<1> DEFINE b == p.board
           c == p.side
           onward == Rise(s, t) = Up(c) /\ Shift(s, t) = 0 /\ Empty(b, t)
           double == /\ Rise(s, t) = 2 * Up(c) /\ Shift(s, t) = 0 /\ rank_of(s) = HomeRank(c) + Up(c)
                     /\ Empty(b, (s + t) \div 2) /\ Empty(b, t)
           takes == Attacks(b, s, t) /\ Mine(b, t, Opposite(c))
           passing == Attacks(b, s, t) /\ ~Mine(b, t, Opposite(c)) /\ t = p.ep
<1>1. (\E m : PawnMove(p, s, m) /\ m.to = t) <=> onward \/ double \/ takes \/ passing
  <2>1. ASSUME NEW m, PawnMove(p, s, m), m.to = t
        PROVE  onward \/ double \/ takes \/ passing
    <3>1. PICK u \in Squares : \E q \in Promos(c, u) :
            \/ /\ Rise(s, u) = Up(c) /\ Shift(s, u) = 0 /\ Empty(b, u)
               /\ m = Move(s, u, "", q)
            \/ /\ Rise(s, u) = 2 * Up(c) /\ Shift(s, u) = 0 /\ rank_of(s) = HomeRank(c) + Up(c)
               /\ Empty(b, (s + u) \div 2) /\ Empty(b, u)
               /\ m = Move(s, u, "double", "")
            \/ Attacks(b, s, u) /\ Mine(b, u, Opposite(c)) /\ m = Move(s, u, "", q)
            \/ Attacks(b, s, u) /\ ~Mine(b, u, Opposite(c)) /\ u = p.ep /\ m = Move(s, u, "ep", q)
      BY <2>1 DEF PawnMove
    <3>2. u = t
      <4>1. PICK kind, q : m = Move(s, u, kind, q)
        BY <3>1
      <4>. QED
        BY <2>1, <4>1 DEF Move
    <3>. QED
      BY <3>1, <3>2
  <2>2. ASSUME onward \/ double \/ takes \/ passing
        PROVE  \E m : PawnMove(p, s, m) /\ m.to = t
    <3>1. PICK q \in Promos(c, t) : TRUE
      BY DEF Promos
    <3>2. \A kind, r : Move(s, t, kind, r).to = t
      BY DEF Move
    <3>3. CASE onward
      <4>1. PawnMove(p, s, Move(s, t, "", q))
        BY <3>1, <3>3 DEF PawnMove
      <4>. QED
        BY <3>2, <4>1
    <3>4. CASE double
      <4>1. PawnMove(p, s, Move(s, t, "double", ""))
        BY <3>1, <3>4 DEF PawnMove
      <4>. QED
        BY <3>2, <4>1
    <3>5. CASE takes
      <4>1. PawnMove(p, s, Move(s, t, "", q))
        BY <3>1, <3>5 DEF PawnMove
      <4>. QED
        BY <3>2, <4>1
    <3>6. CASE passing
      <4>1. PawnMove(p, s, Move(s, t, "ep", q))
        BY <3>1, <3>6 DEF PawnMove
      <4>. QED
        BY <3>2, <4>1
    <3>. QED
      BY <2>2, <3>3, <3>4, <3>5, <3>6
  <2>. QED
    BY <2>1, <2>2
<1>2. s \in Squares /\ (file_of(s) = file_of(t) <=> Shift(s, t) = 0)
  BY FileShift, ManOf, PositionParts
<1>3. Reaches(b, s, t, p.ep) <=>
        \/ /\ Shift(s, t) = 0 /\ Empty(b, t)
           /\ \/ Rise(s, t) = Up(c)
              \/ Rise(s, t) = 2 * Up(c) /\ rank_of(s) = HomeRank(c) + Up(c) /\ Empty(b, (s + t) \div 2)
        \/ Attacks(b, s, t) /\ (~Empty(b, t) \/ t = p.ep)
  BY <1>2 DEF Reaches, Rise
<1>4. /\ ~Empty(b, t) <=> Mine(b, t, c) \/ Mine(b, t, Opposite(c))
      /\ ~(Mine(b, t, c) /\ Mine(b, t, Opposite(c)))
      /\ t = p.ep => Empty(b, t)
  BY EmptyOrMine, PassedEmpty
<1>. QED
  BY <1>1, <1>3, <1>4

(* A man other than a pawn reaches what the generator has it go to. *)
LEMMA OfficerReaches ==
    ASSUME NEW p, IsPosition(p), NEW s \in DOMAIN p.board, p.board[s][1] = p.side,
           p.board[s][2] # "P", NEW t \in Squares
    PROVE  (\E m : OfficerMove(p, s, m) /\ m.to = t) <=> Reaches(p.board, s, t, p.ep) /\ ~Mine(p.board, t, p.side)
<1>1. Reaches(p.board, s, t, p.ep) <=> Attacks(p.board, s, t)
  BY DEF Reaches
<1>2. ASSUME NEW m, OfficerMove(p, s, m), m.to = t
      PROVE  Attacks(p.board, s, t) /\ ~Mine(p.board, t, p.side)
  <2>1. PICK u \in Squares : Attacks(p.board, s, u) /\ ~Mine(p.board, u, p.side) /\ m = Move(s, u, "", "")
    BY <1>2 DEF OfficerMove
  <2>. QED
    BY <1>2, <2>1 DEF Move
<1>3. Move(s, t, "", "").to = t
  BY DEF Move
<1>. QED
  BY <1>1, <1>2, <1>3 DEF OfficerMove

(* The rules tell an en passant capture from the squares, the generator   *)
(* marks it: they mean the same moves, and the same pawn.                  *)
LEMMA PawnAside ==
    ASSUME NEW p, IsPosition(p), NEW s \in DOMAIN p.board, p.board[s][1] = p.side,
           p.board[s][2] = "P", NEW m, PawnMove(p, s, m)
    PROVE  /\ m.from = s
           /\ file_of(s) # file_of(m.to) /\ Empty(p.board, m.to) <=> m.kind = "ep"
           /\ m.kind = "ep" => CapturedAt(p.side, m) = make_square(rank_of(s), file_of(m.to))
<1> DEFINE b == p.board
           c == p.side
<1>1. PICK t \in Squares : \E q \in Promos(c, t) :
        \/ /\ Rise(s, t) = Up(c) /\ Shift(s, t) = 0 /\ Empty(b, t)
           /\ m = Move(s, t, "", q)
        \/ /\ Rise(s, t) = 2 * Up(c) /\ Shift(s, t) = 0 /\ rank_of(s) = HomeRank(c) + Up(c)
           /\ Empty(b, (s + t) \div 2) /\ Empty(b, t)
           /\ m = Move(s, t, "double", "")
        \/ Attacks(b, s, t) /\ Mine(b, t, Opposite(c)) /\ m = Move(s, t, "", q)
        \/ Attacks(b, s, t) /\ ~Mine(b, t, Opposite(c)) /\ t = p.ep /\ m = Move(s, t, "ep", q)
  BY DEF PawnMove
<1>2. PICK q \in Promos(c, t) :
        \/ Shift(s, t) = 0 /\ m = Move(s, t, "", q)
        \/ Shift(s, t) = 0 /\ m = Move(s, t, "double", "")
        \/ Attacks(b, s, t) /\ Mine(b, t, Opposite(c)) /\ m = Move(s, t, "", q)
        \/ Attacks(b, s, t) /\ t = p.ep /\ m = Move(s, t, "ep", q)
  BY <1>1
<1>4. /\ m.from = s /\ m.to = t
      /\ \/ Shift(s, t) = 0 /\ m.kind # "ep"
         \/ Attacks(b, s, t) /\ Mine(b, t, Opposite(c)) /\ m.kind # "ep"
         \/ Attacks(b, s, t) /\ t = p.ep /\ m.kind = "ep"
  <2>1. CASE Shift(s, t) = 0 /\ m = Move(s, t, "", q)
    BY <2>1 DEF Move
  <2>2. CASE Shift(s, t) = 0 /\ m = Move(s, t, "double", "")
    BY <2>2 DEF Move
  <2>3. CASE Attacks(b, s, t) /\ Mine(b, t, Opposite(c)) /\ m = Move(s, t, "", q)
    BY <2>3 DEF Move
  <2>4. CASE Attacks(b, s, t) /\ t = p.ep /\ m = Move(s, t, "ep", q)
    BY <2>4 DEF Move
  <2>. QED
    BY <1>2, <2>1, <2>2, <2>3, <2>4
<1>5. s \in Squares /\ c \in Sides /\ (file_of(s) = file_of(t) <=> Shift(s, t) = 0)
  BY FileShift, ManOf, PositionParts
<1>6. Attacks(b, s, t) => Rise(s, t) = Up(c) /\ Abs(Shift(s, t)) = 1
  BY AttackForms
<1>7. Attacks(b, s, t) => file_of(s) # file_of(t)
  BY <1>5, <1>6, FileShift
<1>8. Mine(b, t, Opposite(c)) => ~Empty(b, t)
  BY DEF Mine, Empty
<1>9. t = p.ep => Empty(b, t)
  BY PassedEmpty
<1>10. file_of(s) # file_of(t) /\ Empty(b, t) <=> m.kind = "ep"
  BY <1>4, <1>5, <1>7, <1>8, <1>9
<1>11. ASSUME m.kind = "ep"
       PROVE  CapturedAt(c, m) = make_square(rank_of(s), file_of(t))
  <2>1. Rise(s, t) = Up(c)
    BY <1>4, <1>6, <1>11
  <2>2. PICK r, f, r2, f2 \in 0..7 : /\ t = 8 * r2 + f2 /\ r = rank_of(s) /\ f = file_of(s)
                                     /\ r2 = rank_of(t) /\ f2 = file_of(t)
    BY <1>5, SquareParts DEF make_square
  <2>3. PICK u \in {-1, 1} : u = Up(c)
    BY <1>5, UpIs
  <2>4. r2 - r = u
    BY <2>1, <2>2, <2>3 DEF Rise
  <2>5. t - 8 * u = 8 * r + f2
    <3>1. r2 = r + u
      BY <2>4
    <3>2. 8 * (r + u) + f2 - 8 * u = 8 * r + f2
      OBVIOUS
    <3>3. t = 8 * (r + u) + f2
      BY <2>2, <3>1
    <3>. QED
      BY <3>2, <3>3
  <2>6. CapturedAt(c, m) = t - 8 * u
    BY <1>4, <1>11, <2>3 DEF CapturedAt
  <2>7. make_square(rank_of(s), file_of(t)) = 8 * r + f2
    BY <2>2 DEF make_square
  <2>. QED
    BY <2>5, <2>6, <2>7
<1>. QED
  BY <1>4, <1>10, <1>11

(* A king that does not castle stays within two squares. *)
LEMMA KingsStep ==
    ASSUME NEW s \in Squares, NEW t \in Squares, Abs(Rise(s, t)) <= 1, Abs(Shift(s, t)) <= 1
    PROVE  Abs(t - s) # 2
<1>1. PICK r, f, r2, f2 \in 0..7 : /\ s = 8 * r + f /\ t = 8 * r2 + f2 /\ r = rank_of(s) /\ f = file_of(s)
                                   /\ r2 = rank_of(t) /\ f2 = file_of(t)
  BY SquareParts DEF make_square
<1>2. r2 - r \in -1..1 /\ f2 - f \in -1..1
  BY <1>1 DEF Rise, Shift, Abs
<1>3. (8 * r2 + f2) - (8 * r + f) \notin {2, -2}
  BY <1>2
<1>. QED
  BY <1>1, <1>3 DEF Abs

PlainMove(p, s, m) == IF p.board[s][2] = "P" THEN PawnMove(p, s, m) ELSE OfficerMove(p, s, m)

(* The men after an ordinary move, as the rules tell them. *)
LEMMA RulesBoard ==
    ASSUME NEW p, IsPosition(p), NEW s \in DOMAIN p.board, p.board[s][1] = p.side,
           NEW m, PlainMove(p, s, m)
    PROVE  /\ m.from = s /\ Ordinary(p, m)
           /\ AfterRules(p.board, s, m.to) =
                  [x \in Bare(p, m) \cup {m.to} |-> IF x = m.to THEN p.board[s] ELSE p.board[x]]
<1> DEFINE b == p.board
           c == p.side
           t == m.to
           cap == CapturedAt(c, m)
           beside == IF b[s][2] = "P" /\ file_of(s) # file_of(t) /\ Empty(b, t)
                     THEN {make_square(rank_of(s), file_of(t))} ELSE {}
<1>1. IsBoard(b) /\ c \in Sides /\ PawnPassed(p) /\ s \in Squares
  BY PositionParts, ManOf
<1>2. m.from = s /\ Ordinary(p, m)
  <2>1. CASE b[s][2] = "P"
    BY <1>1, <2>1, PawnsOrdinary, PawnAside DEF PlainMove
  <2>2. CASE b[s][2] # "P"
    <3>1. PICK u \in Squares : m = Move(s, u, "", "")
      BY <2>2 DEF PlainMove, OfficerMove
    <3>. QED
      BY <1>1, <2>2, <3>1, OfficersOrdinary, MoveParts DEF PlainMove
  <2>. QED
    BY <2>1, <2>2
<1>3. ~(b[s][2] = "K" /\ Abs(t - s) = 2)
  <2>1. ASSUME b[s][2] = "K" PROVE Abs(t - s) # 2
    <3>1. PICK u \in Squares : Attacks(b, s, u) /\ m = Move(s, u, "", "")
      BY <2>1 DEF PlainMove, OfficerMove
    <3>2. t = u
      BY <3>1 DEF Move
    <3>3. Abs(Rise(s, u)) <= 1 /\ Abs(Shift(s, u)) <= 1
      BY <2>1, <3>1, AttackForms
    <3>. QED
      BY <1>1, <3>2, <3>3, KingsStep
  <2>. QED
    BY <2>1
<1>4. AfterRules(b, s, t) = Put(Lift(b, {s} \cup beside), t, b[s])
  BY <1>3 DEF AfterRules
<1>5. (DOMAIN b \ ({s} \cup beside)) \cup {t} = (DOMAIN b \ {s, cap}) \cup {t}
  <2>1. CASE b[s][2] = "P" /\ m.kind = "ep"
    <3>1. beside = {cap}
      BY <1>1, <2>1, PawnAside DEF PlainMove
    <3>. QED
      BY <3>1
  <2>2. CASE ~(b[s][2] = "P" /\ m.kind = "ep")
    <3>1. beside = {}
      BY <1>1, <2>2, PawnAside DEF PlainMove
    <3>2. m.kind # "ep"
      BY <1>2, <2>2 DEF Ordinary
    <3>3. cap = t
      BY <3>2 DEF CapturedAt
    <3>. QED
      BY <3>1, <3>3
  <2>. QED
    BY <2>1, <2>2
<1>6. Put(Lift(b, {s} \cup beside), t, b[s]) =
        [x \in (DOMAIN b \ ({s} \cup beside)) \cup {t} |-> IF x = t THEN b[s] ELSE b[x]]
  BY DEF Put, Lift
<1>. QED
  BY <1>2, <1>4, <1>5, <1>6 DEF Bare


(* Legality by the rules: the king is not attacked after the move. *)
RuleSafe(p, s, t) ==
    LET b1 == AfterRules(p.board, s, t)
    IN ~Attacked(b1, CHOOSE k \in DOMAIN b1 : b1[k] = <<p.side, "K">>, Opposite(p.side))

(* What a side attacks does not change with what the other side's men are. *)
LEMMA SameAttack ==
    ASSUME NEW b1, NEW b2, DOMAIN b1 = DOMAIN b2, NEW o,
           \A x \in DOMAIN b1 : b1[x] # b2[x] => b1[x][1] # o /\ b2[x][1] # o, NEW k
    PROVE  Attacked(b1, k, o) <=> Attacked(b2, k, o)
<1>1. \A x : Empty(b1, x) <=> Empty(b2, x)
  BY DEF Empty
<1>2. ASSUME NEW x \in DOMAIN b1, b1[x] = b2[x]
      PROVE  Attacks(b1, x, k) <=> Attacks(b2, x, k)
  <2>1. Clear(b1, x, k) <=> Clear(b2, x, k)
    BY <1>1 DEF Clear
  <2>. QED
    BY <1>2, <2>1 DEF Attacks, Clear
<1>. QED
  BY <1>2 DEF Attacked

(* The king the rules choose is the one there is. *)
LEMMA KingChosen ==
    ASSUME NEW b, NEW c, NEW k \in DOMAIN b, \A s \in DOMAIN b : b[s] = <<c, "K">> <=> s = k
    PROVE  (CHOOSE x \in DOMAIN b : b[x] = <<c, "K">>) = k
OBVIOUS

(* The test on a board of the game is the test of the rules. *)
LEMMA CheckAgrees ==
    ASSUME NEW b, IsBoard(b), NEW c \in Sides, OneKing(b, c)
    PROVE  is_in_check(b, c) <=> Attacked(b, CHOOSE k \in DOMAIN b : b[k] = <<c, "K">>, Opposite(c))
<1>1. PICK k \in DOMAIN b : \A s \in DOMAIN b : b[s] = <<c, "K">> <=> s = k
  BY DEF OneKing
<1>2. (CHOOSE x \in DOMAIN b : b[x] = <<c, "K">>) = k
  BY <1>1, KingChosen
<1>3. PICK o \in Sides : o = Opposite(c)
  BY UpIs
<1>4. k \in Squares /\ (is_in_check(b, c) <=> is_square_attacked(b, k, o))
  BY <1>1, <1>3, KingFound
<1>5. is_square_attacked(b, k, o) <=> Attacked(b, k, o)
  BY <1>4, AttackedAgrees
<1>. QED
  BY <1>2, <1>3, <1>4, <1>5

(* The generator keeps a pseudo-legal move exactly if the rules find the   *)
(* king safe after it.                                                     *)
LEMMA SafeAgrees ==
    ASSUME NEW p, IsPosition(p), NEW s \in DOMAIN p.board, p.board[s][1] = p.side,
           NEW m, PlainMove(p, s, m)
    PROVE  ~is_in_check(MenAfter(p.board, m), p.side) <=> RuleSafe(p, s, m.to)
<1> DEFINE b == p.board
           c == p.side
           b1 == MenAfter(b, m)
           b2 == AfterRules(b, s, m.to)
<1>1. m.from = s /\ Ordinary(p, m)
  BY RulesBoard
<1>2. b2 = [x \in Bare(p, m) \cup {m.to} |-> IF x = m.to THEN b[s] ELSE b[x]]
  BY RulesBoard
<1>3. /\ b1 = [x \in Bare(p, m) \cup {m.to} |-> IF x = m.to THEN Arriving(p, m) ELSE b[x]]
      /\ IsBoard(b1) /\ Arriving(p, m)[1] = c
      /\ (Arriving(p, m)[2] = "K" <=> b[m.from][2] = "K")
  BY <1>1, BoardAfter
<1>4. c \in Sides /\ Opposite(c) # c /\ OneKing(b1, c)
  BY <1>1, KingsKept, PositionParts, UpIs
<1>5. b[s][2] = "K" => Arriving(p, m) = b[s]
  BY <1>1 DEF Arriving, Ordinary
<1>6. DOMAIN b1 = DOMAIN b2 /\ \A x \in DOMAIN b1 : b1[x] = b2[x] \/ (x = m.to /\ b1[x] = Arriving(p, m) /\ b2[x] = b[s])
  BY <1>2, <1>3
<1> HIDE DEF b1, b2
<1>7. \A x \in DOMAIN b1 : b1[x] # b2[x] => b1[x][1] # Opposite(c) /\ b2[x][1] # Opposite(c)
  BY <1>3, <1>4, <1>6
<1>8. \A x \in DOMAIN b1 : b1[x] = <<c, "K">> <=> b2[x] = <<c, "K">>
  <2>1. Arriving(p, m) = <<c, "K">> <=> b[s] = <<c, "K">>
    <3>1. Arriving(p, m) = <<c, "K">> => b[s][2] = "K"
      BY <1>1, <1>3
    <3>2. b[s] = <<c, "K">> => b[s][2] = "K"
      OBVIOUS
    <3>. QED
      BY <1>5, <3>1, <3>2
  <2>. QED
    BY <1>6, <2>1
<1>9. PICK k \in DOMAIN b1 : \A x \in DOMAIN b1 : b1[x] = <<c, "K">> <=> x = k
  BY <1>4 DEF OneKing
<1>10. (CHOOSE x \in DOMAIN b1 : b1[x] = <<c, "K">>) = k
  BY <1>9, KingChosen
<1>11. (CHOOSE x \in DOMAIN b2 : b2[x] = <<c, "K">>) = k
  <2>1. k \in DOMAIN b2 /\ \A x \in DOMAIN b2 : b2[x] = <<c, "K">> <=> x = k
    BY <1>6, <1>8, <1>9
  <2>. QED
    BY <2>1, KingChosen
<1>12. Attacked(b1, k, Opposite(c)) <=> Attacked(b2, k, Opposite(c))
  BY <1>6, <1>7, SameAttack
<1>13. is_in_check(b1, c) <=> Attacked(b1, k, Opposite(c))
  BY <1>3, <1>4, <1>10, CheckAgrees
<1>14. RuleSafe(p, s, m.to) <=> ~Attacked(b2, k, Opposite(c))
  BY <1>11 DEF RuleSafe, b2
<1>. QED
  BY <1>12, <1>13, <1>14 DEF b1


(* Castling *)
LEMMA PassedAtHome ==
    ASSUME NEW h \in {4, 60}
    PROVE  /\ Between(h, h + 3) = {h + 1, h + 2} /\ Between(h, h - 4) = {h - 1, h - 2, h - 3}
           /\ Between(h, h + 2) = {h + 1} /\ Between(h, h - 2) = {h - 1}
<1>1. /\ rank_of(h + 3) - rank_of(h) = 0 /\ rank_of(h - 4) - rank_of(h) = 0
      /\ rank_of(h + 2) - rank_of(h) = 0 /\ rank_of(h - 2) - rank_of(h) = 0
      /\ file_of(h + 3) - file_of(h) = 3 /\ file_of(h - 4) - file_of(h) = -4
      /\ file_of(h + 2) - file_of(h) = 2 /\ file_of(h - 2) - file_of(h) = -2
  BY DEF rank_of, file_of
<1>2. /\ Abs(0) = 0 /\ Abs(3) = 3 /\ Abs(-4) = 4 /\ Abs(2) = 2 /\ Abs(-2) = 2
      /\ 0 \div 3 = 0 /\ 0 \div 4 = 0 /\ 0 \div 2 = 0
      /\ 3 \div 3 = 1 /\ (-4) \div 4 = -1 /\ 2 \div 2 = 1 /\ (-2) \div 2 = -1
  <2>1. Abs(0) = 0 /\ Abs(3) = 3 /\ Abs(-4) = 4 /\ Abs(2) = 2 /\ Abs(-2) = 2
    <3>1. \A n \in {0, 2, 3} : Abs(n) = n
      BY DEF Abs
    <3>2. \A n \in {-2, -4} : Abs(n) = 0 - n
      BY DEF Abs
    <3>. QED
      BY <3>1, <3>2
  <2>2. 0 \div 3 = 0 /\ 0 \div 4 = 0 /\ 0 \div 2 = 0 /\ 3 \div 3 = 1 /\ 2 \div 2 = 1
    OBVIOUS
  <2>3. (-4) \div 4 = -1
    OBVIOUS
  <2>4. (-2) \div 2 = -1
    OBVIOUS
  <2>. QED
    BY <2>1, <2>2, <2>3, <2>4
<1>3. Between(h, h + 3) = {h + 1, h + 2}
  <2>1. Between(h, h + 3) = {h + k * (8 * 0 + 1) : k \in 1..(3 - 1)}
    BY <1>1, <1>2 DEF Between
  <2>2. {h + k * (8 * 0 + 1) : k \in 1..(3 - 1)} = {h + 1, h + 2}
    OBVIOUS
  <2>. QED
    BY <2>1, <2>2
<1>4. Between(h, h - 4) = {h - 1, h - 2, h - 3}
  <2>1. Between(h, h - 4) = {h + k * (8 * 0 + (-1)) : k \in 1..(4 - 1)}
    BY <1>1, <1>2 DEF Between
  <2>2. {h + k * (8 * 0 + (-1)) : k \in 1..(4 - 1)} = {h - 1, h - 2, h - 3}
    OBVIOUS
  <2>. QED
    BY <2>1, <2>2
<1>5. Between(h, h + 2) = {h + 1}
  <2>1. Between(h, h + 2) = {h + k * (8 * 0 + 1) : k \in 1..(2 - 1)}
    BY <1>1, <1>2 DEF Between
  <2>2. {h + k * (8 * 0 + 1) : k \in 1..(2 - 1)} = {h + 1}
    OBVIOUS
  <2>. QED
    BY <2>1, <2>2
<1>6. Between(h, h - 2) = {h - 1}
  <2>1. Between(h, h - 2) = {h + k * (8 * 0 + (-1)) : k \in 1..(2 - 1)}
    BY <1>1, <1>2 DEF Between
  <2>2. {h + k * (8 * 0 + (-1)) : k \in 1..(2 - 1)} = {h - 1}
    OBVIOUS
  <2>. QED
    BY <2>1, <2>2
<1>. QED
  BY <1>3, <1>4, <1>5, <1>6

(* What the rules ask of a castling move. *)
RulesOpen(p, kind) ==
    /\ Right(p.side, kind) \in p.rights
    /\ \A s \in Gap(p.side, kind) : Empty(p.board, s)
    /\ \A x \in {Home(p.side), Step(p.side, kind), Goal(p.side, kind)} : ~Attacked(p.board, x, Opposite(p.side))

(* The rules castle one of two ways. *)
LEMMA CastleRules ==
    ASSUME NEW p, p.side \in Sides, NEW s, NEW t
    PROVE  CastlesByRule(p, s, t) <=>
             \E kind \in Ways : s = Home(p.side) /\ t = Goal(p.side, kind) /\ RulesOpen(p, kind)
<1> DEFINE c == p.side
<1>1. PICK h \in {4, 60} : h = Home(c)
  BY HomeIs
<1>2. /\ Between(h, h + 3) = {h + 1, h + 2} /\ Between(h, h - 4) = {h - 1, h - 2, h - 3}
      /\ Between(h, h + 2) = {h + 1} /\ Between(h, h - 2) = {h - 1}
  BY PassedAtHome
<1>3. CastlesByRule(p, s, t) <=>
        /\ s = h /\ t \in {h - 2, h + 2}
        /\ (IF t > s THEN (IF c = "w" THEN "K" ELSE "k")
                     ELSE (IF c = "w" THEN "Q" ELSE "q")) \in p.rights
        /\ \A x \in Between(s, IF t > s THEN s + 3 ELSE s - 4) : Empty(p.board, x)
        /\ \A x \in {s, t} \cup Between(s, t) : ~Attacked(p.board, x, Opposite(c))
  BY <1>1 DEF CastlesByRule, Home
<1>4. ASSUME s = h, t = h + 2
      PROVE  CastlesByRule(p, s, t) <=> RulesOpen(p, "kingside")
  <2>1. t > s /\ Between(s, s + 3) = {h + 1, h + 2} /\ {s, t} \cup Between(s, t) = {h, h + 1, h + 2}
    BY <1>2, <1>4
  <2>2. RulesOpen(p, "kingside") <=>
          /\ (IF c = "w" THEN "K" ELSE "k") \in p.rights
          /\ \A x \in {h + 1, h + 2} : Empty(p.board, x)
          /\ \A x \in {h, h + 1, h + 2} : ~Attacked(p.board, x, Opposite(c))
    BY <1>1 DEF RulesOpen, Right, Gap, Step, Goal
  <2>. QED
    BY <1>3, <1>4, <2>1, <2>2
<1>5. ASSUME s = h, t = h - 2
      PROVE  CastlesByRule(p, s, t) <=> RulesOpen(p, "queenside")
  <2>1. ~(t > s) /\ Between(s, s - 4) = {h - 1, h - 2, h - 3} /\ {s, t} \cup Between(s, t) = {h, h - 1, h - 2}
    BY <1>2, <1>5
  <2>2. RulesOpen(p, "queenside") <=>
          /\ (IF c = "w" THEN "Q" ELSE "q") \in p.rights
          /\ \A x \in {h - 1, h - 2, h - 3} : Empty(p.board, x)
          /\ \A x \in {h, h - 1, h - 2} : ~Attacked(p.board, x, Opposite(c))
    BY <1>1 DEF RulesOpen, Right, Gap, Step, Goal
  <2>. QED
    BY <1>3, <1>5, <2>1, <2>2
<1>6. Goal(c, "kingside") = h + 2 /\ Goal(c, "queenside") = h - 2 /\ h + 2 # h - 2
  BY <1>1 DEF Goal
<1>7. (\E kind \in Ways : s = Home(c) /\ t = Goal(c, kind) /\ RulesOpen(p, kind))
      <=> s = h /\ ((t = h + 2 /\ RulesOpen(p, "kingside")) \/ (t = h - 2 /\ RulesOpen(p, "queenside")))
  BY <1>1, <1>6 DEF Ways
<1>. QED
  BY <1>3, <1>4, <1>5, <1>6, <1>7

(* King and rook after castling, as the rules tell them. *)
LEMMA RulesCastle ==
    ASSUME NEW p, IsPosition(p), NEW kind \in Ways, CastleOpen(p, kind)
    PROVE  AfterRules(p.board, Home(p.side), Goal(p.side, kind)) =
             MenAfter(p.board, Move(Home(p.side), Goal(p.side, kind), kind, ""))
<1> DEFINE b == p.board
           c == p.side
           h == Home(c)
           g == Goal(c, kind)
           st == Step(c, kind)
           rc == RookCorner(c, kind)
<1>1. /\ h \in DOMAIN b /\ rc \in DOMAIN b /\ g \notin DOMAIN b /\ st \notin DOMAIN b
      /\ b[h] = <<c, "K">> /\ b[rc] = <<c, "R">>
  BY CastleFacts DEF Is, Empty
<1>2. g # st /\ h # rc /\ g # rc /\ st # rc /\ h # g /\ h # st
  BY CastleSquares, PositionParts
<1>3. MenAfter(b, Move(h, g, kind, "")) =
        [x \in (DOMAIN b \ {h, rc}) \cup {g, st} |->
            IF x = st THEN <<c, "R">> ELSE IF x = g THEN <<c, "K">> ELSE b[x]]
  BY BoardCastled
<1>4. Abs(g - h) = 2 /\ (h + g) \div 2 = st /\ (IF g > h THEN h + 3 ELSE h - 4) = rc
  <2>1. PICK n \in {4, 60} : n = h
    BY HomeIs, PositionParts
  <2>2. /\ Abs(n + 2 - n) = 2 /\ Abs(n - 2 - n) = 2 /\ (n + (n + 2)) \div 2 = n + 1
        /\ (n + (n - 2)) \div 2 = n - 1 /\ n + 2 > n /\ ~(n - 2 > n)
    BY DEF Abs
  <2>3. CASE kind = "kingside"
    <3>1. g = n + 2 /\ st = n + 1 /\ rc = n + 3
      BY <2>1, <2>3 DEF Goal, Step, RookCorner
    <3> HIDE DEF h, g, st, rc
    <3>. QED
      BY <2>1, <2>2, <3>1
  <2>4. CASE kind = "queenside"
    <3>1. g = n - 2 /\ st = n - 1 /\ rc = n - 4
      BY <2>1, <2>4 DEF Goal, Step, RookCorner
    <3> HIDE DEF h, g, st, rc
    <3>. QED
      BY <2>1, <2>2, <3>1
  <2>. QED
    BY <2>3, <2>4 DEF Ways
<1> HIDE DEF h, g, st, rc
<1>5. b[h][2] = "K"
  BY <1>1
<1> DEFINE b0 == Put(Lift(b, {h} \cup {}), g, b[h])
<1>6. AfterRules(b, h, g) = Put(Lift(b0, {rc}), st, b[rc])
  BY <1>4, <1>5 DEF AfterRules
<1>7. b0 = [x \in (DOMAIN b \ {h}) \cup {g} |-> IF x = g THEN <<c, "K">> ELSE b[x]]
  BY <1>1 DEF Put, Lift
<1>8. Lift(b0, {rc}) = [x \in (DOMAIN b \ {h, rc}) \cup {g} |-> IF x = g THEN <<c, "K">> ELSE b[x]]
  <2>1. DOMAIN b0 \ {rc} = (DOMAIN b \ {h, rc}) \cup {g}
    BY <1>2, <1>7
  <2>. QED
    BY <1>7, <2>1 DEF Lift
<1>9. Put(Lift(b0, {rc}), st, b[rc]) =
        [x \in (DOMAIN b \ {h, rc}) \cup {g, st} |->
            IF x = st THEN <<c, "R">> ELSE IF x = g THEN <<c, "K">> ELSE b[x]]
  BY <1>1, <1>8 DEF Put
<1>. QED
  BY <1>3, <1>6, <1>9 DEF h, g


(* A line that ends where the king arrives does not cross the rook's new   *)
(* square unless it crosses the king's old one.                            *)
LEMMA SeesPast ==
    ASSUME NEW c \in Sides, NEW kind \in Ways, NEW b, NEW b1, NEW t \in Squares,
           Home(c) \in DOMAIN b, t # Home(c),
           DOMAIN b1 \subseteq DOMAIN b \cup {Goal(c, kind), Step(c, kind)},
           NEW x \in {-1, 0, 1}, NEW y \in {-1, 0, 1}, x # 0 \/ y # 0, Sees(b, Goal(c, kind), t, x, y)
    PROVE  Sees(b1, Goal(c, kind), t, x, y)
<1>1. PICK hr \in {0, 7}, e \in {-1, 1}, gf \in {2, 6} :
        /\ gf + 2 * e = 4 /\ Goal(c, kind) = 8 * hr + gf /\ Step(c, kind) = 8 * hr + (gf + e)
        /\ Home(c) = 8 * hr + 4
  <2>1. PICK hr \in {0, 7} : Home(c) = 8 * hr + 4
    BY HomeIs DEF Home, make_square
  <2>2. CASE kind = "kingside"
    <3>1. Goal(c, kind) = 8 * hr + 6 /\ Step(c, kind) = 8 * hr + (6 + (-1))
      BY <2>1, <2>2 DEF Goal, Step
    <3>2. 6 + 2 * (-1) = 4
      OBVIOUS
    <3>. QED
      BY <2>1, <3>1, <3>2
  <2>3. CASE kind = "queenside"
    <3>1. Goal(c, kind) = 8 * hr + 2 /\ Step(c, kind) = 8 * hr + (2 + 1)
      BY <2>1, <2>3 DEF Goal, Step
    <3>2. 2 + 2 * 1 = 4
      OBVIOUS
    <3>. QED
      BY <2>1, <3>1, <3>2
  <2>. QED
    BY <2>2, <2>3 DEF Ways
<1>2. PICK g \in Squares : g = Goal(c, kind) /\ rank_of(g) = hr /\ file_of(g) = gf
  BY <1>1 DEF Squares, rank_of, file_of
<1>3. PICK k \in 1..7 : /\ rank_of(t) = hr + k * x /\ file_of(t) = gf + k * y
                        /\ \A i \in 1..(k - 1) : Empty(b, make_square(hr + i * x, gf + i * y))
  BY <1>2 DEF Sees
<1>4. rank_of(t) \in 0..7 /\ file_of(t) \in 0..7 /\ t = 8 * rank_of(t) + file_of(t)
  BY SquareParts DEF make_square
<1>5. ASSUME NEW i \in 1..(k - 1)
      PROVE  Empty(b1, make_square(hr + i * x, gf + i * y))
  <2>1. PICK n, f \in Int : n = hr + i * x /\ f = gf + i * y
    OBVIOUS
  <2>2. f \in 0..7 /\ n \in 0..7
    <3>1. CASE x = 0
      <4>1. n = hr
        BY <2>1, <3>1
      <4>2. f \in 0..7
        <5>1. CASE y = 1
          BY <1>3, <1>4, <2>1, <5>1
        <5>2. CASE y = -1
          BY <1>3, <1>4, <2>1, <5>2
        <5>3. CASE y = 0
          BY <2>1, <5>3
        <5>. QED
          BY <5>1, <5>2, <5>3
      <4>. QED
        BY <4>1, <4>2
    <3>2. CASE x = 1
      <4>1. n \in 0..7
        BY <1>3, <1>4, <2>1, <3>2
      <4>2. f \in 0..7
        <5>1. CASE y = 1
          BY <1>3, <1>4, <2>1, <5>1
        <5>2. CASE y = -1
          BY <1>3, <1>4, <2>1, <5>2
        <5>3. CASE y = 0
          BY <2>1, <5>3
        <5>. QED
          BY <5>1, <5>2, <5>3
      <4>. QED
        BY <4>1, <4>2
    <3>3. CASE x = -1
      <4>1. n \in 0..7
        BY <1>3, <1>4, <2>1, <3>3
      <4>2. f \in 0..7
        <5>1. CASE y = 1
          BY <1>3, <1>4, <2>1, <5>1
        <5>2. CASE y = -1
          BY <1>3, <1>4, <2>1, <5>2
        <5>3. CASE y = 0
          BY <2>1, <5>3
        <5>. QED
          BY <5>1, <5>2, <5>3
      <4>. QED
        BY <4>1, <4>2
    <3>. QED
      BY <3>1, <3>2, <3>3
  <2>3. make_square(hr + i * x, gf + i * y) = 8 * n + f
    BY <2>1 DEF make_square
  <2>4. 8 * n + f \notin DOMAIN b
    BY <1>3, <2>3 DEF Empty
  <2>5. ASSUME 8 * n + f = 8 * hr + gf
        PROVE  FALSE
    <3>1. n = hr /\ f = gf
      BY <2>2, <2>5
    <3>2. x = 0
      BY <2>1, <3>1
    <3>3. y = 0
      BY <2>1, <3>1
    <3>. QED
      BY <3>2, <3>3
  <2>6. ASSUME 8 * n + f = 8 * hr + (gf + e)
        PROVE  FALSE
    <3>1. n = hr /\ f = gf + e
      BY <2>2, <2>6
    <3>2. x = 0
      BY <2>1, <3>1
    <3>3. i = 1 /\ y = e
      BY <2>1, <3>1
    <3>4. CASE k = 2
      <4>1. k * x = 0 /\ k * y = 2 * e
        BY <3>2, <3>3, <3>4
      <4>2. rank_of(t) = hr /\ file_of(t) = 4
        BY <1>1, <1>3, <4>1
      <4>. QED
        BY <1>1, <1>4, <4>2
    <3>5. CASE k > 2
      <4>1. 2 \in 1..(k - 1)
        BY <3>5
      <4>2. 2 * x = 0 /\ 2 * y = 2 * e
        BY <3>2, <3>3
      <4>3. make_square(hr + 2 * x, gf + 2 * y) = 8 * hr + 4
        BY <1>1, <4>2 DEF make_square
      <4>. QED
        BY <1>1, <1>3, <4>1, <4>3 DEF Empty
    <3>. QED
      BY <3>3, <3>4, <3>5
  <2>7. 8 * n + f \notin DOMAIN b1
    BY <1>1, <2>4, <2>5, <2>6
  <2>. QED
    BY <2>3, <2>7 DEF Empty
<1>6. Sees(b1, g, t, x, y)
  BY <1>2, <1>3, <1>5 DEF Sees
<1>. QED
  BY <1>2, <1>6


(* What attacks the king's arrival before castling attacks it after. *)
LEMMA ArrivalSeen ==
    ASSUME NEW p, IsPosition(p), NEW kind \in Ways, CastleOpen(p, kind),
           is_square_attacked(p.board, Goal(p.side, kind), Opposite(p.side))
    PROVE  is_square_attacked(MenAfter(p.board, Move(Home(p.side), Goal(p.side, kind), kind, "")),
                              Goal(p.side, kind), Opposite(p.side))
<1> DEFINE b == p.board
           c == p.side
           o == Opposite(c)
           h == Home(c)
           g == Goal(c, kind)
           st == Step(c, kind)
           rc == RookCorner(c, kind)
           b1 == MenAfter(b, Move(h, g, kind, ""))
<1>1. c \in Sides /\ o # c /\ g \in Squares /\ IsBoard(b)
  BY PositionParts, UpIs, CastleSquares
<1>2. /\ h \in DOMAIN b /\ rc \in DOMAIN b /\ g \notin DOMAIN b /\ st \notin DOMAIN b
      /\ b[h] = <<c, "K">> /\ b[rc] = <<c, "R">>
  BY CastleFacts DEF Is, Empty
<1>3. /\ DOMAIN b1 = (DOMAIN b \ {h, rc}) \cup {g, st}
      /\ \A x \in DOMAIN b1 : x # g /\ x # st => b1[x] = b[x]
  BY SquaresCastled
<1>4. ASSUME NEW t, NEW man, Is(b, t, o, man)
      PROVE  Is(b1, t, o, man) /\ t # h /\ t \in Squares
  <2>1. t \in DOMAIN b /\ b[t] = <<o, man>>
    BY <1>4 DEF Is
  <2>2. t # h /\ t # rc
    <3>1. <<o, man>> # <<c, "K">> /\ <<o, man>> # <<c, "R">>
      BY <1>1
    <3>. QED
      BY <1>2, <2>1, <3>1
  <2>3. t # g /\ t # st
    BY <1>2, <2>1
  <2>4. t \in DOMAIN b1 /\ b1[t] = b[t]
    BY <1>3, <2>1, <2>2, <2>3
  <2>. QED
    BY <1>1, <2>1, <2>2, <2>4 DEF Is, IsBoard
<1>5. ASSUME NEW t \in Squares, t # h
      PROVE  /\ t \in Rays(b, g, RookSteps) => t \in Rays(b1, g, RookSteps)
             /\ t \in Rays(b, g, BishopSteps) => t \in Rays(b1, g, BishopSteps)
  <2>1. DOMAIN b1 \subseteq DOMAIN b \cup {g, st}
    BY <1>3
  <2>2. ASSUME NEW x \in {-1, 0, 1}, NEW y \in {-1, 0, 1}, x # 0 \/ y # 0, Sees(b, g, t, x, y)
        PROVE  Sees(b1, g, t, x, y)
    <3> HIDE DEF b, b1, c
    <3>. QED
      BY <1>1, <1>2, <1>5, <2>1, <2>2, SeesPast
  <2>3. \A x, y \in {-1, 0, 1} : Straight(<<x, y>>) => x # 0 \/ y # 0
    BY DEF Straight
  <2>4. \A x, y \in {-1, 1} : x \in {-1, 0, 1} /\ y \in {-1, 0, 1} /\ x # 0
    OBVIOUS
  <2>5. /\ t \in Rays(b, g, RookSteps) <=> \E x, y \in {-1, 0, 1} : Straight(<<x, y>>) /\ Sees(b, g, t, x, y)
        /\ t \in Rays(b, g, BishopSteps) <=> \E x, y \in {-1, 1} : Sees(b, g, t, x, y)
    BY <1>1, RaysOf
  <2>6. /\ t \in Rays(b1, g, RookSteps) <=> \E x, y \in {-1, 0, 1} : Straight(<<x, y>>) /\ Sees(b1, g, t, x, y)
        /\ t \in Rays(b1, g, BishopSteps) <=> \E x, y \in {-1, 1} : Sees(b1, g, t, x, y)
    BY <1>1, RaysOf
  <2> HIDE DEF b, g, b1
  <2>. QED
    BY <2>2, <2>3, <2>4, <2>5, <2>6
<1> HIDE DEF b, b1, g, h, o
<1>6. ASSUME \E t \in Targets(g, {<<-Up(o), -1>>, <<-Up(o), 1>>}) : Is(b, t, o, "P")
      PROVE  is_square_attacked(b1, g, o)
  BY <1>4, <1>6 DEF is_square_attacked
<1>7. ASSUME \E t \in Targets(g, KnightSteps) : Is(b, t, o, "N")
      PROVE  is_square_attacked(b1, g, o)
  BY <1>4, <1>7 DEF is_square_attacked
<1>8. ASSUME \E t \in Targets(g, KingSteps) : Is(b, t, o, "K")
      PROVE  is_square_attacked(b1, g, o)
  BY <1>4, <1>8 DEF is_square_attacked
<1>9. ASSUME \E t \in Rays(b, g, RookSteps) : Is(b, t, o, "R") \/ Is(b, t, o, "Q")
      PROVE  is_square_attacked(b1, g, o)
  BY <1>4, <1>5, <1>9 DEF is_square_attacked
<1>10. ASSUME \E t \in Rays(b, g, BishopSteps) : Is(b, t, o, "B") \/ Is(b, t, o, "Q")
       PROVE  is_square_attacked(b1, g, o)
  BY <1>4, <1>5, <1>10 DEF is_square_attacked
<1>11. is_square_attacked(b, g, o)
  BY DEF b, g, o
<1>12. is_square_attacked(b1, g, o)
  BY <1>6, <1>7, <1>8, <1>9, <1>10, <1>11 DEF is_square_attacked
<1>. QED
  BY <1>12 DEF b1, b, g, h, o

(* After castling the king stands where it arrives: the legality test is   *)
(* the rules' third condition.                                             *)
LEMMA CastleSafe ==
    ASSUME NEW p, IsPosition(p), NEW kind \in Ways, CastleOpen(p, kind)
    PROVE  LET m == Move(Home(p.side), Goal(p.side, kind), kind, "")
           IN /\ ~is_in_check(MenAfter(p.board, m), p.side) <=> RuleSafe(p, Home(p.side), Goal(p.side, kind))
              /\ ~is_in_check(MenAfter(p.board, m), p.side)
                     => ~Attacked(p.board, Goal(p.side, kind), Opposite(p.side))
<1> DEFINE b == p.board
           c == p.side
           h == Home(c)
           g == Goal(c, kind)
           b1 == MenAfter(b, Move(h, g, kind, ""))
<1>1. PICK o \in Sides : o = Opposite(c) /\ c \in Sides
  BY PositionParts, UpIs
<1>2. IsBoard(b1) /\ IsBoard(b)
  BY BoardCastled, PositionParts
<1>3. CastleMove(p, Move(h, g, kind, ""))
  BY DEF CastleMove
<1>4. OneKing(b1, c)
  BY <1>1, <1>3, KingsKept
<1>5. AfterRules(b, h, g) = b1
  BY RulesCastle
<1>6. ~is_in_check(b1, c) <=> RuleSafe(p, h, g)
  <2>1. is_in_check(b1, c) <=> Attacked(b1, CHOOSE k \in DOMAIN b1 : b1[k] = <<c, "K">>, Opposite(c))
    BY <1>1, <1>2, <1>4, CheckAgrees
  <2>. QED
    BY <1>5, <2>1 DEF RuleSafe
<1>7. PICK k \in DOMAIN b1 : \A s \in DOMAIN b1 : b1[s] = <<c, "K">> <=> s = k
  BY <1>4 DEF OneKing
<1>8. k = g
  <2>1. g \in DOMAIN b1 /\ b1[g] = <<c, "K">>
    BY SquaresCastled
  <2>. QED
    BY <1>7, <2>1
<1>9. is_in_check(b1, c) <=> is_square_attacked(b1, g, o)
  BY <1>1, <1>2, <1>7, <1>8, KingFound
<1>10. is_square_attacked(b, g, o) => is_square_attacked(b1, g, o)
  BY <1>1, ArrivalSeen
<1>11. is_square_attacked(b, g, o) <=> Attacked(b, g, o)
  BY <1>1, <1>2, AttackedAgrees, CastleSquares
<1>. QED
  BY <1>1, <1>6, <1>9, <1>10, <1>11

(* What the generator asks of a castling move and what the rules ask. *)
LEMMA OpenAgrees ==
    ASSUME NEW p, IsPosition(p), NEW kind \in Ways
    PROVE  RulesOpen(p, kind) <=> CastleOpen(p, kind) /\ ~Attacked(p.board, Goal(p.side, kind), Opposite(p.side))
<1>1. IsBoard(p.board) /\ p.side \in Sides /\ Opposite(p.side) \in Sides
      /\ Home(p.side) \in Squares /\ Step(p.side, kind) \in Squares
  BY PositionParts, UpIs, CastleSquares
<1>2. \A x \in {Home(p.side), Step(p.side, kind)} :
        is_square_attacked(p.board, x, Opposite(p.side)) <=> Attacked(p.board, x, Opposite(p.side))
  BY <1>1, AttackedAgrees
<1>. QED
  BY <1>2 DEF RulesOpen, CastleOpen

(* Every legal move of the generator is a move of the rules. *)
LEMMA LegalByRules ==
    ASSUME NEW p, IsPosition(p), NEW m \in generate_legal_moves(p)
    PROVE  <<m.from, m.to>> \in MovesByRule(p, p.ep)
<1> DEFINE b == p.board
           c == p.side
<1>1. IsBoard(b) /\ c \in Sides
  BY PositionParts
<1>2. m \in generate_pseudo_legal_moves(p) /\ ~is_in_check(MenAfter(b, m), c)
  BY DEF generate_legal_moves
<1>3. PICK s \in DOMAIN b : b[s][1] = c /\ m \in MovesOf(p, s)
  BY <1>2 DEF generate_pseudo_legal_moves
<1>4. ASSUME NEW u \in DOMAIN b, b[u][1] = c, NEW t \in Squares, RuleSafe(p, u, t),
             \/ Reaches(b, u, t, p.ep) /\ ~Mine(b, t, c)
             \/ b[u][2] = "K" /\ CastlesByRule(p, u, t)
      PROVE  <<u, t>> \in MovesByRule(p, p.ep)
  BY <1>4 DEF MovesByRule, RuleSafe
<1>5. CASE PlainMove(p, s, m)
  <2>1. m.from = s /\ m.to \in Squares
    <3>1. m.from = s /\ Ordinary(p, m)
      BY <1>3, <1>5, RulesBoard
    <3>. QED
      BY <3>1 DEF Ordinary
  <2>2. RuleSafe(p, s, m.to)
    BY <1>2, <1>3, <1>5, SafeAgrees
  <2>3. Reaches(b, s, m.to, p.ep) /\ ~Mine(b, m.to, c)
    BY <1>3, <1>5, <2>1, PawnReaches, OfficerReaches DEF PlainMove
  <2>. QED
    BY <1>3, <1>4, <2>1, <2>2, <2>3
<1>6. CASE CastleMove(p, m)
  <2>1. PICK kind \in Ways : m = Move(Home(c), Goal(c, kind), kind, "") /\ CastleOpen(p, kind)
    BY <1>6 DEF CastleMove
  <2>2. m.from = Home(c) /\ m.to = Goal(c, kind) /\ Home(c) \in DOMAIN b /\ b[Home(c)] = <<c, "K">>
    BY <2>1, CastleFacts DEF Is
  <2>3. b[Home(c)][1] = c /\ b[Home(c)][2] = "K"
    BY <2>2
  <2>4. RuleSafe(p, Home(c), Goal(c, kind)) /\ ~Attacked(b, Goal(c, kind), Opposite(c))
    BY <1>2, <2>1, CastleSafe
  <2>5. RulesOpen(p, kind)
    BY <2>1, <2>4, OpenAgrees
  <2>6. CastlesByRule(p, Home(c), Goal(c, kind))
    BY <1>1, <2>5, CastleRules
  <2>7. Goal(c, kind) \in Squares
    BY <1>1, CastleSquares
  <2>8. <<Home(c), Goal(c, kind)>> \in MovesByRule(p, p.ep)
    BY <1>4, <2>2, <2>3, <2>4, <2>6, <2>7
  <2>. QED
    BY <2>2, <2>8
<1>7. CASE b[s][2] = "P"
  BY <1>1, <1>3, <1>5, <1>7, PawnsMoves DEF PlainMove
<1>8. CASE b[s][2] # "P"
  BY <1>1, <1>3, <1>5, <1>6, <1>8, OfficersMoves, CastlesAre DEF PlainMove
<1>. QED
  BY <1>7, <1>8

(* Every move of the rules is among the generator's legal moves. *)
LEMMA RulesAreLegal ==
    ASSUME NEW p, IsPosition(p), NEW s, NEW t, <<s, t>> \in MovesByRule(p, p.ep)
    PROVE  \E m \in generate_legal_moves(p) : m.from = s /\ m.to = t
<1> DEFINE b == p.board
           c == p.side
<1>1. IsBoard(b) /\ c \in Sides
  BY PositionParts
<1>2. /\ s \in DOMAIN b /\ b[s][1] = c /\ t \in Squares /\ RuleSafe(p, s, t)
      /\ \/ Reaches(b, s, t, p.ep) /\ ~Mine(b, t, c)
         \/ b[s][2] = "K" /\ CastlesByRule(p, s, t)
  BY DEF MovesByRule, RuleSafe
<1>3. ASSUME NEW m \in MovesOf(p, s), ~is_in_check(MenAfter(b, m), c)
      PROVE  m \in generate_legal_moves(p)
  BY <1>2, <1>3 DEF generate_legal_moves, generate_pseudo_legal_moves
<1>4. CASE Reaches(b, s, t, p.ep) /\ ~Mine(b, t, c)
  <2>1. PICK m : m.to = t /\ PlainMove(p, s, m)
    BY <1>2, <1>4, PawnReaches, OfficerReaches DEF PlainMove
  <2>2. m.from = s
    BY <1>2, <2>1, RulesBoard
  <2>3. ~is_in_check(MenAfter(b, m), c)
    BY <1>2, <2>1, SafeAgrees
  <2>4. m \in MovesOf(p, s)
    BY <1>1, <1>2, <2>1, PawnsMoves, OfficersMoves DEF PlainMove
  <2>. QED
    BY <1>3, <2>1, <2>2, <2>3, <2>4
<1>5. CASE b[s][2] = "K" /\ CastlesByRule(p, s, t)
  <2>1. PICK kind \in Ways : s = Home(c) /\ t = Goal(c, kind) /\ RulesOpen(p, kind)
    BY <1>1, <1>5, CastleRules
  <2> DEFINE m == Move(s, t, kind, "")
  <2>2. CastleOpen(p, kind)
    BY <2>1, OpenAgrees
  <2>3. ~is_in_check(MenAfter(b, m), c)
    BY <1>2, <2>1, <2>2, CastleSafe
  <2>4. m \in MovesOf(p, s)
    <3>1. CastleMove(p, m)
      BY <2>1, <2>2 DEF CastleMove
    <3>2. m \in CastlingMoves(p, c)
      BY <1>1, <3>1, CastlesAre
    <3>. QED
      BY <1>1, <1>2, <1>5, <3>2, OfficersMoves
  <2>5. m.from = s /\ m.to = t
    BY DEF Move
  <2>. QED
    BY <1>3, <2>3, <2>4, <2>5
<1>. QED
  BY <1>2, <1>4, <1>5

(* Squares of the legal moves and moves of the rules are the same set. *)
LEMMA LegalAgrees ==
    ASSUME NEW p, IsPosition(p)
    PROVE  {<<m.from, m.to>> : m \in generate_legal_moves(p)} = MovesByRule(p, p.ep)
<1>1. \A m \in generate_legal_moves(p) : <<m.from, m.to>> \in MovesByRule(p, p.ep)
  BY LegalByRules
<1>2. \A x \in MovesByRule(p, p.ep) : \E s, t : x = <<s, t>>
  BY DEF MovesByRule
<1>3. ASSUME NEW x \in MovesByRule(p, p.ep)
      PROVE  \E m \in generate_legal_moves(p) : x = <<m.from, m.to>>
  <2>1. PICK s, t : x = <<s, t>>
    BY <1>2
  <2>2. PICK m \in generate_legal_moves(p) : m.from = s /\ m.to = t
    BY <2>1, RulesAreLegal
  <2>. QED
    BY <2>1, <2>2
<1>. QED
  BY <1>1, <1>3

(* In any game generate_legal_moves returns the moves of the rules, and    *)
(* get_game_status finds the game over exactly when there is none.         *)
THEOREM LegalMovesStayTheRules == ChessSpec => []LegalMovesAreTheRules
<1>1. ChessInit => ChessInv
  BY ChessBegins
<1>2. ChessInv /\ [ChessNext]_chessVars => ChessInv'
  BY ChessMoves
<1>3. ChessInv => LegalMovesAreTheRules
  <2>1. SUFFICES ASSUME ChessInv PROVE LegalMovesAreTheRules
    OBVIOUS
  <2> DEFINE legal == generate_legal_moves(pos)
             rules == MovesByRule(pos, IF line = << >> THEN pos.ep ELSE JustPassed(pos, Last(line)))
  <2>2. IsPosition(pos) /\ (IF line = << >> THEN pos.ep ELSE JustPassed(pos, Last(line))) = pos.ep
    BY <2>1 DEF ChessInv
  <2>3. {<<m.from, m.to>> : m \in legal} = rules
    BY <2>2, LegalAgrees
  <2>4. ASSUME pos.half < 100
        PROVE  get_game_status(pos, legal) = "ongoing" <=> rules # {}
    <3>1. get_game_status(pos, legal) = IF legal # {} THEN "ongoing"
                                        ELSE IF is_in_check(pos.board, pos.side) THEN "checkmate" ELSE "stalemate"
      <4>1. pos.half \in Nat /\ ~(pos.half >= 100)
        BY <2>2, <2>4, PositionParts
      <4>. QED
        BY <4>1 DEF get_game_status
    <3>2. legal # {} <=> rules # {}
      BY <2>3
    <3>. QED
      BY <3>1, <3>2
  <2> HIDE DEF legal, rules
  <2>5. /\ {<<m.from, m.to>> : m \in legal} = rules
        /\ pos.half < 100 => (get_game_status(pos, legal) = "ongoing") = (rules # {})
    BY <2>3, <2>4
  <2>. QED
    BY <2>5 DEF LegalMovesAreTheRules, legal, rules
<1>. QED
  BY <1>1, <1>2, <1>3, PTL DEF ChessSpec

-----------------------------------------------------------------------------
(* Sums over finite sets *)

(* A set of numbers has a least one. *)
LEMMA LeastOfSome == ASSUME NEW S \in SUBSET Nat, S # {} PROVE \E n \in S : \A k \in S : n <= k
<1>1. PICK R : R = {ss \in Nat \X Nat : ss[1] < ss[2]} /\ IsWellFoundedOn(R, Nat)
  BY NatLessThanWellFounded DEF OpToRel
<1>2. \E t \in S : \A y \in S : ~(<<y, t>> \in R)
  BY <1>1, WFMin, Zenon
<1>3. PICK t \in S : \A y \in S : ~(<<y, t>> \in R)
  BY <1>2
<1>4. ASSUME NEW y \in S PROVE t <= y
  <2>1. <<y, t>> \in Nat \X Nat /\ ~(<<y, t>> \in R)
    BY <1>3
  <2>2. ~(y < t)
    BY <1>1, <2>1
  <2>. QED
    BY <2>2
<1>. QED
  BY <1>4

(* The function that adds up the values of f over any part of S.           *)
Adds(u, f, S) == /\ u \in [SUBSET S -> Int]
                 /\ \A s \in SUBSET S : u[s] = IF s = {} THEN 0 ELSE LET x == CHOOSE x \in s : TRUE
                                                                    IN f[x] + u[s \ {x}]

(* The recursive function behind Total exists, and so it does what its     *)
(* equation says.                                                          *)
LEMMA TotalAdds ==
    ASSUME NEW S, IsFiniteSet(S), NEW f \in [S -> Int]
    PROVE  \E u : Adds(u, f, S) /\ Total(f) = u[S]
<1>. DEFINE first(s) == CHOOSE x \in s : TRUE
            sum(t, s) == IF s = {} THEN 0 ELSE f[first(s)] + t[s \ {first(s)}]
            solves(t, k) == /\ t \in [SUBSET S -> Int]
                            /\ \A s \in SUBSET S : Cardinality(s) <= k => t[s] = sum(t, s)
<1>1. ASSUME NEW s \in SUBSET S
      PROVE  /\ Cardinality(s) \in Nat
             /\ s # {} => /\ first(s) \in s /\ f[first(s)] \in Int
                          /\ Cardinality(s \ {first(s)}) = Cardinality(s) - 1
                          /\ s \ {first(s)} \in SUBSET S
  <2>1. IsFiniteSet(s)
    BY FS_Subset
  <2>2. s # {} => first(s) \in s
    OBVIOUS
  <2>. HIDE DEF first
  <2>. QED
    BY <2>1, <2>2, FS_CardinalityType, FS_RemoveElement
<1>. HIDE DEF first
<1>2. \A k \in Nat : \E t : solves(t, k)
  <2>. DEFINE Bad == {k \in Nat : ~\E t : solves(t, k)}
  <2>1. SUFFICES ASSUME Bad # {} PROVE FALSE
    OBVIOUS
  <2>2. PICK k \in Bad : \A j \in Bad : k <= j
    <3>. HIDE DEF solves
    <3>. QED
      BY <2>1, LeastOfSome
  <2>3. k # 0
    <3>1. PICK t : t = [s \in SUBSET S |-> 0]
      OBVIOUS
    <3>2. ASSUME NEW s \in SUBSET S, Cardinality(s) <= 0 PROVE s = {}
      <4>1. IsFiniteSet(s) /\ Cardinality(s) \in Nat
        BY FS_Subset, FS_CardinalityType
      <4>. QED
        BY <3>2, <4>1, FS_EmptySet
    <3>3. solves(t, 0)
      BY <3>1, <3>2
    <3>. QED
      BY <3>3
  <2>4. k \in Nat /\ k - 1 \in Nat /\ k - 1 \notin Bad
    <3>1. k \in Nat
      OBVIOUS
    <3>. HIDE DEF Bad
    <3>. QED
      BY <2>2, <2>3, <3>1
  <2>5. PICK t : solves(t, k - 1)
    BY <2>4
  <2>6. PICK u : u = [s \in SUBSET S |-> IF Cardinality(s) <= k - 1 THEN t[s] ELSE sum(t, s)]
    OBVIOUS
  <2>7. ASSUME NEW s \in SUBSET S PROVE sum(t, s) \in Int
    <3>1. CASE s = {}
      BY <3>1
    <3>2. CASE s # {}
      <4>1. t[s \ {first(s)}] \in Int /\ f[first(s)] \in Int
        BY <1>1, <2>5, <3>2
      <4>. QED
        BY <3>2, <4>1
    <3>. QED
      BY <3>1, <3>2
  <2>8. u \in [SUBSET S -> Int]
    BY <2>5, <2>6, <2>7
  <2>9. ASSUME NEW s \in SUBSET S, Cardinality(s) <= k PROVE u[s] = sum(u, s)
    <3>1. u[s] = sum(t, s)
      BY <2>5, <2>6
    <3>2. s # {} => u[s \ {first(s)}] = t[s \ {first(s)}]
      BY <1>1, <2>4, <2>6, <2>9
    <3>. QED
      BY <3>1, <3>2
  <2>10. solves(u, k)
    BY <2>8, <2>9
  <2>. QED
    BY <2>2, <2>10
<1>3. PICK t : solves(t, Cardinality(S))
  BY <1>1, <1>2
<1>4. t = [s \in SUBSET S |-> sum(t, s)]
  <2>1. \A s \in SUBSET S : Cardinality(s) <= Cardinality(S)
    BY FS_Subset
  <2>. QED
    BY <1>3, <2>1
<1>. DEFINE eq(u) == u = [s \in SUBSET S |-> IF s = {} THEN 0 ELSE LET x == CHOOSE x \in s : TRUE
                                                                 IN f[x] + u[s \ {x}]]
<1>5. PICK u : u = (CHOOSE v : eq(v))
  OBVIOUS
<1>6. eq(u)
  <2>1. eq(t)
    BY <1>4 DEF first
  <2>. HIDE DEF eq
  <2>. QED
    BY <1>5, <2>1, Zenon
<1>7. \A s \in SUBSET S : u[s] = sum(u, s)
  BY <1>6 DEF first
<1>. HIDE DEF eq
<1>8. \A s \in SUBSET S : u[s] \in Int
  <2>. DEFINE Bad == {Cardinality(s) : s \in {r \in SUBSET S : u[r] \notin Int}}
  <2>1. SUFFICES ASSUME Bad # {} PROVE FALSE
    OBVIOUS
  <2>2. Bad \in SUBSET Nat
    BY <1>1
  <2>3. PICK n \in Bad : \A k \in Bad : n <= k
    BY <2>1, <2>2, LeastOfSome
  <2>4. PICK s \in SUBSET S : n = Cardinality(s) /\ u[s] \notin Int
    BY <2>3
  <2>5. s # {} /\ u[s \ {first(s)}] \notin Int
    BY <1>1, <1>7, <2>4
  <2>6. PICK k \in Bad : k = Cardinality(s) - 1
    BY <1>1, <2>5
  <2>7. n \in Nat /\ n <= k /\ k = n - 1
    BY <2>2, <2>3, <2>4, <2>6
  <2>. QED
    BY <2>7
<1>9. Total(f) = u[S]
  <2>1. DOMAIN f = S
    OBVIOUS
  <2>. QED
    BY <1>5, <2>1 DEF Total, eq
<1>10. u \in [SUBSET S -> Int]
  BY <1>6, <1>8 DEF eq
<1>11. \A s \in SUBSET S : u[s] = IF s = {} THEN 0 ELSE LET x == CHOOSE x \in s : TRUE IN f[x] + u[s \ {x}]
  BY <1>7 DEF first
<1>. QED
  BY <1>9, <1>10, <1>11 DEF Adds

(* The element taken first does not matter.                                *)
LEMMA AnyFirst ==
    ASSUME NEW S, IsFiniteSet(S), NEW f \in [S -> Int], NEW u, Adds(u, f, S),
           NEW s \in SUBSET S, NEW x \in s
    PROVE  u[s] = f[x] + u[s \ {x}]
<1>. DEFINE first(r) == CHOOSE y \in r : TRUE
            odd(r) == \E y \in r : u[r] # f[y] + u[r \ {y}]
            Bad == {Cardinality(r) : r \in {q \in SUBSET S : odd(q)}}
<1>1. ASSUME NEW r \in SUBSET S
      PROVE  /\ Cardinality(r) \in Nat
             /\ r # {} => /\ first(r) \in r /\ u[r] = f[first(r)] + u[r \ {first(r)}]
             /\ \A y \in r : Cardinality(r \ {y}) = Cardinality(r) - 1 /\ r \ {y} \in SUBSET S
  <2>1. IsFiniteSet(r)
    BY FS_Subset
  <2>2. r # {} => first(r) \in r /\ u[r] = f[first(r)] + u[r \ {first(r)}]
    BY DEF Adds
  <2>. HIDE DEF first
  <2>. QED
    BY <2>1, <2>2, FS_CardinalityType, FS_RemoveElement
<1>. HIDE DEF first
<1>2. SUFFICES ASSUME Bad # {} PROVE FALSE
  OBVIOUS
<1>3. Bad \in SUBSET Nat
  <2>. HIDE DEF odd
  <2>. QED
    BY <1>1
<1>4. PICK n \in Bad : \A k \in Bad : n <= k
  BY <1>2, <1>3, LeastOfSome
<1>5. PICK r \in SUBSET S : n = Cardinality(r) /\ odd(r)
  <2>. HIDE DEF odd
  <2>. QED
    BY <1>4
<1>6. PICK y \in r : u[r] # f[y] + u[r \ {y}]
  BY <1>5
<1>7. PICK z \in r : z = first(r) /\ u[r] = f[z] + u[r \ {z}]
  BY <1>1
<1>8. y # z /\ y \in r \ {z} /\ z \in r \ {y}
  BY <1>6, <1>7
<1>9. ASSUME NEW w \in r, NEW v \in r \ {w}
      PROVE  u[r \ {w}] = f[v] + u[(r \ {w}) \ {v}]
  <2>1. Cardinality(r \ {w}) = n - 1 /\ r \ {w} \in SUBSET S /\ n \in Nat
    BY <1>1, <1>5
  <2>2. n - 1 \notin Bad
    BY <1>3, <1>4, <2>1
  <2>. QED
    BY <2>1, <2>2
<1>10. u[r \ {z}] = f[y] + u[(r \ {z}) \ {y}] /\ u[r \ {y}] = f[z] + u[(r \ {y}) \ {z}]
  BY <1>8, <1>9
<1>11. (r \ {z}) \ {y} = (r \ {y}) \ {z} /\ (r \ {z}) \ {y} \in SUBSET S
  OBVIOUS
<1>12. PICK k \in Int : k = u[(r \ {z}) \ {y}]
  BY <1>11 DEF Adds
<1>13. PICK c \in Int, d \in Int : c = f[y] /\ d = f[z]
  BY <1>5
<1>14. u[r \ {z}] = c + k /\ u[r \ {y}] = d + k
  BY <1>10, <1>11, <1>12, <1>13
<1>15. u[r] = d + (c + k) /\ u[r] # c + (d + k)
  BY <1>6, <1>7, <1>13, <1>14
<1>. QED
  BY <1>15

(* The same values give the same sum, whatever they are values of.         *)
LEMMA TotalMoved ==
    ASSUME NEW S, IsFiniteSet(S), NEW T, NEW h \in Bijection(S, T),
           NEW f \in [S -> Int], NEW g \in [T -> Int], \A x \in S : g[h[x]] = f[x]
    PROVE  Total(f) = Total(g) /\ Total(f) \in Int
<1>1. IsFiniteSet(T) /\ h \in [S -> T] /\ T = {h[x] : x \in S}
      /\ \A x, y \in S : h[x] = h[y] => x = y
  <2>1. IsFiniteSet(T)
    BY FS_Bijection DEF ExistsBijection
  <2>. QED
    BY <2>1 DEF Bijection, Injection, Surjection, IsInjective
<1>2. PICK u : Adds(u, f, S) /\ Total(f) = u[S]
  BY TotalAdds
<1>3. PICK v : Adds(v, g, T) /\ Total(g) = v[T]
  BY <1>1, TotalAdds
<1>. DEFINE of(s) == {h[x] : x \in s}
            Bad == {Cardinality(s) : s \in {q \in SUBSET S : u[q] # v[of(q)]}}
<1>4. ASSUME NEW s \in SUBSET S
      PROVE  /\ Cardinality(s) \in Nat /\ of(s) \in SUBSET T
             /\ \A x \in s : /\ Cardinality(s \ {x}) = Cardinality(s) - 1
                             /\ u[s] = f[x] + u[s \ {x}] /\ v[of(s)] = g[h[x]] + v[of(s \ {x})]
             /\ s = {} => u[s] = 0 /\ v[of(s)] = 0
  <2>1. Cardinality(s) \in Nat /\ IsFiniteSet(s) /\ of(s) \in SUBSET T
    BY <1>1, FS_Subset, FS_CardinalityType
  <2>2. ASSUME NEW x \in s
        PROVE  /\ Cardinality(s \ {x}) = Cardinality(s) - 1
               /\ u[s] = f[x] + u[s \ {x}] /\ v[of(s)] = g[h[x]] + v[of(s \ {x})]
    <3>1. of(s) \ {h[x]} = of(s \ {x}) /\ h[x] \in of(s)
      BY <1>1
    <3>2. u[s] = f[x] + u[s \ {x}]
      BY <1>2, AnyFirst
    <3>3. PICK r \in SUBSET T : r = of(s)
      BY <2>1
    <3>4. v[r] = g[h[x]] + v[r \ {h[x]}]
      <4>1. h[x] \in r
        BY <3>1, <3>3
      <4>. HIDE DEF of
      <4>. QED
        BY <1>1, <1>3, <4>1, AnyFirst
    <3>5. Cardinality(s \ {x}) = Cardinality(s) - 1
      BY <2>1, FS_RemoveElement
    <3>. HIDE DEF of
    <3>. QED
      BY <3>1, <3>2, <3>3, <3>4, <3>5
  <2>3. s = {} => u[s] = 0 /\ v[of(s)] = 0
    <3>1. s = {} => of(s) = {}
      OBVIOUS
    <3>. HIDE DEF of
    <3>. QED
      BY <1>2, <1>3, <3>1 DEF Adds
  <2>. HIDE DEF of
  <2>. QED
    BY <2>1, <2>2, <2>3
<1>5. Bad = {}
  <2>1. SUFFICES ASSUME Bad # {} PROVE FALSE
    OBVIOUS
  <2>2. Bad \in SUBSET Nat
    BY <1>4
  <2>3. PICK n \in Bad : \A k \in Bad : n <= k
    BY <2>1, <2>2, LeastOfSome
  <2>4. PICK s \in SUBSET S : n = Cardinality(s) /\ u[s] # v[of(s)]
    BY <2>3
  <2>5. PICK x \in s : TRUE
    BY <1>4, <2>4
  <2>6. /\ Cardinality(s \ {x}) = n - 1 /\ n \in Nat /\ s \ {x} \in SUBSET S
        /\ u[s] = f[x] + u[s \ {x}] /\ v[of(s)] = g[h[x]] + v[of(s \ {x})]
    BY <1>4, <2>4
  <2>7. n - 1 \notin Bad
    <3>. HIDE DEF Bad
    <3>. QED
      BY <2>2, <2>3, <2>6
  <2>8. u[s \ {x}] = v[of(s \ {x})]
    BY <2>6, <2>7
  <2>. QED
    BY <2>4, <2>6, <2>8
<1>6. of(S) = T
  BY <1>1
<1>7. u[S] = v[of(S)]
  <2>. HIDE DEF of
  <2>. QED
    BY <1>5
<1>8. u[S] \in Int
  BY <1>2 DEF Adds
<1>. HIDE DEF of
<1>. QED
  BY <1>2, <1>3, <1>6, <1>7, <1>8

-----------------------------------------------------------------------------
(* The board seen from the other side *)

MirrorOf(b, b1) ==
    /\ IsBoard(b) /\ IsBoard(b1)
    /\ \A s \in Squares : s \in DOMAIN b <=> Flip(s) \in DOMAIN b1
    /\ \A s \in DOMAIN b : b1[Flip(s)] = <<Opposite(b[s][1]), b[s][2]>>

(* A square seen from the other side. *)
LEMMA FlipIs ==
    ASSUME NEW s \in Squares
    PROVE  /\ Flip(s) \in Squares /\ Flip(Flip(s)) = s
           /\ rank_of(Flip(s)) = 7 - rank_of(s) /\ file_of(Flip(s)) = file_of(s)
<1>1. PICK r \in 0..7, f \in 0..7 : r = rank_of(s) /\ f = file_of(s) /\ s = make_square(r, f)
  BY SquareParts
<1>2. Flip(s) = make_square(7 - r, f) /\ 7 - r \in 0..7
  BY <1>1 DEF Flip
<1>3. rank_of(Flip(s)) = 7 - r /\ file_of(Flip(s)) = f /\ Flip(s) \in Squares
  BY <1>2, MadeSquare
<1>4. Flip(Flip(s)) = make_square(7 - (7 - r), f) /\ 7 - (7 - r) = r
  BY <1>3 DEF Flip
<1>. QED
  BY <1>1, <1>3, <1>4

(* Different squares stay different. *)
LEMMA FlipApart == ASSUME NEW s \in Squares, NEW t \in Squares PROVE Flip(s) = Flip(t) <=> s = t
<1>1. Flip(Flip(s)) = s /\ Flip(Flip(t)) = t
  BY FlipIs
<1>. QED
  BY <1>1

(* A square built of rank and file, seen from the other side. *)
LEMMA FlipMade ==
    ASSUME NEW r \in 0..7, NEW f \in 0..7
    PROVE  Flip(make_square(r, f)) = make_square(7 - r, f)
BY MadeSquare DEF Flip

(* Ranks are told from the other end, files stay. *)
LEMMA FlipOffsets ==
    ASSUME NEW s \in Squares, NEW t \in Squares
    PROVE  /\ Rise(Flip(s), Flip(t)) = -Rise(s, t) /\ Shift(Flip(s), Flip(t)) = Shift(s, t)
           /\ Abs(Rise(Flip(s), Flip(t))) = Abs(Rise(s, t))
<1>1. PICK r \in 0..7, f \in 0..7, r2 \in 0..7, f2 \in 0..7 :
          r = rank_of(s) /\ f = file_of(s) /\ r2 = rank_of(t) /\ f2 = file_of(t)
  BY SquareParts
<1>2. Rise(s, t) = r2 - r /\ Rise(Flip(s), Flip(t)) = (7 - r2) - (7 - r)
      /\ Shift(s, t) = f2 - f /\ Shift(Flip(s), Flip(t)) = f2 - f
  BY <1>1, FlipIs DEF Rise, Shift
<1>3. (7 - r2) - (7 - r) = -(r2 - r) /\ Abs(-(r2 - r)) = Abs(r2 - r)
  BY DEF Abs
<1>. QED
  BY <1>2, <1>3

(* The men keep their kind and change their side. *)
LEMMA MirrorMan ==
    ASSUME NEW b, NEW b1, MirrorOf(b, b1), NEW s \in DOMAIN b
    PROVE  /\ s \in Squares /\ Flip(s) \in DOMAIN b1 /\ b[s][1] \in Sides
           /\ b1[Flip(s)][1] = Opposite(b[s][1]) /\ b1[Flip(s)][2] = b[s][2]
<1>1. s \in Squares /\ b[s][1] \in Sides
  BY ManOf DEF MirrorOf
<1>2. Flip(s) \in DOMAIN b1 /\ b1[Flip(s)] = <<Opposite(b[s][1]), b[s][2]>>
  BY <1>1 DEF MirrorOf
<1>. QED
  BY <1>1, <1>2

(* What is seen in the mirror sees the same. *)
LEMMA MirrorBack == ASSUME NEW b, NEW b1, MirrorOf(b, b1) PROVE MirrorOf(b1, b)
<1>1. IsBoard(b) /\ IsBoard(b1)
  BY DEF MirrorOf
<1>2. ASSUME NEW s \in Squares PROVE s \in DOMAIN b1 <=> Flip(s) \in DOMAIN b
  <2>1. Flip(s) \in Squares /\ Flip(Flip(s)) = s
    BY FlipIs
  <2>. QED
    BY <2>1 DEF MirrorOf
<1>3. ASSUME NEW s \in DOMAIN b1 PROVE b[Flip(s)] = <<Opposite(b1[s][1]), b1[s][2]>>
  <2>1. s \in Squares /\ Flip(s) \in Squares /\ Flip(Flip(s)) = s
    BY <1>1, ManOf, FlipIs
  <2>2. PICK x \in DOMAIN b : x = Flip(s)
    BY <1>2, <2>1
  <2>3. b1[s][1] = Opposite(b[x][1]) /\ b1[s][2] = b[x][2] /\ b[x][1] \in Sides
    BY <2>1, <2>2, MirrorMan
  <2>4. Opposite(b1[s][1]) = b[x][1]
    BY <2>3, UpIs
  <2>5. b[x] = <<b[x][1], b[x][2]>>
    BY <1>1, ManOf, PieceParts
  <2>. QED
    BY <2>2, <2>3, <2>4, <2>5
<1>. QED
  BY <1>1, <1>2, <1>3 DEF MirrorOf

(* What stands on a square, seen from the other side. *)
LEMMA MirrorMine ==
    ASSUME NEW b, NEW b1, MirrorOf(b, b1), NEW s \in Squares
    PROVE  /\ Empty(b1, Flip(s)) <=> Empty(b, s)
           /\ \A c \in Sides : Mine(b1, Flip(s), Opposite(c)) <=> Mine(b, s, c)
           /\ \A c \in Sides : \A t : Is(b1, Flip(s), Opposite(c), t) <=> Is(b, s, c, t)
<1>1. s \in DOMAIN b <=> Flip(s) \in DOMAIN b1
  BY DEF MirrorOf
<1>2. CASE s \in DOMAIN b
  <2>1. b1[Flip(s)][1] = Opposite(b[s][1]) /\ b1[Flip(s)][2] = b[s][2] /\ b[s][1] \in Sides
    BY <1>2, MirrorMan
  <2>2. \A c \in Sides : Opposite(b[s][1]) = Opposite(c) <=> b[s][1] = c
    BY <2>1, UpIs
  <2>3. IsBoard(b) /\ IsBoard(b1) /\ Flip(s) \in DOMAIN b1
    BY <1>1, <1>2 DEF MirrorOf
  <2>4. \A c, t : b[s] = <<c, t>> <=> b[s][1] = c /\ b[s][2] = t
    BY <1>2, <2>3, ManOf
  <2>5. \A c, t : b1[Flip(s)] = <<c, t>> <=> b1[Flip(s)][1] = c /\ b1[Flip(s)][2] = t
    BY <2>3, ManOf
  <2>. QED
    BY <1>1, <1>2, <2>1, <2>2, <2>4, <2>5 DEF Mine, Empty, Is
<1>3. CASE s \notin DOMAIN b
  BY <1>1, <1>3 DEF Mine, Empty, Is
<1>. QED
  BY <1>2, <1>3

-----------------------------------------------------------------------------
(* Lines and attacks in the mirror *)

(* What a man sees along a ray he sees in the mirror. *)
LEMMA SeesFlipped ==
    ASSUME NEW b, NEW b1, MirrorOf(b, b1), NEW s \in Squares, NEW t \in Squares,
           NEW x \in {-1, 0, 1}, NEW y \in {-1, 0, 1}, Sees(b, s, t, x, y)
    PROVE  Sees(b1, Flip(s), Flip(t), -x, y)
<1>1. PICK k \in 1..7 : /\ rank_of(t) = rank_of(s) + k * x /\ file_of(t) = file_of(s) + k * y
                        /\ \A i \in 1..(k - 1) :
                              Empty(b, make_square(rank_of(s) + i * x, file_of(s) + i * y))
  BY DEF Sees
<1>2. PICK r \in 0..7, f \in 0..7, r2 \in 0..7, f2 \in 0..7 :
          r = rank_of(s) /\ f = file_of(s) /\ r2 = rank_of(t) /\ f2 = file_of(t)
  BY SquareParts
<1>3. /\ rank_of(Flip(s)) = 7 - r /\ file_of(Flip(s)) = f
      /\ rank_of(Flip(t)) = 7 - r2 /\ file_of(Flip(t)) = f2
  BY <1>2, FlipIs
<1>4. r2 = r + k * x /\ f2 = f + k * y
  BY <1>1, <1>2
<1>5. ASSUME NEW i \in Int PROVE i * (-x) = -(i * x) /\ i * x \in Int /\ i * y \in Int
  BY <1>5, Multiples
<1>6. 7 - r2 = (7 - r) + k * (-x)
  BY <1>4, <1>5
<1>7. ASSUME NEW i \in 1..(k - 1)
      PROVE  Empty(b1, make_square((7 - r) + i * (-x), f + i * y))
  <2>1. r + i * x \in 0..7
    <3>1. CASE x = 0
      BY <3>1
    <3>2. CASE x = 1
      BY <1>4, <3>2
    <3>3. CASE x = -1
      BY <1>4, <3>3
    <3>. QED
      BY <3>1, <3>2, <3>3
  <2>2. f + i * y \in 0..7
    <3>1. CASE y = 0
      BY <3>1
    <3>2. CASE y = 1
      BY <1>4, <3>2
    <3>3. CASE y = -1
      BY <1>4, <3>3
    <3>. QED
      BY <3>1, <3>2, <3>3
  <2>3. PICK r3 \in 0..7, f3 \in 0..7 : r3 = r + i * x /\ f3 = f + i * y
    BY <2>1, <2>2
  <2>4. (7 - r) + i * (-x) = 7 - r3
    BY <1>5, <2>3
  <2>5. Empty(b, make_square(r3, f3)) /\ make_square(r3, f3) \in Squares
    BY <1>1, <1>2, <2>3, MadeSquare
  <2>6. Empty(b1, Flip(make_square(r3, f3)))
    BY <2>5, MirrorMine
  <2>. QED
    BY <2>3, <2>4, <2>6, FlipMade
<1>. QED
  BY <1>3, <1>4, <1>6, <1>7 DEF Sees

(* Lines and what stands between, in the mirror. *)
LEMMA LinesFlipped ==
    ASSUME NEW b, NEW b1, MirrorOf(b, b1), NEW s \in Squares, NEW t \in Squares
    PROVE  /\ OnLine(s, t) /\ Clear(b, s, t) => OnLine(Flip(s), Flip(t)) /\ Clear(b1, Flip(s), Flip(t))
           /\ OnDiagonal(s, t) /\ Clear(b, s, t) => OnDiagonal(Flip(s), Flip(t)) /\ Clear(b1, Flip(s), Flip(t))
<1>1. Flip(s) \in Squares /\ Flip(t) \in Squares
  BY FlipIs
<1>2. \A x, y \in {-1, 0, 1} : /\ Straight(<<x, y>>) => Straight(<<-x, y>>)
                               /\ -x \in {-1, 0, 1}
                               /\ x \in {-1, 1} => -x \in {-1, 1}
  BY DEF Straight
<1>3. ASSUME OnLine(s, t), Clear(b, s, t) PROVE OnLine(Flip(s), Flip(t)) /\ Clear(b1, Flip(s), Flip(t))
  <2>1. t \in Rays(b, s, RookSteps)
    BY <1>3, RookRays
  <2>2. PICK x \in {-1, 0, 1}, y \in {-1, 0, 1} : Straight(<<x, y>>) /\ Sees(b, s, t, x, y)
    BY <2>1, RaysOf
  <2>3. Sees(b1, Flip(s), Flip(t), -x, y) /\ Straight(<<-x, y>>) /\ -x \in {-1, 0, 1}
    BY <1>2, <2>2, SeesFlipped
  <2>4. Flip(t) \in Rays(b1, Flip(s), RookSteps)
    BY <1>1, <2>3, RaysOf
  <2>. QED
    BY <1>1, <2>4, RookRays
<1>4. ASSUME OnDiagonal(s, t), Clear(b, s, t) PROVE OnDiagonal(Flip(s), Flip(t)) /\ Clear(b1, Flip(s), Flip(t))
  <2>1. t \in Rays(b, s, BishopSteps)
    BY <1>4, BishopRays
  <2>2. PICK x \in {-1, 1}, y \in {-1, 1} : Sees(b, s, t, x, y)
    BY <2>1, RaysOf
  <2>3. Sees(b1, Flip(s), Flip(t), -x, y) /\ -x \in {-1, 1}
    BY <1>2, <2>2, SeesFlipped
  <2>4. Flip(t) \in Rays(b1, Flip(s), BishopSteps)
    BY <1>1, <2>3, RaysOf
  <2>. QED
    BY <1>1, <2>4, BishopRays
<1>. QED
  BY <1>3, <1>4

(* A man attacks in the mirror what he attacks. *)
LEMMA AttacksFlipped ==
    ASSUME NEW b, NEW b1, MirrorOf(b, b1), NEW s \in DOMAIN b, NEW t \in Squares, Attacks(b, s, t)
    PROVE  Attacks(b1, Flip(s), Flip(t))
<1> DEFINE x == Flip(s)
           y == Flip(t)
<1>1. s \in Squares /\ x \in DOMAIN b1 /\ b[s][1] \in Sides
      /\ b1[x][1] = Opposite(b[s][1]) /\ b1[x][2] = b[s][2]
  BY MirrorMan
<1>2. b[s][2] \in Kinds
  BY ManOf DEF MirrorOf
<1>3. Rise(x, y) = -Rise(s, t) /\ Shift(x, y) = Shift(s, t) /\ Abs(Rise(x, y)) = Abs(Rise(s, t))
  BY <1>1, FlipOffsets
<1>4. x = y <=> s = t
  BY <1>1, FlipApart
<1>5. Up(b1[x][1]) = -Up(b[s][1]) /\ Up(b[s][1]) \in {-1, 1}
  BY <1>1, UpIs
<1>6. CASE b[s][2] = "P"
  <2>1. Rise(s, t) = Up(b[s][1]) /\ Abs(Shift(s, t)) = 1
    BY <1>6, AttackForms
  <2>2. Rise(x, y) = Up(b1[x][1]) /\ Abs(Shift(x, y)) = 1
    BY <1>3, <1>5, <2>1
  <2>. QED
    BY <1>1, <1>6, <2>2, AttackForms
<1>7. CASE b[s][2] = "N"
  <2>1. {Abs(Rise(s, t)), Abs(Shift(s, t))} = {1, 2}
    BY <1>7, AttackForms
  <2>2. {Abs(Rise(x, y)), Abs(Shift(x, y))} = {1, 2}
    BY <1>3, <2>1
  <2>. QED
    BY <1>1, <1>7, <2>2, AttackForms
<1>8. CASE b[s][2] = "K"
  <2>1. s # t /\ Abs(Rise(s, t)) <= 1 /\ Abs(Shift(s, t)) <= 1
    BY <1>8, AttackForms
  <2>2. x # y /\ Abs(Rise(x, y)) <= 1 /\ Abs(Shift(x, y)) <= 1
    BY <1>3, <1>4, <2>1
  <2>. QED
    BY <1>1, <1>8, <2>2, AttackForms
<1>9. CASE b[s][2] \in {"R", "B", "Q"}
  <2>1. /\ OnLine(s, t) /\ Clear(b, s, t) => OnLine(x, y) /\ Clear(b1, x, y)
        /\ OnDiagonal(s, t) /\ Clear(b, s, t) => OnDiagonal(x, y) /\ Clear(b1, x, y)
    BY <1>1, LinesFlipped
  <2>2. /\ b[s][2] = "R" => OnLine(s, t) /\ Clear(b, s, t)
        /\ b[s][2] = "B" => OnDiagonal(s, t) /\ Clear(b, s, t)
        /\ b[s][2] = "Q" => (OnLine(s, t) \/ OnDiagonal(s, t)) /\ Clear(b, s, t)
    BY AttackForms
  <2>3. /\ b1[x][2] = "R" => (Attacks(b1, x, y) <=> OnLine(x, y) /\ Clear(b1, x, y))
        /\ b1[x][2] = "B" => (Attacks(b1, x, y) <=> OnDiagonal(x, y) /\ Clear(b1, x, y))
        /\ b1[x][2] = "Q" => (Attacks(b1, x, y) <=> (OnLine(x, y) \/ OnDiagonal(x, y)) /\ Clear(b1, x, y))
    BY <1>1, AttackForms
  <2>4. CASE b[s][2] = "R"
    BY <1>1, <2>1, <2>2, <2>3, <2>4
  <2>5. CASE b[s][2] = "B"
    BY <1>1, <2>1, <2>2, <2>3, <2>5
  <2>6. CASE b[s][2] = "Q"
    BY <1>1, <2>1, <2>2, <2>3, <2>6
  <2>. QED
    BY <1>9, <2>4, <2>5, <2>6
<1>. QED
  BY <1>2, <1>6, <1>7, <1>8, <1>9 DEF Kinds

(* Nor does the mirror change who attacks. *)
LEMMA AttackFlips ==
    ASSUME NEW b, NEW b1, MirrorOf(b, b1), NEW s \in DOMAIN b, NEW t \in Squares
    PROVE  Attacks(b1, Flip(s), Flip(t)) <=> Attacks(b, s, t)
<1>1. MirrorOf(b1, b) /\ Flip(s) \in DOMAIN b1 /\ Flip(t) \in Squares
      /\ Flip(Flip(s)) = s /\ Flip(Flip(t)) = t
  BY MirrorBack, MirrorMan, FlipIs
<1>2. Attacks(b1, Flip(s), Flip(t)) => Attacks(b, Flip(Flip(s)), Flip(Flip(t)))
  BY <1>1, AttacksFlipped
<1>. QED
  BY <1>1, <1>2, AttacksFlipped

(* is_square_attacked agrees with the mirror. *)
LEMMA AttackedFlipped ==
    ASSUME NEW b, NEW b1, MirrorOf(b, b1), NEW t \in Squares, NEW c \in Sides
    PROVE  is_square_attacked(b1, Flip(t), Opposite(c)) <=> is_square_attacked(b, t, c)
<1>1. ASSUME NEW a, NEW a1, MirrorOf(a, a1), NEW u \in Squares, NEW d \in Sides, Attacked(a, u, d)
      PROVE  Attacked(a1, Flip(u), Opposite(d))
  <2>1. PICK s \in DOMAIN a : a[s][1] = d /\ s # u /\ Attacks(a, s, u)
    BY <1>1 DEF Attacked
  <2>2. Flip(s) \in DOMAIN a1 /\ a1[Flip(s)][1] = Opposite(d) /\ s \in Squares
    BY <1>1, <2>1, MirrorMan
  <2>3. Flip(s) # Flip(u)
    BY <2>1, <2>2, FlipApart
  <2>4. Attacks(a1, Flip(s), Flip(u))
    BY <1>1, <2>1, AttacksFlipped
  <2>. QED
    BY <2>2, <2>3, <2>4 DEF Attacked
<1>2. MirrorOf(b1, b) /\ Flip(t) \in Squares /\ Flip(Flip(t)) = t
      /\ Opposite(c) \in Sides /\ Opposite(Opposite(c)) = c
  BY MirrorBack, FlipIs, UpIs
<1>3. Attacked(b, t, c) => Attacked(b1, Flip(t), Opposite(c))
  BY <1>1
<1>4. Attacked(b1, Flip(t), Opposite(c)) => Attacked(b, Flip(Flip(t)), Opposite(Opposite(c)))
  BY <1>1, <1>2
<1>5. IsBoard(b) /\ IsBoard(b1)
  BY DEF MirrorOf
<1>6. (is_square_attacked(b, t, c) <=> Attacked(b, t, c))
      /\ (is_square_attacked(b1, Flip(t), Opposite(c)) <=> Attacked(b1, Flip(t), Opposite(c)))
  BY <1>2, <1>5, AttackedAgrees
<1>. QED
  BY <1>2, <1>3, <1>4, <1>6

-----------------------------------------------------------------------------
(* Moves in the mirror *)

MirrorPos(p, q) ==
    /\ MirrorOf(p.board, q.board) /\ p.side \in Sides /\ q.side = Opposite(p.side)
    /\ \A c \in Sides, kind \in Ways : Right(c, kind) \in p.rights <=> Right(Opposite(c), kind) \in q.rights
    /\ \A t \in Squares : t = p.ep <=> Flip(t) = q.ep
Turned(m) == Move(Flip(m.from), Flip(m.to), m.kind, m.promo)

(* The mirror of the mirror. *)
LEMMA MirrorPosBack == ASSUME NEW p, NEW q, MirrorPos(p, q) PROVE MirrorPos(q, p)
<1>1. MirrorOf(q.board, p.board) /\ q.side \in Sides /\ p.side = Opposite(q.side)
  BY MirrorBack, UpIs DEF MirrorPos
<1>2. ASSUME NEW c \in Sides, NEW kind \in Ways
      PROVE  Right(c, kind) \in q.rights <=> Right(Opposite(c), kind) \in p.rights
  <2>1. Opposite(c) \in Sides /\ Opposite(Opposite(c)) = c
    BY UpIs
  <2>. QED
    BY <2>1 DEF MirrorPos
<1>3. ASSUME NEW t \in Squares PROVE t = q.ep <=> Flip(t) = p.ep
  <2>1. Flip(t) \in Squares /\ Flip(Flip(t)) = t
    BY FlipIs
  <2>. QED
    BY <2>1 DEF MirrorPos
<1>. QED
  BY <1>1, <1>2, <1>3 DEF MirrorPos

(* Promotions and home ranks change sides with the pawns. *)
LEMMA HomesFlipped ==
    ASSUME NEW c \in Sides, NEW t \in Squares
    PROVE  /\ Promos(Opposite(c), Flip(t)) = Promos(c, t)
           /\ rank_of(Flip(t)) = HomeRank(Opposite(c)) + Up(Opposite(c)) <=> rank_of(t) = HomeRank(c) + Up(c)
<1>1. PICK r \in 0..7 : r = rank_of(t) /\ rank_of(Flip(t)) = 7 - r
  BY SquareParts, FlipIs
<1>2. Opposite(c) \in Sides /\ Opposite(Opposite(c)) = c
  BY UpIs
<1>3. \/ HomeRank(c) = 0 /\ Up(c) = 1 /\ HomeRank(Opposite(c)) = 7 /\ Up(Opposite(c)) = -1
      \/ HomeRank(c) = 7 /\ Up(c) = -1 /\ HomeRank(Opposite(c)) = 0 /\ Up(Opposite(c)) = 1
  BY <1>2, HomeRanks, UpIs
<1>4. rank_of(Flip(t)) = HomeRank(Opposite(Opposite(c))) <=> rank_of(t) = HomeRank(Opposite(c))
  BY <1>1, <1>2, <1>3
<1>5. rank_of(Flip(t)) = HomeRank(Opposite(c)) + Up(Opposite(c)) <=> rank_of(t) = HomeRank(c) + Up(c)
  BY <1>1, <1>3
<1>. QED
  BY <1>4, <1>5 DEF Promos

(* Castling is the same for both sides. *)
LEMMA CastlesFlipped ==
    ASSUME NEW c \in Sides, NEW kind \in Ways
    PROVE  /\ Home(c) \in Squares /\ Home(Opposite(c)) = Flip(Home(c))
           /\ Goal(c, kind) \in Squares /\ Goal(Opposite(c), kind) = Flip(Goal(c, kind))
           /\ Step(c, kind) \in Squares /\ Step(Opposite(c), kind) = Flip(Step(c, kind))
           /\ \A s \in Gap(Opposite(c), kind) : \E x \in Gap(c, kind) : x \in Squares /\ s = Flip(x)
<1>1. /\ \A f \in 0..7 : make_square(0, f) = f /\ make_square(7, f) = 56 + f
      /\ \A f \in 0..7 : Flip(f) = 56 + f /\ Flip(56 + f) = f /\ f \in Squares /\ 56 + f \in Squares
  <2>1. \A f \in 0..7 : make_square(0, f) = f /\ make_square(7, f) = 56 + f
    BY DEF make_square
  <2>2. ASSUME NEW f \in 0..7
        PROVE  Flip(f) = 56 + f /\ Flip(56 + f) = f /\ f \in Squares /\ 56 + f \in Squares
    <3>1. Flip(make_square(0, f)) = make_square(7, f) /\ Flip(make_square(7, f)) = make_square(0, f)
      BY FlipMade
    <3>2. make_square(0, f) \in Squares /\ make_square(7, f) \in Squares
      BY MadeSquare
    <3>. QED
      BY <2>1, <3>1, <3>2
  <2>. QED
    BY <2>1, <2>2
<1>2. \/ Home(c) = 4 /\ Home(Opposite(c)) = 60
      \/ Home(c) = 60 /\ Home(Opposite(c)) = 4
  BY <1>1, HomeRanks DEF Home, Sides, make_square
<1>3. /\ Flip(4) = 60 /\ Flip(60) = 4 /\ Flip(5) = 61 /\ Flip(61) = 5 /\ Flip(6) = 62 /\ Flip(62) = 6
      /\ Flip(3) = 59 /\ Flip(59) = 3 /\ Flip(2) = 58 /\ Flip(58) = 2 /\ Flip(1) = 57 /\ Flip(57) = 1
  <2>1. \A f \in 0..7, g \in 56..63 : g = 56 + f => Flip(f) = g /\ Flip(g) = f
    BY <1>1
  <2>. QED
    BY <2>1
<1>4. Home(c) \in Squares /\ Home(Opposite(c)) = Flip(Home(c))
  BY <1>2, <1>3 DEF Squares
<1>5. Goal(c, kind) \in Squares /\ Goal(Opposite(c), kind) = Flip(Goal(c, kind))
  <2>1. CASE Home(c) = 4
    BY <1>2, <1>3, <2>1 DEF Squares, Goal
  <2>2. CASE Home(c) = 60
    BY <1>2, <1>3, <2>2 DEF Squares, Goal
  <2>. QED
    BY <1>2, <2>1, <2>2
<1>6. Step(c, kind) \in Squares /\ Step(Opposite(c), kind) = Flip(Step(c, kind))
  <2>1. CASE Home(c) = 4
    BY <1>2, <1>3, <2>1 DEF Squares, Step
  <2>2. CASE Home(c) = 60
    BY <1>2, <1>3, <2>2 DEF Squares, Step
  <2>. QED
    BY <1>2, <2>1, <2>2
<1>7. ASSUME NEW s \in Gap(Opposite(c), kind)
      PROVE  \E x \in Gap(c, kind) : x \in Squares /\ s = Flip(x)
  <2>1. CASE Home(c) = 4
    <3>1. Home(Opposite(c)) = 60
      BY <1>2, <2>1
    <3>2. CASE kind = "kingside"
      <4>1. Gap(c, kind) = {5, 6} /\ s \in {61, 62}
        BY <2>1, <3>1, <3>2 DEF Gap
      <4>. QED
        BY <1>3, <4>1 DEF Squares
    <3>3. CASE kind # "kingside"
      <4>1. Gap(c, kind) = {3, 2, 1} /\ s \in {59, 58, 57}
        BY <2>1, <3>1, <3>3 DEF Gap
      <4>. QED
        BY <1>3, <4>1 DEF Squares
    <3>. QED
      BY <3>2, <3>3
  <2>2. CASE Home(c) = 60
    <3>1. Home(Opposite(c)) = 4
      BY <1>2, <2>2
    <3>2. CASE kind = "kingside"
      <4>1. Gap(c, kind) = {61, 62} /\ s \in {5, 6}
        BY <2>2, <3>1, <3>2 DEF Gap
      <4>. QED
        BY <1>3, <4>1 DEF Squares
    <3>3. CASE kind # "kingside"
      <4>1. Gap(c, kind) = {59, 58, 57} /\ s \in {3, 2, 1}
        BY <2>2, <3>1, <3>3 DEF Gap
      <4>. QED
        BY <1>3, <4>1 DEF Squares
    <3>. QED
      BY <3>2, <3>3
  <2>. QED
    BY <1>2, <2>1, <2>2
<1>. QED
  BY <1>4, <1>5, <1>6, <1>7

(* A castling move is one in the mirror. *)
LEMMA CastleFlipped ==
    ASSUME NEW p, NEW q, MirrorPos(p, q), NEW m, CastleMove(p, m)
    PROVE  CastleMove(q, Turned(m))
<1> DEFINE c == p.side
           b == p.board
           b1 == q.board
<1>1. MirrorOf(b, b1) /\ c \in Sides /\ q.side = Opposite(c) /\ Opposite(c) \in Sides
  BY UpIs DEF MirrorPos
<1>2. PICK kind \in Ways : m = Move(Home(c), Goal(c, kind), kind, "") /\ CastleOpen(p, kind)
  BY DEF CastleMove
<1>3. m.from = Home(c) /\ m.to = Goal(c, kind) /\ m.kind = kind /\ m.promo = ""
  BY <1>2 DEF Move
<1>4. /\ Home(c) \in Squares /\ Home(Opposite(c)) = Flip(Home(c))
      /\ Goal(c, kind) \in Squares /\ Goal(Opposite(c), kind) = Flip(Goal(c, kind))
      /\ Step(c, kind) \in Squares /\ Step(Opposite(c), kind) = Flip(Step(c, kind))
      /\ \A s \in Gap(Opposite(c), kind) : \E x \in Gap(c, kind) : x \in Squares /\ s = Flip(x)
  BY <1>1, CastlesFlipped
<1>5. Turned(m) = Move(Home(q.side), Goal(q.side, kind), kind, "")
  BY <1>1, <1>3, <1>4 DEF Turned
<1>6. Right(q.side, kind) \in q.rights
  BY <1>1, <1>2 DEF CastleOpen, MirrorPos
<1>7. \A s \in Gap(q.side, kind) : Empty(b1, s)
  <2>1. \A x \in Gap(c, kind) : Empty(b, x)
    BY <1>2 DEF CastleOpen
  <2>2. \A x \in Squares : Empty(b, x) => Empty(b1, Flip(x))
    BY <1>1, MirrorMine
  <2>. QED
    BY <1>1, <1>4, <2>1, <2>2
<1>8. /\ ~is_square_attacked(b1, Home(q.side), Opposite(q.side))
      /\ ~is_square_attacked(b1, Step(q.side, kind), Opposite(q.side))
  <2>1. \A x \in Squares : is_square_attacked(b1, Flip(x), Opposite(Opposite(c))) <=> is_square_attacked(b, x, Opposite(c))
    BY <1>1, AttackedFlipped
  <2>2. ~is_square_attacked(b, Home(c), Opposite(c)) /\ ~is_square_attacked(b, Step(c, kind), Opposite(c))
    BY <1>2 DEF CastleOpen
  <2>. QED
    BY <1>1, <1>4, <2>1, <2>2
<1>. QED
  BY <1>5, <1>6, <1>7, <1>8 DEF CastleMove, CastleOpen

(* So is a move of an officer. *)
LEMMA OfficerFlipped ==
    ASSUME NEW p, NEW q, MirrorPos(p, q), NEW s \in DOMAIN p.board, NEW m, OfficerMove(p, s, m)
    PROVE  OfficerMove(q, Flip(s), Turned(m))
<1>1. MirrorOf(p.board, q.board) /\ p.side \in Sides /\ q.side = Opposite(p.side)
  BY DEF MirrorPos
<1>2. PICK t \in Squares : Attacks(p.board, s, t) /\ ~Mine(p.board, t, p.side) /\ m = Move(s, t, "", "")
  BY DEF OfficerMove
<1>3. m.from = s /\ m.to = t /\ m.kind = "" /\ m.promo = ""
  BY <1>2 DEF Move
<1>4. Attacks(q.board, Flip(s), Flip(t)) /\ Flip(t) \in Squares
  BY <1>1, <1>2, AttacksFlipped, FlipIs
<1>5. ~Mine(q.board, Flip(t), q.side)
  <2>1. Mine(q.board, Flip(t), Opposite(p.side)) <=> Mine(p.board, t, p.side)
    BY <1>1, MirrorMine
  <2>. QED
    BY <1>1, <1>2, <2>1
<1>6. Turned(m) = Move(Flip(s), Flip(t), "", "")
  BY <1>3 DEF Turned
<1>. QED
  BY <1>4, <1>5, <1>6 DEF OfficerMove

(* So is a move of a pawn. *)
LEMMA PawnFlipped ==
    ASSUME NEW p, NEW q, MirrorPos(p, q), NEW s \in DOMAIN p.board, NEW m, PawnMove(p, s, m)
    PROVE  PawnMove(q, Flip(s), Turned(m))
<1> DEFINE c == p.side
           b == p.board
           b1 == q.board
<1>1. MirrorOf(b, b1) /\ c \in Sides /\ q.side = Opposite(c) /\ Opposite(c) \in Sides
      /\ Up(q.side) = -Up(c) /\ Up(c) \in {-1, 1} /\ Opposite(Opposite(c)) = c
  BY UpIs DEF MirrorPos
<1>0. PICK t \in Squares : \E n \in Promos(c, t) :
        \/ /\ Rise(s, t) = Up(c) /\ Shift(s, t) = 0 /\ Empty(b, t)
           /\ m = Move(s, t, "", n)
        \/ /\ Rise(s, t) = 2 * Up(c) /\ Shift(s, t) = 0 /\ rank_of(s) = HomeRank(c) + Up(c)
           /\ Empty(b, (s + t) \div 2) /\ Empty(b, t)
           /\ m = Move(s, t, "double", "")
        \/ Attacks(b, s, t) /\ Mine(b, t, Opposite(c)) /\ m = Move(s, t, "", n)
        \/ Attacks(b, s, t) /\ ~Mine(b, t, Opposite(c)) /\ t = p.ep /\ m = Move(s, t, "ep", n)
  BY DEF PawnMove
<1>2. PICK n \in Promos(c, t) :
        \/ /\ Rise(s, t) = Up(c) /\ Shift(s, t) = 0 /\ Empty(b, t)
           /\ m = Move(s, t, "", n)
        \/ /\ Rise(s, t) = 2 * Up(c) /\ Shift(s, t) = 0 /\ rank_of(s) = HomeRank(c) + Up(c)
           /\ Empty(b, (s + t) \div 2) /\ Empty(b, t)
           /\ m = Move(s, t, "double", "")
        \/ Attacks(b, s, t) /\ Mine(b, t, Opposite(c)) /\ m = Move(s, t, "", n)
        \/ Attacks(b, s, t) /\ ~Mine(b, t, Opposite(c)) /\ t = p.ep /\ m = Move(s, t, "ep", n)
  BY <1>0
<1>3. s \in Squares /\ Flip(s) \in Squares /\ Flip(t) \in Squares /\ n \in Promos(q.side, Flip(t))
  BY <1>1, <1>2, MirrorMan, FlipIs, HomesFlipped
<1>4. Rise(Flip(s), Flip(t)) = -Rise(s, t) /\ Shift(Flip(s), Flip(t)) = Shift(s, t)
  BY <1>3, FlipOffsets
<1>5. /\ Empty(b1, Flip(t)) <=> Empty(b, t)
      /\ Mine(b1, Flip(t), Opposite(q.side)) <=> Mine(b, t, Opposite(c))
      /\ Attacks(b1, Flip(s), Flip(t)) <=> Attacks(b, s, t)
  BY <1>1, MirrorMine, AttackFlips
<1>6. \A kind, k : m = Move(s, t, kind, k) => Turned(m) = Move(Flip(s), Flip(t), kind, k)
  BY DEF Move, Turned
<1>7. CASE Rise(s, t) = Up(c) /\ Shift(s, t) = 0 /\ Empty(b, t) /\ m = Move(s, t, "", n)
  <2>1. Rise(Flip(s), Flip(t)) = Up(q.side) /\ Shift(Flip(s), Flip(t)) = 0
        /\ Empty(b1, Flip(t)) /\ Turned(m) = Move(Flip(s), Flip(t), "", n)
    BY <1>1, <1>4, <1>5, <1>6, <1>7
  <2>. QED
    BY <1>3, <2>1 DEF PawnMove
<1>8. CASE /\ Rise(s, t) = 2 * Up(c) /\ Shift(s, t) = 0 /\ rank_of(s) = HomeRank(c) + Up(c)
           /\ Empty(b, (s + t) \div 2) /\ Empty(b, t)
           /\ m = Move(s, t, "double", "")
  <2>1. PICK u \in {-1, 1} : u = Up(c) /\ -u = Up(q.side)
    BY <1>1
  <2>2. t = s + 16 * u /\ (s + t) \div 2 = s + 8 * u
    BY <1>3, <1>8, <2>1, Forward
  <2>3. s + 8 * u \in Squares
    BY <1>3, <2>1, <2>2 DEF Squares
  <2>4. PICK x \in Squares : x = s + 8 * u
    BY <2>3
  <2>5. Rise(s, x) = u /\ Shift(s, x) = 0 /\ Empty(b, x)
    BY <1>3, <1>8, <2>2, <2>4, Forward
  <2>6. Rise(Flip(s), Flip(x)) = -u /\ Shift(Flip(s), Flip(x)) = 0 /\ Empty(b1, Flip(x)) /\ Flip(x) \in Squares
    BY <1>1, <1>3, <2>5, FlipOffsets, MirrorMine, FlipIs
  <2>7. Rise(Flip(s), Flip(t)) = 2 * (-u) /\ Shift(Flip(s), Flip(t)) = 0
    <3>1. Rise(s, t) = 2 * u
      BY <1>8, <2>1, Zenon
    <3>2. -(2 * u) = 2 * (-u)
      OBVIOUS
    <3>. QED
      BY <1>4, <1>8, <3>1, <3>2
  <2>8. -u \in {-1, 1}
    OBVIOUS
  <2>9. Flip(x) = Flip(s) + 8 * (-u) /\ (Flip(s) + Flip(t)) \div 2 = Flip(s) + 8 * (-u)
    BY <1>3, <2>6, <2>7, <2>8, Forward
  <2>10. rank_of(Flip(s)) = HomeRank(q.side) + Up(q.side)
    BY <1>1, <1>3, <1>8, HomesFlipped
  <2>11. Turned(m) = Move(Flip(s), Flip(t), "double", "")
    BY <1>6, <1>8
  <2>12. Empty(b1, (Flip(s) + Flip(t)) \div 2) /\ Empty(b1, Flip(t))
    BY <1>5, <1>8, <2>6, <2>9
  <2>13. Rise(Flip(s), Flip(t)) = 2 * Up(q.side)
    BY <2>1, <2>7
  <2>. QED
    BY <1>3, <2>7, <2>10, <2>11, <2>12, <2>13 DEF PawnMove
<1>9. CASE Attacks(b, s, t) /\ Mine(b, t, Opposite(c)) /\ m = Move(s, t, "", n)
  <2>1. Attacks(b1, Flip(s), Flip(t)) /\ Mine(b1, Flip(t), Opposite(q.side)) /\ Turned(m) = Move(Flip(s), Flip(t), "", n)
    BY <1>5, <1>6, <1>9
  <2>. QED
    BY <1>3, <2>1 DEF PawnMove
<1>10. CASE Attacks(b, s, t) /\ ~Mine(b, t, Opposite(c)) /\ t = p.ep /\ m = Move(s, t, "ep", n)
  <2>1. Attacks(b1, Flip(s), Flip(t)) /\ ~Mine(b1, Flip(t), Opposite(q.side)) /\ Turned(m) = Move(Flip(s), Flip(t), "ep", n)
    BY <1>5, <1>6, <1>10
  <2>2. Flip(t) = q.ep
    BY <1>10 DEF MirrorPos
  <2>. QED
    BY <1>3, <2>1, <2>2 DEF PawnMove
<1>. QED
  BY <1>2, <1>7, <1>8, <1>9, <1>10

(* Every move the generator returns it returns in the mirror. *)
LEMMA PseudoFlipped ==
    ASSUME NEW p, NEW q, MirrorPos(p, q), NEW m \in generate_pseudo_legal_moves(p)
    PROVE  Turned(m) \in generate_pseudo_legal_moves(q)
<1>1. MirrorOf(p.board, q.board) /\ p.side \in Sides /\ q.side = Opposite(p.side) /\ q.side \in Sides
      /\ IsBoard(p.board) /\ IsBoard(q.board)
  BY UpIs DEF MirrorPos, MirrorOf
<1>2. PICK s \in DOMAIN p.board : p.board[s][1] = p.side /\ m \in MovesOf(p, s)
  BY DEF generate_pseudo_legal_moves
<1>3. Flip(s) \in DOMAIN q.board /\ q.board[Flip(s)][1] = q.side /\ q.board[Flip(s)][2] = p.board[s][2]
  BY <1>1, <1>2, MirrorMan
<1>4. Turned(m) \in MovesOf(q, Flip(s))
  <2>1. CASE p.board[s][2] = "P"
    <3>1. PawnMove(p, s, m)
      BY <1>1, <1>2, <2>1, PawnsMoves
    <3>2. PawnMove(q, Flip(s), Turned(m))
      BY <3>1, PawnFlipped
    <3>. QED
      BY <1>1, <1>3, <2>1, <3>2, PawnsMoves
  <2>2. CASE p.board[s][2] # "P"
    <3>1. OfficerMove(p, s, m) \/ (p.board[s][2] = "K" /\ CastleMove(p, m))
      BY <1>1, <1>2, <2>2, OfficersMoves, CastlesAre
    <3>2. OfficerMove(q, Flip(s), Turned(m)) \/ (q.board[Flip(s)][2] = "K" /\ CastleMove(q, Turned(m)))
      BY <1>3, <3>1, OfficerFlipped, CastleFlipped
    <3>. QED
      BY <1>1, <1>3, <2>2, <3>2, OfficersMoves, CastlesAre
  <2>. QED
    BY <2>1, <2>2
<1>. QED
  BY <1>3, <1>4 DEF generate_pseudo_legal_moves

-----------------------------------------------------------------------------
(* Counting in the mirror *)

(* The board has finitely many squares. *)
LEMMA SquaresFinite == IsFiniteSet(Squares)
<1>1. 0 \in Int /\ 63 \in Int
  OBVIOUS
<1>2. IsFiniteSet(0..63)
  BY <1>1, FS_Interval, Zenon
<1>. QED
  BY <1>2 DEF Squares

(* A set of squares and the set they are seen as from the other side.      *)
LEMMA FlipImage ==
    ASSUME NEW S \in SUBSET Squares, NEW T \in SUBSET Squares,
           \A s \in Squares : s \in S <=> Flip(s) \in T
    PROVE  /\ [s \in S |-> Flip(s)] \in Bijection(S, T)
           /\ IsFiniteSet(S) /\ Cardinality(S) \in Nat /\ Cardinality(T) = Cardinality(S)
<1>1. IsFiniteSet(S) /\ Cardinality(S) \in Nat
  <2>1. IsFiniteSet(S)
    BY SquaresFinite, FS_Subset
  <2>. QED
    BY <2>1, FS_CardinalityType
<1>2. PICK h : h = [s \in S |-> Flip(s)]
  OBVIOUS
<1>3. h \in Bijection(S, T)
  <2>1. \A s \in S : h[s] = Flip(s) /\ s \in Squares /\ Flip(s) \in T
    BY <1>2
  <2>2. \A s, t \in S : h[s] = h[t] => s = t
    BY <2>1, FlipApart
  <2>3. \A t \in T : \E s \in S : h[s] = t
    <3>1. ASSUME NEW t \in T PROVE Flip(t) \in S /\ Flip(Flip(t)) = t
      BY FlipIs
    <3>. QED
      BY <2>1, <3>1
  <2>4. h \in [S -> T]
    BY <1>2, <2>1
  <2>. QED
    BY <2>2, <2>3, <2>4 DEF Bijection, Injection, Surjection, IsInjective
<1>4. Cardinality(T) = Cardinality(S)
  BY <1>1, <1>3, FS_Bijection DEF ExistsBijection
<1>. QED
  BY <1>1, <1>2, <1>3, <1>4

MoveKinds == {"", "double", "ep", "kingside", "queenside"}
Promoted == {"", "Q", "R", "B", "N"}
AnyMove == [from : Squares, to : Squares, kind : MoveKinds, promo : Promoted]

(* Five things are finitely many. *)
LEMMA FiveFinite == ASSUME NEW a, NEW b, NEW c, NEW d, NEW e PROVE IsFiniteSet({a, b, c, d, e})
<1>1. IsFiniteSet({a})
  BY FS_Singleton
<1>2. IsFiniteSet({a} \cup {b})
  BY <1>1, FS_AddElement
<1>3. IsFiniteSet(({a} \cup {b}) \cup {c})
  BY <1>2, FS_AddElement
<1>4. IsFiniteSet((({a} \cup {b}) \cup {c}) \cup {d})
  BY <1>3, FS_AddElement
<1>5. IsFiniteSet(((({a} \cup {b}) \cup {c}) \cup {d}) \cup {e})
  BY <1>4, FS_AddElement
<1>6. {a, b, c, d, e} = ((({a} \cup {b}) \cup {c}) \cup {d}) \cup {e}
  OBVIOUS
<1>. QED
  BY <1>5, <1>6, Zenon

(* There are finitely many moves. *)
LEMMA MovesFinite == IsFiniteSet(AnyMove)
<1>1. IsFiniteSet(MoveKinds) /\ IsFiniteSet(Promoted)
  BY FiveFinite DEF MoveKinds, Promoted
<1>. DEFINE P == Squares \X Squares
            Q == MoveKinds \X Promoted
            f == [x \in P \X Q |-> Move(x[1][1], x[1][2], x[2][1], x[2][2])]
<1>2. IsFiniteSet(P \X Q)
  <2>1. IsFiniteSet(P)
    BY SquaresFinite, FS_Product
  <2>2. IsFiniteSet(Q)
    BY <1>1, FS_Product
  <2>. HIDE DEF P, Q
  <2>. QED
    BY <2>1, <2>2, FS_Product
<1>3. f \in Surjection(P \X Q, AnyMove)
  <2>1. ASSUME NEW x \in P \X Q PROVE f[x] \in AnyMove
    BY DEF AnyMove, Move
  <2>2. ASSUME NEW m \in AnyMove PROVE \E x \in P \X Q : f[x] = m
    <3>1. <<<<m.from, m.to>>, <<m.kind, m.promo>>>> \in P \X Q
      BY DEF AnyMove
    <3>2. f[<<<<m.from, m.to>>, <<m.kind, m.promo>>>>] = Move(m.from, m.to, m.kind, m.promo)
      BY <3>1
    <3>3. Move(m.from, m.to, m.kind, m.promo) = m
      BY DEF AnyMove, Move
    <3>. QED
      BY <3>1, <3>2, <3>3
  <2>. QED
    BY <2>1, <2>2 DEF Surjection
<1>. QED
  BY <1>2, <1>3, FS_Surjection

(* The generator returns moves. *)
LEMMA PseudoTyped ==
    ASSUME NEW p, IsBoard(p.board), p.side \in Sides, NEW m \in generate_pseudo_legal_moves(p)
    PROVE  m \in AnyMove
<1>1. PICK s \in DOMAIN p.board : p.board[s][1] = p.side /\ m \in MovesOf(p, s)
  BY DEF generate_pseudo_legal_moves
<1>2. s \in Squares
  BY ManOf
<1>3. PawnMove(p, s, m) \/ OfficerMove(p, s, m) \/ CastleMove(p, m)
  <2>1. CASE p.board[s][2] = "P"
    BY <1>1, <2>1, PawnsMoves
  <2>2. CASE p.board[s][2] # "P"
    BY <1>1, <2>2, OfficersMoves, CastlesAre
  <2>. QED
    BY <2>1, <2>2
<1>4. CASE PawnMove(p, s, m)
  <2>1. PICK t \in Squares : \E n \in Promos(p.side, t) :
           m = Move(s, t, "", n) \/ m = Move(s, t, "double", "") \/ m = Move(s, t, "ep", n)
    BY <1>4 DEF PawnMove
  <2>2. PICK n \in Promos(p.side, t) :
           m = Move(s, t, "", n) \/ m = Move(s, t, "double", "") \/ m = Move(s, t, "ep", n)
    BY <2>1
  <2>3. n \in Promoted /\ "" \in Promoted
    BY DEF Promos, Promoted
  <2>4. \A kind \in MoveKinds, k \in Promoted : Move(s, t, kind, k) \in AnyMove
    BY <1>2 DEF Move, AnyMove
  <2>5. "" \in MoveKinds /\ "double" \in MoveKinds /\ "ep" \in MoveKinds
    BY DEF MoveKinds
  <2>. QED
    BY <2>2, <2>3, <2>4, <2>5
<1>5. CASE OfficerMove(p, s, m)
  <2>1. PICK t \in Squares : m = Move(s, t, "", "")
    BY <1>5 DEF OfficerMove
  <2>. QED
    BY <1>2, <2>1 DEF Move, AnyMove, MoveKinds, Promoted
<1>6. CASE CastleMove(p, m)
  <2>1. PICK kind \in Ways : m = Move(Home(p.side), Goal(p.side, kind), kind, "")
    BY <1>6 DEF CastleMove
  <2>2. Home(p.side) \in Squares /\ Goal(p.side, kind) \in Squares
    BY CastlesFlipped
  <2>. QED
    BY <2>1, <2>2 DEF Move, AnyMove, MoveKinds, Promoted, Ways
<1>. QED
  BY <1>3, <1>4, <1>5, <1>6

(* A move turned twice is the move. *)
LEMMA TurnedTwice ==
    ASSUME NEW m \in AnyMove
    PROVE  Turned(m) \in AnyMove /\ Turned(Turned(m)) = m
<1>1. m.from \in Squares /\ m.to \in Squares /\ m = Move(m.from, m.to, m.kind, m.promo)
  BY DEF AnyMove, Move
<1>2. /\ Flip(m.from) \in Squares /\ Flip(Flip(m.from)) = m.from
      /\ Flip(m.to) \in Squares /\ Flip(Flip(m.to)) = m.to
  BY <1>1, FlipIs
<1>3. Turned(m) \in AnyMove
  BY <1>2 DEF Turned, Move, AnyMove
<1>4. Turned(Turned(m)) = Move(Flip(Flip(m.from)), Flip(Flip(m.to)), m.kind, m.promo)
  BY DEF Turned, Move
<1>. QED
  BY <1>1, <1>2, <1>3, <1>4

(* Both sides have as many moves as they have in the mirror. *)
LEMMA MobilityFlipped ==
    ASSUME NEW p, NEW q, MirrorPos(p, q)
    PROVE  /\ Cardinality(generate_pseudo_legal_moves(q)) = Cardinality(generate_pseudo_legal_moves(p))
           /\ Cardinality(generate_pseudo_legal_moves(p)) \in Nat
<1>1. PICK S, T : S = generate_pseudo_legal_moves(p) /\ T = generate_pseudo_legal_moves(q)
  OBVIOUS
<1>2. IsBoard(p.board) /\ IsBoard(q.board) /\ p.side \in Sides /\ q.side \in Sides /\ MirrorPos(q, p)
  BY UpIs, MirrorPosBack DEF MirrorPos, MirrorOf
<1>3. S \subseteq AnyMove /\ T \subseteq AnyMove
  BY <1>1, <1>2, PseudoTyped
<1>4. (\A m \in S : Turned(m) \in T) /\ (\A m \in T : Turned(m) \in S)
  BY <1>1, <1>2, PseudoFlipped
<1>5. IsFiniteSet(S) /\ Cardinality(S) \in Nat
  BY <1>3, MovesFinite, FS_Subset, FS_CardinalityType
<1>6. PICK h : h = [m \in S |-> Turned(m)]
  OBVIOUS
<1>7. h \in Bijection(S, T)
  <2>1. h \in [S -> T] /\ \A m \in S : h[m] = Turned(m)
    BY <1>4, <1>6
  <2>2. \A m, n \in S : h[m] = h[n] => m = n
    <3>1. \A m \in S : Turned(Turned(m)) = m
      BY <1>3, TurnedTwice
    <3>. QED
      BY <2>1, <3>1
  <2>3. \A n \in T : \E m \in S : h[m] = n
    <3>1. \A n \in T : Turned(n) \in S /\ Turned(Turned(n)) = n
      BY <1>3, <1>4, TurnedTwice
    <3>. QED
      BY <2>1, <3>1
  <2>. QED
    BY <2>1, <2>2, <2>3 DEF Bijection, Injection, Surjection, IsInjective
<1>8. Cardinality(T) = Cardinality(S)
  BY <1>5, <1>7, FS_Bijection DEF ExistsBijection
<1>. QED
  BY <1>1, <1>5, <1>8

-----------------------------------------------------------------------------
(* The evaluation in the mirror *)

(* The men of a side and kind, and where they stand in the mirror. *)
LEMMA MenFlipped ==
    ASSUME NEW b, NEW b1, MirrorOf(b, b1), NEW c \in Sides, NEW t
    PROVE  /\ Men(b, c, t) \subseteq Squares /\ Men(b1, Opposite(c), t) \subseteq Squares
           /\ \A s \in Squares : s \in Men(b, c, t) <=> Flip(s) \in Men(b1, Opposite(c), t)
<1>1. IsBoard(b) /\ IsBoard(b1)
  BY DEF MirrorOf
<1>2. Men(b, c, t) \subseteq Squares /\ Men(b1, Opposite(c), t) \subseteq Squares
  BY <1>1 DEF Men, IsBoard
<1>3. \A s \in Squares : Is(b1, Flip(s), Opposite(c), t) <=> Is(b, s, c, t)
  BY MirrorMine
<1>. QED
  BY <1>2, <1>3 DEF Men, Is

(* The tables hold a number for every kind and square. *)
LEMMA TablesFull ==
    ASSUME NEW k \in Kinds
    PROVE  PIECE_VALUE[k] \in Int /\ \A s \in Squares : PST[k][s + 1] \in Int
<1>1. PIECE_VALUE[k] \in Int
  BY DEF Kinds, PIECE_VALUE
<1>2. PST[k] \in Seq(Int) /\ Len(PST[k]) = 64
  <2>1. CASE k = "P"
    BY <2>1 DEF PST
  <2>2. CASE k = "N"
    BY <2>2 DEF PST
  <2>3. CASE k = "B"
    BY <2>3 DEF PST
  <2>4. CASE k = "R"
    BY <2>4 DEF PST
  <2>5. CASE k = "Q"
    BY <2>5 DEF PST
  <2>6. CASE k = "K"
    BY <2>6 DEF PST
  <2>. QED
    BY <2>1, <2>2, <2>3, <2>4, <2>5, <2>6 DEF Kinds
<1>3. PICK table \in Seq(Int) : table = PST[k] /\ Len(table) = 64
  BY <1>2
<1>4. ASSUME NEW s \in Squares PROVE table[s + 1] \in Int
  <2>1. s + 1 \in 1..64
    BY DEF Squares
  <2>2. \A i \in 1..Len(table) : table[i] \in Int
    <3>1. table \in Seq(Int)
      OBVIOUS
    <3>. QED
      BY <3>1
  <2>. QED
    BY <1>3, <2>1, <2>2
<1>. QED
  BY <1>1, <1>3, <1>4

(* Material and piece-square bonuses. *)
MenOf(b, c) == {s \in DOMAIN b : b[s][1] = c}
Worth(b, c, s) == PIECE_VALUE[b[s][2]] + pst_bonus(b[s][2], c, s)

(* A man is worth what he is worth in the mirror. *)
LEMMA WorthFlipped ==
    ASSUME NEW b, NEW b1, MirrorOf(b, b1), NEW c \in Sides, NEW s \in MenOf(b, c)
    PROVE  Worth(b1, Opposite(c), Flip(s)) = Worth(b, c, s) /\ Worth(b, c, s) \in Int
<1>1. s \in DOMAIN b
  BY DEF MenOf
<1>2. PICK k \in Kinds : k = b[s][2] /\ s \in Squares
  BY <1>1, ManOf DEF MirrorOf
<1>3. b1[Flip(s)][2] = k /\ Flip(s) \in Squares /\ Flip(Flip(s)) = s
  BY <1>1, <1>2, MirrorMan, FlipIs
<1>4. pst_bonus(k, Opposite(c), Flip(s)) = pst_bonus(k, c, s)
  <2>1. CASE c = "w"
    BY <1>3, <2>1 DEF pst_bonus, Opposite
  <2>2. CASE c = "b"
    BY <1>3, <2>2 DEF pst_bonus, Opposite
  <2>. QED
    BY <2>1, <2>2 DEF Sides
<1>5. pst_bonus(k, c, s) \in Int /\ PIECE_VALUE[k] \in Int
  BY <1>2, <1>3, TablesFull DEF pst_bonus
<1>. QED
  BY <1>2, <1>3, <1>4, <1>5 DEF Worth

(* Both sides add up the same values. *)
LEMMA MaterialFlipped ==
    ASSUME NEW b, NEW b1, MirrorOf(b, b1), NEW c \in Sides
    PROVE  /\ Total([s \in MenOf(b1, Opposite(c)) |-> Worth(b1, Opposite(c), s)])
              = Total([s \in MenOf(b, c) |-> Worth(b, c, s)])
           /\ Total([s \in MenOf(b, c) |-> Worth(b, c, s)]) \in Int
<1>1. PICK S, T : S = MenOf(b, c) /\ T = MenOf(b1, Opposite(c))
  OBVIOUS
<1>2. S \in SUBSET Squares /\ T \in SUBSET Squares
  BY <1>1 DEF MenOf, MirrorOf, IsBoard
<1>3. \A s \in Squares : s \in S <=> Flip(s) \in T
  <2>1. \A s \in Squares : Mine(b1, Flip(s), Opposite(c)) <=> Mine(b, s, c)
    BY MirrorMine
  <2>. QED
    BY <1>1, <2>1 DEF MenOf, Mine
<1>4. PICK h : h = [s \in S |-> Flip(s)] /\ h \in Bijection(S, T) /\ IsFiniteSet(S)
  BY <1>2, <1>3, FlipImage
<1>5. PICK f : f = [s \in S |-> Worth(b, c, s)]
  OBVIOUS
<1>6. PICK g : g = [s \in T |-> Worth(b1, Opposite(c), s)]
  OBVIOUS
<1>7. MirrorOf(b1, b) /\ Opposite(c) \in Sides
  BY MirrorBack, UpIs
<1>8. f \in [S -> Int] /\ g \in [T -> Int]
  BY <1>1, <1>5, <1>6, <1>7, WorthFlipped
<1>9. \A x \in S : g[h[x]] = f[x]
  BY <1>1, <1>2, <1>3, <1>4, <1>5, <1>6, WorthFlipped
<1>. QED
  BY <1>1, <1>4, <1>5, <1>6, <1>8, <1>9, TotalMoved

(* Files next to a file are finitely many. *)
LEMMA NearIs == ASSUME NEW f PROVE Near(f) \subseteq 0..7 /\ \A S \in SUBSET Near(f) : IsFiniteSet(S) /\ Cardinality(S) \in Nat
<1>1. IsFiniteSet(0..7)
  <2>1. 0 \in Int /\ 7 \in Int
    OBVIOUS
  <2>. QED
    BY <2>1, FS_Interval, Zenon
<1>2. Near(f) \subseteq 0..7
  BY DEF Near
<1>3. ASSUME NEW S \in SUBSET Near(f) PROVE IsFiniteSet(S) /\ Cardinality(S) \in Nat
  <2>1. S \in SUBSET (0..7)
    BY <1>2
  <2>2. IsFiniteSet(S)
    BY <1>1, <2>1, FS_Subset
  <2>. QED
    BY <2>2, FS_CardinalityType
<1>. QED
  BY <1>2, <1>3

(* A king is as safe as in the mirror. *)
LEMMA SafetyFlipped ==
    ASSUME NEW b, NEW b1, MirrorOf(b, b1), NEW c \in Sides, NEW k \in Squares
    PROVE  /\ evaluate_king_safety(b1, Opposite(c), Flip(k)) = evaluate_king_safety(b, c, k)
           /\ evaluate_king_safety(b, c, k) \in Int
<1>. DEFINE home(d, r) == IF d = "w" THEN r <= 1 ELSE r >= 6
            shield(a, d, x) == IF home(d, rank_of(x))
                               THEN {f \in Near(file_of(x)) : Is(a, make_square(rank_of(x) + Up(d), f), d, "P")} ELSE {}
            covered(a, d, x) == \E s \in Men(a, d, "P") : file_of(s) = file_of(x)
<1>1. PICK r \in 0..7, f \in 0..7 : /\ r = rank_of(k) /\ f = file_of(k)
                                    /\ rank_of(Flip(k)) = 7 - r /\ file_of(Flip(k)) = f
  BY SquareParts, FlipIs
<1>2. PICK u \in {-1, 1} : u = Up(c) /\ Up(Opposite(c)) = -u /\ (c = "w" => u = 1) /\ (c = "b" => u = -1)
  BY UpIs DEF Up
<1>3. home(Opposite(c), 7 - r) <=> home(c, r)
  BY DEF Sides, Opposite
<1>4. home(c, r) => r + u \in 0..7
  BY <1>2 DEF Sides
<1>5. ASSUME home(c, r), NEW g \in 0..7
      PROVE  Is(b1, make_square(7 - r + (-u), g), Opposite(c), "P") <=> Is(b, make_square(r + u, g), c, "P")
  <2>1. r + u \in 0..7 /\ 7 - r + (-u) = 7 - (r + u)
    BY <1>4, <1>5
  <2>2. make_square(r + u, g) \in Squares /\ Flip(make_square(r + u, g)) = make_square(7 - (r + u), g)
    BY <2>1, FlipMade, MadeSquare
  <2>. QED
    BY <2>1, <2>2, MirrorMine
<1>6. shield(b1, Opposite(c), Flip(k)) = shield(b, c, k)
  <2>1. Near(f) \subseteq 0..7
    BY NearIs
  <2>2. CASE home(c, r)
    <3>. HIDE DEF home
    <3>. QED
      BY <1>1, <1>2, <1>3, <1>5, <2>1, <2>2
  <2>3. CASE ~home(c, r)
    <3>. HIDE DEF home
    <3>. QED
      BY <1>1, <1>3, <2>3
  <2>. QED
    BY <2>2, <2>3
<1>7. covered(b1, Opposite(c), Flip(k)) <=> covered(b, c, k)
  <2>1. \A s \in Squares : /\ s \in Men(b, c, "P") <=> Flip(s) \in Men(b1, Opposite(c), "P")
                           /\ file_of(Flip(s)) = file_of(s) /\ Flip(s) \in Squares /\ Flip(Flip(s)) = s
    BY MenFlipped, FlipIs
  <2>2. Men(b, c, "P") \subseteq Squares /\ Men(b1, Opposite(c), "P") \subseteq Squares
    BY MenFlipped
  <2>3. covered(b, c, k) => covered(b1, Opposite(c), Flip(k))
    BY <1>1, <2>1, <2>2
  <2>4. ASSUME covered(b1, Opposite(c), Flip(k)) PROVE covered(b, c, k)
    <3>1. PICK s \in Men(b1, Opposite(c), "P") : file_of(s) = f
      BY <1>1, <2>4
    <3>2. Flip(s) \in Men(b, c, "P") /\ file_of(Flip(s)) = f
      BY <2>1, <2>2, <3>1
    <3>. QED
      BY <1>1, <3>2
  <2>. QED
    BY <2>3, <2>4
<1>8. Cardinality(shield(b, c, k)) \in Nat
  <2>1. shield(b, c, k) \in SUBSET Near(file_of(k))
    OBVIOUS
  <2>. HIDE DEF shield
  <2>. QED
    BY <2>1, NearIs
<1>9. \A a, d, x : evaluate_king_safety(a, d, x) =
          PAWN_SHIELD_BONUS * Cardinality(shield(a, d, x)) + IF covered(a, d, x) THEN 0 ELSE KING_OPEN_FILE_PENALTY
  BY DEF evaluate_king_safety
<1>. HIDE DEF shield, covered
<1>10. PICK n \in Nat : n = Cardinality(shield(b, c, k))
  BY <1>8
<1>11. 10 * n + (IF covered(b, c, k) THEN 0 ELSE -25) \in Int
  OBVIOUS
<1>. QED
  BY <1>6, <1>7, <1>9, <1>10, <1>11 DEF PAWN_SHIELD_BONUS, KING_OPEN_FILE_PENALTY

OnFile(b, c, f) == {s \in Men(b, c, "P") : file_of(s) = f}
Doubled(b, c, s) == Cardinality(OnFile(b, c, file_of(s))) > 1
Isolated(b, c, s) == \A f \in Near(file_of(s)) \ {file_of(s)} : OnFile(b, c, f) = {}
PawnWorth(b, c, s) ==
    (IF Doubled(b, c, s) THEN DOUBLED_PAWN_PENALTY ELSE 0)
    + (IF Isolated(b, c, s) THEN ISOLATED_PAWN_PENALTY ELSE 0)
    + (IF IsPassed(b, c, s) THEN PASSED_PAWN_BONUS[1 + IF c = "w" THEN rank_of(s) ELSE 7 - rank_of(s)] ELSE 0)

(* The pawns of a file, and where they stand in the mirror. *)
LEMMA FilesFlipped ==
    ASSUME NEW b, NEW b1, MirrorOf(b, b1), NEW c \in Sides, NEW f
    PROVE  /\ Cardinality(OnFile(b1, Opposite(c), f)) = Cardinality(OnFile(b, c, f))
           /\ OnFile(b1, Opposite(c), f) = {} <=> OnFile(b, c, f) = {}
<1>1. PICK S, T : S = OnFile(b, c, f) /\ T = OnFile(b1, Opposite(c), f)
  OBVIOUS
<1>2. S \in SUBSET Squares /\ T \in SUBSET Squares
  BY <1>1, MenFlipped DEF OnFile
<1>3. \A s \in Squares : s \in S <=> Flip(s) \in T
  <2>1. \A s \in Squares : /\ s \in Men(b, c, "P") <=> Flip(s) \in Men(b1, Opposite(c), "P")
                           /\ file_of(Flip(s)) = file_of(s)
    BY MenFlipped, FlipIs
  <2>. QED
    BY <1>1, <2>1 DEF OnFile
<1>4. Cardinality(T) = Cardinality(S)
  BY <1>2, <1>3, FlipImage
<1>5. T = {} <=> S = {}
  <2>1. \A s \in Squares : Flip(s) \in Squares /\ Flip(Flip(s)) = s
    BY FlipIs
  <2>. QED
    BY <1>2, <1>3, <2>1
<1>. QED
  BY <1>1, <1>4, <1>5

(* A passed pawn is passed in the mirror. *)
LEMMA PassedStays ==
    ASSUME NEW b, NEW b1, MirrorOf(b, b1), NEW c \in Sides, NEW s \in Squares, IsPassed(b, c, s)
    PROVE  IsPassed(b1, Opposite(c), Flip(s))
<1>1. SUFFICES ASSUME NEW x \in Men(b1, Opposite(Opposite(c)), "P"), file_of(x) \in Near(file_of(Flip(s)))
               PROVE  IF Opposite(c) = "w" THEN rank_of(x) <= rank_of(Flip(s)) ELSE rank_of(x) >= rank_of(Flip(s))
  BY DEF IsPassed
<1>2. Opposite(c) \in Sides
  BY UpIs
<1>3. PICK y \in Squares : y = Flip(x) /\ Flip(y) = x /\ x \in Squares
  BY <1>1, <1>2, MenFlipped, FlipIs
<1>4. y \in Men(b, Opposite(c), "P")
  BY <1>1, <1>2, <1>3, MenFlipped
<1>5. PICK r \in 0..7, r2 \in 0..7 :
         /\ r = rank_of(s) /\ rank_of(Flip(s)) = 7 - r /\ r2 = rank_of(y) /\ rank_of(x) = 7 - r2
         /\ file_of(x) = file_of(y) /\ file_of(Flip(s)) = file_of(s)
  BY <1>3, SquareParts, FlipIs
<1>6. IF c = "w" THEN r2 <= r ELSE r2 >= r
  BY <1>1, <1>4, <1>5 DEF IsPassed
<1>. QED
  BY <1>5, <1>6 DEF Sides, Opposite

(* A pawn is worth what it is worth in the mirror. *)
LEMMA PawnWorthFlipped ==
    ASSUME NEW b, NEW b1, MirrorOf(b, b1), NEW c \in Sides, NEW s \in Squares
    PROVE  PawnWorth(b1, Opposite(c), Flip(s)) = PawnWorth(b, c, s) /\ PawnWorth(b, c, s) \in Int
<1>1. /\ Flip(s) \in Squares /\ Flip(Flip(s)) = s /\ file_of(Flip(s)) = file_of(s)
      /\ MirrorOf(b1, b) /\ Opposite(c) \in Sides /\ Opposite(Opposite(c)) = c
  BY FlipIs, MirrorBack, UpIs
<1>2. Doubled(b1, Opposite(c), Flip(s)) <=> Doubled(b, c, s)
  <2>1. Cardinality(OnFile(b1, Opposite(c), file_of(s))) = Cardinality(OnFile(b, c, file_of(s)))
    BY FilesFlipped
  <2>. QED
    BY <1>1, <2>1 DEF Doubled
<1>3. Isolated(b1, Opposite(c), Flip(s)) <=> Isolated(b, c, s)
  <2>1. \A f : OnFile(b1, Opposite(c), f) = {} <=> OnFile(b, c, f) = {}
    BY FilesFlipped
  <2>. QED
    BY <1>1, <2>1 DEF Isolated
<1>4. IsPassed(b1, Opposite(c), Flip(s)) <=> IsPassed(b, c, s)
  <2>1. IsPassed(b, c, s) => IsPassed(b1, Opposite(c), Flip(s))
    BY PassedStays
  <2>2. IsPassed(b1, Opposite(c), Flip(s)) => IsPassed(b, Opposite(Opposite(c)), Flip(Flip(s)))
    BY <1>1, PassedStays
  <2>. QED
    BY <1>1, <2>1, <2>2
<1>5. PICK r \in 0..7 : r = rank_of(s) /\ rank_of(Flip(s)) = 7 - r
  BY SquareParts, FlipIs
<1>6. PICK i \in 1..8 : /\ i = 1 + (IF c = "w" THEN rank_of(s) ELSE 7 - rank_of(s))
                        /\ i = 1 + (IF Opposite(c) = "w" THEN rank_of(Flip(s)) ELSE 7 - rank_of(Flip(s)))
  BY <1>5 DEF Sides, Opposite
<1>7. PICK n \in Int : n = PASSED_PAWN_BONUS[i]
  BY DEF PASSED_PAWN_BONUS
<1>8. PawnWorth(b, c, s) = (IF Doubled(b, c, s) THEN DOUBLED_PAWN_PENALTY ELSE 0)
          + (IF Isolated(b, c, s) THEN ISOLATED_PAWN_PENALTY ELSE 0) + (IF IsPassed(b, c, s) THEN n ELSE 0)
  BY <1>6, <1>7 DEF PawnWorth
<1>9. PawnWorth(b1, Opposite(c), Flip(s)) = (IF Doubled(b, c, s) THEN DOUBLED_PAWN_PENALTY ELSE 0)
          + (IF Isolated(b, c, s) THEN ISOLATED_PAWN_PENALTY ELSE 0) + (IF IsPassed(b, c, s) THEN n ELSE 0)
  BY <1>2, <1>3, <1>4, <1>6, <1>7 DEF PawnWorth
<1>10. DOUBLED_PAWN_PENALTY \in Int /\ ISOLATED_PAWN_PENALTY \in Int
  BY DEF DOUBLED_PAWN_PENALTY, ISOLATED_PAWN_PENALTY
<1>. QED
  BY <1>7, <1>8, <1>9, <1>10

(* The pawn structure is worth the same in the mirror. *)
LEMMA PawnsFlipped ==
    ASSUME NEW b, NEW b1, MirrorOf(b, b1), NEW c \in Sides
    PROVE  /\ evaluate_pawn_structure(b1, Opposite(c)) = evaluate_pawn_structure(b, c)
           /\ evaluate_pawn_structure(b, c) \in Int
<1>1. \A a, d : evaluate_pawn_structure(a, d) = Total([s \in Men(a, d, "P") |-> PawnWorth(a, d, s)])
  BY DEF evaluate_pawn_structure, PawnWorth, Doubled, Isolated, OnFile
<1>2. PICK S, T : S = Men(b, c, "P") /\ T = Men(b1, Opposite(c), "P")
  OBVIOUS
<1>3. S \in SUBSET Squares /\ T \in SUBSET Squares /\ \A s \in Squares : s \in S <=> Flip(s) \in T
  BY <1>2, MenFlipped
<1>4. PICK h : h = [s \in S |-> Flip(s)] /\ h \in Bijection(S, T) /\ IsFiniteSet(S)
  BY <1>3, FlipImage
<1>5. PICK f : f = [s \in S |-> PawnWorth(b, c, s)]
  OBVIOUS
<1>6. PICK g : g = [s \in T |-> PawnWorth(b1, Opposite(c), s)]
  OBVIOUS
<1>7. MirrorOf(b1, b) /\ Opposite(c) \in Sides
  BY MirrorBack, UpIs
<1>8. f \in [S -> Int] /\ g \in [T -> Int]
  BY <1>3, <1>5, <1>6, <1>7, PawnWorthFlipped
<1>9. \A x \in S : g[h[x]] = f[x]
  BY <1>3, <1>4, <1>5, <1>6, PawnWorthFlipped
<1>10. Total(f) = Total(g) /\ Total(f) \in Int
  BY <1>4, <1>8, <1>9, TotalMoved
<1>. QED
  BY <1>1, <1>2, <1>5, <1>6, <1>10, Zenon

(* As many bishops. *)
LEMMA BishopsFlipped ==
    ASSUME NEW b, NEW b1, MirrorOf(b, b1), NEW c \in Sides
    PROVE  count_bishops(b1, Opposite(c)) = count_bishops(b, c)
<1>1. PICK S, T : S = Men(b, c, "B") /\ T = Men(b1, Opposite(c), "B")
  OBVIOUS
<1>2. S \in SUBSET Squares /\ T \in SUBSET Squares /\ \A s \in Squares : s \in S <=> Flip(s) \in T
  BY <1>1, MenFlipped
<1>3. Cardinality(T) = Cardinality(S)
  BY <1>2, FlipImage
<1>. QED
  BY <1>1, <1>3 DEF count_bishops

(* The kings stand opposite each other. *)
LEMMA KingFlipped ==
    ASSUME NEW b, NEW b1, MirrorOf(b, b1), NEW c \in Sides, OneKing(b, c)
    PROVE  /\ find_king(b, c) \in Squares
           /\ find_king(b1, Opposite(c)) = Flip(find_king(b, c))
<1>1. PICK k \in DOMAIN b : \A s \in DOMAIN b : b[s] = <<c, "K">> <=> s = k
  BY DEF OneKing
<1>2. IsBoard(b) /\ IsBoard(b1)
  BY DEF MirrorOf
<1>3. find_king(b, c) = k /\ k \in Squares
  BY <1>1, <1>2, KingFound
<1>4. PICK k1 \in DOMAIN b1 : k1 = Flip(k) /\ k1 \in Squares
  BY <1>2, <1>3, MirrorMan, FlipIs
<1>5. ASSUME NEW s \in DOMAIN b1 PROVE b1[s] = <<Opposite(c), "K">> <=> s = k1
  <2>1. PICK x \in Squares : x = Flip(s) /\ Flip(x) = s
    BY <1>2, ManOf, FlipIs
  <2>2. Is(b1, Flip(x), Opposite(c), "K") <=> Is(b, x, c, "K")
    BY MirrorMine
  <2>3. x \in DOMAIN b
    BY <2>1 DEF MirrorOf
  <2>4. s = k1 <=> x = k
    BY <1>3, <1>4, <2>1, FlipApart
  <2>. QED
    BY <1>1, <2>1, <2>2, <2>3, <2>4 DEF Is
<1>6. find_king(b1, Opposite(c)) = k1
  <2>1. PICK d : d = Opposite(c)
    OBVIOUS
  <2>2. find_king(b1, d) = k1
    BY <1>2, <1>4, <1>5, <2>1, KingFound
  <2>. QED
    BY <2>1, <2>2
<1>. QED
  BY <1>3, <1>4, <1>6

(* Setting the side to move changes nothing else. *)
LEMMA SideSet ==
    ASSUME NEW p, HasFields(p), NEW c, NEW q, q = [p EXCEPT !.side = c]
    PROVE  q.board = p.board /\ q.side = c /\ q.rights = p.rights /\ q.ep = p.ep
<1>1. PICK bb, ss, rr, ee, hh, ff, kk :
         p = [board |-> bb, side |-> ss, rights |-> rr, ep |-> ee, half |-> hh, full |-> ff, key |-> kk]
  BY DEF HasFields
<1>2. q = [board |-> bb, side |-> c, rights |-> rr, ep |-> ee, half |-> hh, full |-> ff, key |-> kk]
  BY <1>1
<1>. QED
  BY <1>1, <1>2

(* Mirror turns every part of the position around. *)
LEMMA MirrorFields ==
    ASSUME NEW p, HasFields(p), NEW q, q = Mirror(p)
    PROVE  /\ HasFields(q) /\ q.side = Opposite(p.side)
           /\ q.board = [s \in {Flip(x) : x \in DOMAIN p.board} |->
                            <<Opposite(p.board[Flip(s)][1]), p.board[Flip(s)][2]>>]
           /\ q.rights = {CASE r = "K" -> "k" [] r = "k" -> "K" [] r = "Q" -> "q" [] r = "q" -> "Q" : r \in p.rights}
           /\ q.ep = IF p.ep = NoSquare THEN p.ep ELSE Flip(p.ep)
<1>1. PICK bb, ss, rr, ee, hh, ff, kk :
         p = [board |-> bb, side |-> ss, rights |-> rr, ep |-> ee, half |-> hh, full |-> ff, key |-> kk]
  BY DEF HasFields
<1>2. PICK b1 : b1 = [s \in {Flip(x) : x \in DOMAIN p.board} |->
                            <<Opposite(p.board[Flip(s)][1]), p.board[Flip(s)][2]>>]
  OBVIOUS
<1>3. PICK r1 : r1 = {CASE r = "K" -> "k" [] r = "k" -> "K" [] r = "Q" -> "q" [] r = "q" -> "Q" : r \in p.rights}
  OBVIOUS
<1>4. PICK e1 : e1 = IF p.ep = NoSquare THEN p.ep ELSE Flip(p.ep)
  OBVIOUS
<1>5. q = [p EXCEPT !.board = b1, !.side = Opposite(@), !.rights = r1, !.ep = e1]
  BY <1>1, <1>2, <1>3, <1>4 DEF Mirror
<1>6. q = [board |-> b1, side |-> Opposite(ss), rights |-> r1, ep |-> e1, half |-> hh, full |-> ff, key |-> kk]
  BY <1>1, <1>5
<1>7. HasFields(q) /\ q.board = b1 /\ q.side = Opposite(p.side) /\ q.rights = r1 /\ q.ep = e1
  BY <1>1, <1>6 DEF HasFields
<1>. QED
  BY <1>2, <1>3, <1>4, <1>7

(* Mirror is the board seen from the other side. *)
LEMMA MirrorIs ==
    ASSUME NEW p, IsPosition(p), HasFields(p)
    PROVE  MirrorPos(p, Mirror(p)) /\ HasFields(Mirror(p))
<1>1. PICK q : q = Mirror(p)
  OBVIOUS
<1>2. /\ HasFields(q) /\ q.side = Opposite(p.side)
      /\ q.board = [s \in {Flip(x) : x \in DOMAIN p.board} |->
                       <<Opposite(p.board[Flip(s)][1]), p.board[Flip(s)][2]>>]
      /\ q.rights = {CASE r = "K" -> "k" [] r = "k" -> "K" [] r = "Q" -> "q" [] r = "q" -> "Q" : r \in p.rights}
      /\ q.ep = IF p.ep = NoSquare THEN p.ep ELSE Flip(p.ep)
  BY <1>1, MirrorFields
<1>3. PICK b, b1 : b = p.board /\ b1 = q.board
  OBVIOUS
<1>4. IsBoard(b) /\ p.side \in Sides /\ p.rights \subseteq {"K", "Q", "k", "q"} /\ (p.ep # NoSquare => p.ep \in Squares)
  BY <1>3, PositionParts DEF Corner, PawnPassed
<1>5. /\ DOMAIN b \subseteq Squares /\ DOMAIN b1 = {Flip(x) : x \in DOMAIN b}
      /\ b1 = [s \in DOMAIN b1 |-> b1[s]]
      /\ \A s \in DOMAIN b1 : b1[s] = <<Opposite(b[Flip(s)][1]), b[Flip(s)][2]>>
  BY <1>2, <1>3, <1>4 DEF IsBoard
<1>6. \A x \in DOMAIN b : Flip(x) \in DOMAIN b1 /\ Flip(Flip(x)) = x /\ x \in Squares /\ Flip(x) \in Squares
  BY <1>5, FlipIs
<1>7. \A s \in DOMAIN b1 : Flip(s) \in DOMAIN b /\ s \in Squares
  BY <1>5, <1>6
<1>8. \A s \in Squares : s \in DOMAIN b <=> Flip(s) \in DOMAIN b1
  <2>1. \A s \in Squares : Flip(Flip(s)) = s
    BY FlipIs
  <2>. QED
    BY <1>6, <1>7, <2>1
<1>9. \A s \in DOMAIN b : b1[Flip(s)] = <<Opposite(b[s][1]), b[s][2]>>
  BY <1>5, <1>6
<1>10. IsBoard(b1)
  <2>1. ASSUME NEW s \in DOMAIN b1 PROVE b1[s] \in Pieces
    <3>1. PICK x \in DOMAIN b : x = Flip(s)
      BY <1>7
    <3>2. b[x][1] \in Sides /\ b[x][2] \in Kinds
      BY <1>4, ManOf
    <3>3. Opposite(b[x][1]) \in Sides
      BY <3>2, UpIs
    <3>4. b1[s] = <<Opposite(b[x][1]), b[x][2]>>
      BY <1>5, <3>1
    <3>. QED
      BY <3>2, <3>3, <3>4 DEF Pieces, Sides, Kinds
  <2>. QED
    BY <1>5, <1>7, <2>1 DEF IsBoard
<1>11. MirrorOf(b, b1)
  BY <1>4, <1>8, <1>9, <1>10 DEF MirrorOf
<1>12. \A c \in Sides, kind \in Ways : Right(c, kind) \in p.rights <=> Right(Opposite(c), kind) \in q.rights
  <2>1. /\ "K" \in p.rights <=> "k" \in q.rights
        /\ "k" \in p.rights <=> "K" \in q.rights
        /\ "Q" \in p.rights <=> "q" \in q.rights
        /\ "q" \in p.rights <=> "Q" \in q.rights
    BY <1>2, <1>4
  <2>. QED
    BY <2>1 DEF Sides, Ways, Right, Opposite
<1>13. \A t \in Squares : t = p.ep <=> Flip(t) = q.ep
  <2>1. \A t \in Squares : t # NoSquare /\ Flip(t) # NoSquare /\ Flip(t) \in Squares
    BY FlipIs DEF Squares, NoSquare
  <2>2. CASE p.ep = NoSquare
    BY <1>2, <2>1, <2>2
  <2>3. CASE p.ep # NoSquare
    BY <1>2, <1>4, <2>3, FlipApart
  <2>. QED
    BY <2>2, <2>3
<1>. QED
  BY <1>1, <1>2, <1>3, <1>4, <1>11, <1>12, <1>13 DEF MirrorPos

(* Whatever side the mobility is counted for. *)
LEMMA CountFlipped ==
    ASSUME NEW p, NEW q, MirrorPos(p, q), HasFields(p), HasFields(q), NEW c \in Sides
    PROVE  count_mobility(q, Opposite(c)) = count_mobility(p, c) /\ count_mobility(p, c) \in Nat
<1>1. PICK x : x = [p EXCEPT !.side = c]
  OBVIOUS
<1>2. PICK y : y = [q EXCEPT !.side = Opposite(c)]
  OBVIOUS
<1>3. x.board = p.board /\ x.side = c /\ x.rights = p.rights /\ x.ep = p.ep
  BY <1>1, SideSet
<1>4. y.board = q.board /\ y.side = Opposite(c) /\ y.rights = q.rights /\ y.ep = q.ep
  BY <1>2, SideSet
<1>5. MirrorPos(x, y)
  BY <1>3, <1>4 DEF MirrorPos
<1>. QED
  BY <1>1, <1>2, <1>5, MobilityFlipped DEF count_mobility

(* A side's score is the other side's in the mirror. *)
LEMMA ScoreFlipped ==
    ASSUME NEW p, NEW q, MirrorPos(p, q), HasFields(p), HasFields(q), NEW c \in Sides, OneKing(p.board, c)
    PROVE  SideScore(q, Opposite(c)) = SideScore(p, c) /\ SideScore(p, c) \in Int
<1>1. PICK b, b1, d : b = p.board /\ b1 = q.board /\ d = Opposite(c) /\ MirrorOf(b, b1)
  BY DEF MirrorPos
<1>2. PICK k, k1 : k = find_king(b, c) /\ k1 = find_king(b1, d) /\ k \in Squares /\ k1 = Flip(k)
  BY <1>1, KingFlipped
<1>3. k # NoSquare /\ k1 # NoSquare
  <2>1. k1 \in Squares
    BY <1>2, FlipIs
  <2>2. \A s \in Squares : s # NoSquare
    BY DEF Squares, NoSquare
  <2>. QED
    BY <1>2, <2>1, <2>2
<1>4. PICK m \in Int : /\ m = Total([s \in MenOf(b, c) |-> Worth(b, c, s)])
                       /\ m = Total([s \in MenOf(b1, d) |-> Worth(b1, d, s)])
  BY <1>1, MaterialFlipped
<1>5. PICK n \in Int : n = evaluate_king_safety(b, c, k) /\ n = evaluate_king_safety(b1, d, k1)
  BY <1>1, <1>2, SafetyFlipped
<1>6. PICK o \in Int : o = evaluate_pawn_structure(b, c) /\ o = evaluate_pawn_structure(b1, d)
  BY <1>1, PawnsFlipped
<1>7. PICK v \in Int : v = count_mobility(p, c) /\ v = count_mobility(q, d)
  BY <1>1, CountFlipped
<1>8. count_bishops(b1, d) = count_bishops(b, c)
  BY <1>1, BishopsFlipped
<1>9. PICK pair \in Int : pair = (IF count_bishops(b, c) >= 2 THEN BISHOP_PAIR_BONUS ELSE 0)
  BY DEF BISHOP_PAIR_BONUS
<1>10. SideScore(p, c) = m + n + o + MOBILITY_WEIGHT * v + pair
  BY <1>1, <1>2, <1>3, <1>4, <1>5, <1>6, <1>7, <1>9 DEF SideScore, MenOf, Worth
<1>11. SideScore(q, d) = m + n + o + MOBILITY_WEIGHT * v + pair
  BY <1>1, <1>2, <1>3, <1>4, <1>5, <1>6, <1>7, <1>8, <1>9 DEF SideScore, MenOf, Worth
<1>12. m + n + o + MOBILITY_WEIGHT * v + pair \in Int
  BY DEF MOBILITY_WEIGHT
<1>. QED
  BY <1>1, <1>10, <1>11, <1>12

(* The mirrored position is worth the same to the side to move. *)
LEMMA FairlyEvaluated ==
    ASSUME NEW p, IsPosition(p), HasFields(p)
    PROVE  evaluate(Mirror(p)) = evaluate(p)
<1>1. PICK q : q = Mirror(p)
  OBVIOUS
<1>2. MirrorPos(p, q) /\ HasFields(q) /\ p.side \in Sides /\ q.side = Opposite(p.side)
  BY <1>1, MirrorIs DEF MirrorPos
<1>3. "w" \in Sides /\ "b" \in Sides /\ Opposite("w") = "b" /\ Opposite("b") = "w"
  BY DEF Sides, Opposite
<1>4. OneKing(p.board, "w") /\ OneKing(p.board, "b")
  BY <1>3, PositionParts
<1>5. PICK w \in Int : w = SideScore(p, "w") /\ w = SideScore(q, "b")
  BY <1>2, <1>3, <1>4, ScoreFlipped
<1>6. PICK l \in Int : l = SideScore(p, "b") /\ l = SideScore(q, "w")
  BY <1>2, <1>3, <1>4, ScoreFlipped
<1>7. evaluate_detailed(p) = w - l /\ evaluate_detailed(q) = l - w
  BY <1>5, <1>6 DEF evaluate_detailed
<1>8. (p.side = "w" /\ q.side = "b") \/ (p.side = "b" /\ q.side = "w")
  BY <1>2, <1>3 DEF Sides
<1>9. -(l - w) = w - l
  OBVIOUS
<1>10. evaluate(p) = evaluate(q)
  BY <1>7, <1>8, <1>9 DEF evaluate
<1>. QED
  BY <1>1, <1>10

(* In any game the evaluation is the same for both sides: mirrored, with   *)
(* the other side to move, a position keeps its value, which the search    *)
(* relies on when it negates a score between plies.                        *)
THEOREM EvaluationStaysFair == ChessSpec => []EvaluationIsFair
<1>1. ChessInit => ChessInv
  BY ChessBegins
<1>2. ChessInv /\ [ChessNext]_chessVars => ChessInv'
  BY ChessMoves
<1>3. ChessInv => EvaluationIsFair
  BY FairlyEvaluated DEF ChessInv, EvaluationIsFair
<1>. QED
  BY <1>1, <1>2, <1>3, PTL DEF ChessSpec

=============================================================================

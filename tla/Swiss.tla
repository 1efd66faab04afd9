------------------------------- MODULE Swiss -------------------------------
(***************************************************************************)
(* The pairs of one round: src/tournament/swiss.cpp.                       *)
(*                                                                         *)
(* A standing is a record [elo, score, whites, bye] of a player, score in  *)
(* half points.  A matching is a set of blocks {a, b}, with {a} for a bye. *)
(* pair_swiss_round searches depth first for the cheapest matching and     *)
(* keeps the first of equally cheap ones; here the same matching is        *)
(* picked from the set of all of them.  No player is ever withdrawn:       *)
(* nothing in the program sets that column.                                *)
(***************************************************************************)
EXTENDS Integers, Sequences, FiniteSets, FiniteSetsExt

higher_seed(st, a, b) ==
    \/ st[a].score > st[b].score
    \/ st[a].score = st[b].score /\ st[a].elo > st[b].elo
    \/ st[a].score = st[b].score /\ st[a].elo = st[b].elo /\ a < b

(* Position in the sorted pool, from 1. *)
Seed(st, pool, a) == 1 + Cardinality({b \in pool : higher_seed(st, b, a)})
Lowest(st, S) == CHOOSE a \in S : \A b \in S \ {a} : higher_seed(st, b, a)
Highest(st, S) == CHOOSE a \in S : \A b \in S \ {a} : higher_seed(st, a, b)

(* White goes to whoever had it less often, then to the higher seed. *)
assign_colors(st, block) ==
    CHOOSE a \in block : \A b \in block \ {a} :
        \/ st[a].whites < st[b].whites
        \/ st[a].whites = st[b].whites /\ higher_seed(st, a, b)

(* An odd field without forbidden pairs: the lowest seed without a bye.    *)
ByePlayer(st, pool) ==
    LET fresh == {a \in pool : ~st[a].bye}
    IN Lowest(st, IF fresh = {} THEN pool ELSE fresh)

(* Ways to split the pool into legal blocks; byes only beside forbidden    *)
(* pairs, where a complete matching may not exist.                         *)
Matchings(pool, forbidden) ==
    LET blocks == {b \in kSubset(2, pool) : b \notin forbidden}
                    \cup (IF forbidden = {} THEN {} ELSE kSubset(1, pool))
    IN {m \in SUBSET blocks : /\ UNION m = pool
                              /\ \A b, c \in m : b # c => b \cap c = {}}

Gap(values) == Max(values) - Min(values)
BlockCost(st, pool, played, block) ==
    IF Cardinality(block) = 1
    THEN LET a == CHOOSE a \in block : TRUE
         IN <<1, IF st[a].bye THEN 1 ELSE 0, Cardinality(pool) + 1 - Seed(st, pool, a), 0, 0, 0>>
    ELSE <<0, 0, 0, IF block \in played THEN 1 ELSE 0,
           Gap({st[a].elo : a \in block}), Gap({st[a].score : a \in block})>>

(* The values of a function, added up. *)
Total(f) ==
    LET total[S \in SUBSET DOMAIN f] ==
            IF S = {} THEN 0 ELSE LET x == CHOOSE x \in S : TRUE IN f[x] + total[S \ {x}]
    IN total[DOMAIN f]
Cost(st, pool, played, m) ==
    [i \in 1..6 |-> Total([b \in m |-> BlockCost(st, pool, played, b)[i]])]
Cheaper(x, y) == \E i \in 1..6 : x[i] < y[i] /\ \A j \in 1..(i - 1) : x[j] = y[j]

CheapestMatchings(st, pool, played, forbidden) ==
    LET all == Matchings(pool, forbidden)
        cost == [m \in all |-> Cost(st, pool, played, m)]
    IN {m \in all : \A o \in all : ~Cheaper(cost[o], cost[m])}

(* Order of the search: the highest open seed tries its cheapest partner   *)
(* first, equally cheap ones by seed, and a bye last.                      *)
BlockOf(m, a) == CHOOSE b \in m : a \in b
TriedBefore(st, pool, played, b, c) ==
    LET x == BlockCost(st, pool, played, b)
        y == BlockCost(st, pool, played, c)
    IN Cheaper(x, y) \/ (x = y /\ \E p \in b \ c : \A q \in c \ b : higher_seed(st, p, q))
FoundBefore(st, pool, played, m, o) ==
    \E a \in pool :
        /\ BlockOf(m, a) # BlockOf(o, a)
        /\ \A b \in pool : higher_seed(st, b, a) => BlockOf(m, b) = BlockOf(o, b)
        /\ TriedBefore(st, pool, played, BlockOf(m, a), BlockOf(o, a))

BestMatching(st, pool, played, forbidden) ==
    LET best == CheapestMatchings(st, pool, played, forbidden)
    IN CHOOSE m \in best : \A o \in best \ {m} : FoundBefore(st, pool, played, m, o)

(* Blocks in the order of their higher seeds. *)
Sorted(st, m) ==
    LET before(b, c) == higher_seed(st, Highest(st, b), Highest(st, c))
    IN [i \in 1..Cardinality(m) |->
          CHOOSE b \in m : Cardinality({c \in m : before(c, b)}) = i - 1]

(* White and black of a block; nobody (0) plays against a bye. *)
Seated(st, b) ==
    LET w == assign_colors(st, b)
    IN IF b = {w} THEN <<w, 0>> ELSE <<w, CHOOSE a \in b \ {w} : TRUE>>

(* The round as a sequence of <<white, black>>, in seed order with byes at *)
(* the end.                                                                *)
pair_swiss_round(st, pool, played, forbidden) ==
    IF pool = {} THEN <<>>
    ELSE LET odd == Cardinality(pool) % 2 = 1 /\ forbidden = {}
             byer == IF odd THEN {ByePlayer(st, pool)} ELSE {}
             m == BestMatching(st, pool \ byer, played, forbidden)
             single == {b \in m : Cardinality(b) = 1}
             blocks == Sorted(st, m \ single) \o Sorted(st, IF odd THEN {byer} ELSE single)
         IN [i \in DOMAIN blocks |-> Seated(st, blocks[i])]

=============================================================================

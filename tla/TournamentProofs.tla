-------------------------- MODULE TournamentProofs --------------------------
(***************************************************************************)
(* The tournament manager and its Swiss pairing, for any field, ratings,   *)
(* number of rounds and schedule.  First the pairing of one round: a       *)
(* field of any size is split into pairs and byes completely and without   *)
(* overlap.  Then the event: rounds open one after the other whatever      *)
(* fails, and only the creator changes a decided result.                   *)
(***************************************************************************)
EXTENDS Tournament, FiniteSetTheorems, FunctionTheorems, WellFoundedInduction, NaturalsInduction, TLAPS

(* Finite sets: the least of some natural numbers, and what a strict order *)
(* leaves first.                                                           *)
LEMMA LeastOfSome == ASSUME NEW S \in SUBSET Nat, S # {} PROVE \E n \in S : \A k \in S : n <= k
<1>1. PICK R : R = {ss \in Nat \X Nat : ss[1] < ss[2]} /\ IsWellFoundedOn(R, Nat)
  BY NatLessThanWellFounded DEF OpToRel
<1>2. \E t \in S : \A y \in S : ~(<<y, t>> \in R)
  BY <1>1, WFMin, Zenon
<1>3. PICK t \in S : \A y \in S : ~(<<y, t>> \in R)
  BY <1>2
<1>4. ASSUME NEW y \in S PROVE t <= y
  <2>1. <<y, t>> \in Nat \X Nat /\ ~(<<y, t>> \in R)
    BY <1>3
  <2>2. ~(y < t)
    BY <1>1, <2>1
  <2>. QED
    BY <2>2
<1>. QED
  BY <1>4

(* R orders S strictly, as a set of pairs.                                 *)
Strict(R, S) == /\ \A x \in S : <<x, x>> \notin R
                /\ \A x, y, z \in S : <<x, y>> \in R /\ <<y, z>> \in R => <<x, z>> \in R
Linear(R, S) == Strict(R, S) /\ \A x, y \in S : x = y \/ <<x, y>> \in R \/ <<y, x>> \in R

LEMMA FirstOfSome ==
    ASSUME NEW S, IsFiniteSet(S), S # {}, NEW R, Strict(R, S)
    PROVE  \E x \in S : \A y \in S : <<y, x>> \notin R
<1>. DEFINE Before(x) == {y \in S : <<y, x>> \in R}
<1>1. \A x \in S : IsFiniteSet(Before(x)) /\ Cardinality(Before(x)) \in Nat
  BY FS_Subset, FS_CardinalityType
<1>2. PICK N : N = {Cardinality(Before(x)) : x \in S}
  OBVIOUS
<1>3. N \in SUBSET Nat /\ N # {}
  BY <1>1, <1>2
<1>4. PICK n \in N : \A k \in N : n <= k
  BY <1>3, LeastOfSome
<1>5. PICK x \in S : n = Cardinality(Before(x))
  BY <1>2
<1>6. ASSUME NEW y \in S, <<y, x>> \in R PROVE FALSE
  <2>1. Before(y) \subseteq Before(x) /\ y \in Before(x) /\ y \notin Before(y)
    BY <1>6 DEF Strict
  <2>2. Cardinality(Before(y)) <= Cardinality(Before(x)) /\ Cardinality(Before(y)) # Cardinality(Before(x))
    BY <1>1, <2>1, FS_Subset
  <2>3. Cardinality(Before(y)) \in N
    BY <1>2
  <2>. QED
    BY <1>1, <1>3, <1>4, <1>5, <2>2, <2>3
<1>. QED
  BY <1>6

LEMMA FirstOfAll ==
    ASSUME NEW S, IsFiniteSet(S), S # {}, NEW R, Linear(R, S)
    PROVE  \E x \in S : \A y \in S \ {x} : <<x, y>> \in R /\ <<y, x>> \notin R
<1>1. PICK x \in S : \A y \in S : <<y, x>> \notin R
  BY FirstOfSome DEF Linear
<1>. QED
  BY <1>1 DEF Linear

(* Adding up integers gives an integer: the recursive function behind      *)
(* Total exists, and so it does what its equation says.                    *)
LEMMA TotalIsInteger ==
    ASSUME NEW S, IsFiniteSet(S), NEW f \in [S -> Int]
    PROVE  Total(f) \in Int
<1>. DEFINE first(s) == CHOOSE x \in s : TRUE
            sum(t, s) == IF s = {} THEN 0 ELSE f[first(s)] + t[s \ {first(s)}]
            solves(t, k) == /\ t \in [SUBSET S -> Int]
                            /\ \A s \in SUBSET S : Cardinality(s) <= k => t[s] = sum(t, s)
<1>1. ASSUME NEW s \in SUBSET S
      PROVE  /\ Cardinality(s) \in Nat
             /\ s # {} => /\ first(s) \in s /\ f[first(s)] \in Int
                          /\ Cardinality(s \ {first(s)}) = Cardinality(s) - 1
                          /\ s \ {first(s)} \in SUBSET S
  <2>1. IsFiniteSet(s)
    BY FS_Subset
  <2>2. s # {} => first(s) \in s
    OBVIOUS
  <2>. HIDE DEF first
  <2>. QED
    BY <2>1, <2>2, FS_CardinalityType, FS_RemoveElement
<1>. HIDE DEF first
<1>2. \A k \in Nat : \E t : solves(t, k)
  <2>. DEFINE Bad == {k \in Nat : ~\E t : solves(t, k)}
  <2>1. SUFFICES ASSUME Bad # {} PROVE FALSE
    OBVIOUS
  <2>2. PICK k \in Bad : \A j \in Bad : k <= j
    <3>. HIDE DEF solves
    <3>. QED
      BY <2>1, LeastOfSome
  <2>3. k # 0
    <3>1. PICK t : t = [s \in SUBSET S |-> 0]
      OBVIOUS
    <3>2. ASSUME NEW s \in SUBSET S, Cardinality(s) <= 0 PROVE s = {}
      <4>1. IsFiniteSet(s) /\ Cardinality(s) \in Nat
        BY FS_Subset, FS_CardinalityType
      <4>. QED
        BY <3>2, <4>1, FS_EmptySet
    <3>3. solves(t, 0)
      BY <3>1, <3>2
    <3>. QED
      BY <3>3
  <2>4. k \in Nat /\ k - 1 \in Nat /\ k - 1 \notin Bad
    <3>1. k \in Nat
      OBVIOUS
    <3>. HIDE DEF Bad
    <3>. QED
      BY <2>2, <2>3, <3>1
  <2>5. PICK t : solves(t, k - 1)
    BY <2>4
  <2>6. PICK u : u = [s \in SUBSET S |-> IF Cardinality(s) <= k - 1 THEN t[s] ELSE sum(t, s)]
    OBVIOUS
  <2>7. ASSUME NEW s \in SUBSET S PROVE sum(t, s) \in Int
    <3>1. CASE s = {}
      BY <3>1
    <3>2. CASE s # {}
      <4>1. t[s \ {first(s)}] \in Int /\ f[first(s)] \in Int
        BY <1>1, <2>5, <3>2
      <4>. QED
        BY <3>2, <4>1
    <3>. QED
      BY <3>1, <3>2
  <2>8. u \in [SUBSET S -> Int]
    BY <2>5, <2>6, <2>7
  <2>9. ASSUME NEW s \in SUBSET S, Cardinality(s) <= k PROVE u[s] = sum(u, s)
    <3>1. u[s] = sum(t, s)
      BY <2>5, <2>6
    <3>2. s # {} => u[s \ {first(s)}] = t[s \ {first(s)}]
      BY <1>1, <2>4, <2>6, <2>9
    <3>. QED
      BY <3>1, <3>2
  <2>10. solves(u, k)
    BY <2>8, <2>9
  <2>. QED
    BY <2>2, <2>10
<1>3. PICK t : solves(t, Cardinality(S))
  BY <1>1, <1>2
<1>4. t = [s \in SUBSET S |-> sum(t, s)]
  <2>1. \A s \in SUBSET S : Cardinality(s) <= Cardinality(S)
    BY FS_Subset
  <2>. QED
    BY <1>3, <2>1
<1>. DEFINE eq(u) == u = [s \in SUBSET S |-> IF s = {} THEN 0 ELSE LET x == CHOOSE x \in s : TRUE
                                                                 IN f[x] + u[s \ {x}]]
<1>5. PICK u : u = (CHOOSE v : eq(v))
  OBVIOUS
<1>6. eq(u)
  <2>1. eq(t)
    BY <1>4 DEF first
  <2>. HIDE DEF eq
  <2>. QED
    BY <1>5, <2>1, Zenon
<1>7. \A s \in SUBSET S : u[s] = sum(u, s)
  BY <1>6 DEF first
<1>. HIDE DEF eq
<1>8. \A s \in SUBSET S : u[s] \in Int
  <2>. DEFINE Bad == {Cardinality(s) : s \in {r \in SUBSET S : u[r] \notin Int}}
  <2>1. SUFFICES ASSUME Bad # {} PROVE FALSE
    OBVIOUS
  <2>2. Bad \in SUBSET Nat
    BY <1>1
  <2>3. PICK n \in Bad : \A k \in Bad : n <= k
    BY <2>1, <2>2, LeastOfSome
  <2>4. PICK s \in SUBSET S : n = Cardinality(s) /\ u[s] \notin Int
    BY <2>3
  <2>5. s # {} /\ u[s \ {first(s)}] \notin Int
    BY <1>1, <1>7, <2>4
  <2>6. PICK k \in Bad : k = Cardinality(s) - 1
    BY <1>1, <2>5
  <2>7. n \in Nat /\ n <= k /\ k = n - 1
    BY <2>2, <2>3, <2>4, <2>6
  <2>. QED
    BY <2>7
<1>9. Total(f) = u[S]
  <2>1. DOMAIN f = S
    OBVIOUS
  <2>. QED
    BY <1>5, <2>1 DEF Total, eq
<1>. QED
  BY <1>8, <1>9

-----------------------------------------------------------------------------
(* A field that can be paired: players with numbers from 1 (0 stands for   *)
(* nobody) and what the order of the seeds looks at.                       *)
Ranked(st, pool) == /\ IsFiniteSet(pool) /\ pool \subseteq Nat \ {0}
                    /\ \A a \in pool : st[a].elo \in Int /\ st[a].score \in Int /\ st[a].whites \in Int

(* The seeds are a linear order, and so is the order of who gets white.    *)
LEMMA SeedsOrdered ==
    ASSUME NEW st, NEW pool, Ranked(st, pool)
    PROVE  /\ \A a \in pool : ~higher_seed(st, a, a)
           /\ \A a, b \in pool : a = b \/ higher_seed(st, a, b) \/ higher_seed(st, b, a)
           /\ \A a, b, c \in pool : higher_seed(st, a, b) /\ higher_seed(st, b, c) => higher_seed(st, a, c)
<1>1. \A a \in pool : a \in Int /\ st[a].elo \in Int /\ st[a].score \in Int
  BY DEF Ranked
<1>. QED
  BY <1>1 DEF higher_seed

LEMMA HighestAndLowest ==
    ASSUME NEW st, NEW pool, Ranked(st, pool), NEW S \in SUBSET pool, S # {}
    PROVE  /\ Lowest(st, S) \in S
           /\ Highest(st, S) \in S
           /\ \A b \in S \ {Highest(st, S)} : higher_seed(st, Highest(st, S), b)
<1>1. IsFiniteSet(S)
  BY FS_Subset DEF Ranked
<1>2. \E a \in S : \A b \in S \ {a} : higher_seed(st, a, b)
  <2>1. PICK R : R = {ab \in S \X S : higher_seed(st, ab[1], ab[2])}
    OBVIOUS
  <2>2. \A a, b \in S : <<a, b>> \in R <=> higher_seed(st, a, b)
    BY <2>1
  <2>3. Linear(R, S)
    BY <2>2, SeedsOrdered DEF Linear, Strict
  <2>. QED
    BY <1>1, <2>2, <2>3, FirstOfAll
<1>3. \E a \in S : \A b \in S \ {a} : higher_seed(st, b, a)
  <2>1. PICK R : R = {ab \in S \X S : higher_seed(st, ab[2], ab[1])}
    OBVIOUS
  <2>2. \A a, b \in S : <<a, b>> \in R <=> higher_seed(st, b, a)
    BY <2>1
  <2>3. Linear(R, S)
    BY <2>2, SeedsOrdered DEF Linear, Strict
  <2>. QED
    BY <1>1, <2>2, <2>3, FirstOfAll
<1>. QED
  BY <1>2, <1>3 DEF Lowest, Highest

LEMMA WhiteIsOne ==
    ASSUME NEW st, NEW pool, Ranked(st, pool), NEW S \in SUBSET pool, S # {}
    PROVE  assign_colors(st, S) \in S
<1>. DEFINE whiter(a, b) == \/ st[a].whites < st[b].whites
                            \/ st[a].whites = st[b].whites /\ higher_seed(st, a, b)
<1>1. IsFiniteSet(S) /\ \A a \in pool : st[a].whites \in Int
  BY FS_Subset DEF Ranked
<1>2. PICK R : R = {ab \in S \X S : whiter(ab[1], ab[2])}
  OBVIOUS
<1>3. \A a, b \in S : <<a, b>> \in R <=> whiter(a, b)
  BY <1>2
<1>4. /\ \A a \in S : ~whiter(a, a)
      /\ \A a, b \in S : a = b \/ whiter(a, b) \/ whiter(b, a)
      /\ \A a, b, c \in S : whiter(a, b) /\ whiter(b, c) => whiter(a, c)
  BY <1>1, SeedsOrdered
<1>5. Linear(R, S)
  <2>. HIDE DEF whiter
  <2>. QED
    BY <1>3, <1>4 DEF Linear, Strict
<1>6. \E a \in S : \A b \in S \ {a} : whiter(a, b)
  <2>. HIDE DEF whiter
  <2>. QED
    BY <1>1, <1>3, <1>5, FirstOfAll
<1>. QED
  BY <1>6 DEF assign_colors

(* Blocks: a pair or one player alone.                                     *)
Block(pool) == {b \in SUBSET pool : \E x, y \in b : b = {x, y}}
LEMMA BlocksAre ==
    ASSUME NEW pool, IsFiniteSet(pool), NEW b \in SUBSET pool
    PROVE  /\ Cardinality(b) = 1 <=> \E x \in b : b = {x}
           /\ Cardinality(b) = 2 <=> \E x, y \in b : x # y /\ b = {x, y}
<1>1. IsFiniteSet(b) /\ Cardinality(b) \in Nat
  BY FS_Subset, FS_CardinalityType
<1>2. Cardinality(b) = 1 <=> \E x \in b : b = {x}
  BY <1>1, FS_Singleton
<1>3. ASSUME NEW x \in b, NEW y \in b, x # y, b = {x, y} PROVE Cardinality(b) = 2
  <2>1. Cardinality({x}) = 1 /\ IsFiniteSet({x})
    BY FS_Singleton
  <2>2. b = {x} \cup {y} /\ y \notin {x}
    BY <1>3
  <2>. QED
    BY <2>1, <2>2, FS_AddElement
<1>4. ASSUME Cardinality(b) = 2 PROVE \E x, y \in b : x # y /\ b = {x, y}
  <2>1. b # {}
    BY <1>4, FS_EmptySet
  <2>2. PICK x \in b : TRUE
    BY <2>1
  <2>3. IsFiniteSet(b \ {x}) /\ Cardinality(b \ {x}) = 1
    BY <1>1, <1>4, FS_RemoveElement
  <2>4. PICK y : b \ {x} = {y}
    BY <2>3, FS_Singleton
  <2>. QED
    BY <2>4
<1>. QED
  BY <1>2, <1>3, <1>4

(* What a matching is, and that there is one: of pairs alone when the      *)
(* field is even, with byes when pairs are forbidden.                      *)
LEMMA MatchingIs ==
    ASSUME NEW pool, IsFiniteSet(pool), NEW forbidden, NEW m \in Matchings(pool, forbidden)
    PROVE  /\ m \subseteq Block(pool) /\ IsFiniteSet(m) /\ UNION m = pool
           /\ \A b, c \in m : b # c => b \cap c = {}
           /\ \A b \in m : /\ b # {} /\ IsFiniteSet(b)
                           /\ Cardinality(b) # 1 => \E x, y \in b : x # y /\ b = {x, y} /\ b \notin forbidden
           /\ forbidden = {} => \A b \in m : Cardinality(b) = 2
<1>1. /\ m \subseteq SUBSET pool /\ UNION m = pool
      /\ \A b, c \in m : b # c => b \cap c = {}
      /\ \A b \in m : \/ Cardinality(b) = 2 /\ b \notin forbidden
                      \/ Cardinality(b) = 1 /\ forbidden # {}
  BY DEF Matchings, kSubset
<1>2. IsFiniteSet(m)
  BY <1>1, FS_SUBSET, FS_Subset
<1>3. ASSUME NEW b \in m
      PROVE  /\ b \in Block(pool) /\ b # {} /\ IsFiniteSet(b)
             /\ Cardinality(b) # 1 => \E x, y \in b : x # y /\ b = {x, y} /\ b \notin forbidden
  <2>1. IsFiniteSet(b) /\ b \in SUBSET pool
    BY <1>1, FS_Subset
  <2>2. CASE Cardinality(b) = 2 /\ b \notin forbidden
    BY <2>1, <2>2, BlocksAre DEF Block
  <2>3. CASE Cardinality(b) = 1
    BY <2>1, <2>3, BlocksAre DEF Block
  <2>. QED
    BY <1>1, <2>2, <2>3
<1>. QED
  BY <1>1, <1>2, <1>3

LEMMA EvenFieldHasPairs ==
    ASSUME NEW pool, IsFiniteSet(pool), Cardinality(pool) % 2 = 0
    PROVE  Matchings(pool, {}) # {}
<1>. DEFINE fits(P, n) == IsFiniteSet(P) /\ Cardinality(P) = 2 * n
            Bad == {n \in Nat : \E P : fits(P, n) /\ Matchings(P, {}) = {}}
<1>1. ASSUME Bad # {} PROVE FALSE
  <2>1. PICK n \in Bad : \A k \in Bad : n <= k
    <3>1. Bad \in SUBSET Nat
      OBVIOUS
    <3>. HIDE DEF Bad
    <3>. QED
      BY <1>1, <3>1, LeastOfSome
  <2>2. PICK P : fits(P, n) /\ Matchings(P, {}) = {}
    OBVIOUS
  <2>3. n \in Nat /\ IsFiniteSet(P) /\ Cardinality(P) = 2 * n
    BY <2>2
  <2>4. P # {}
    <3>1. ASSUME P = {} PROVE {} \in Matchings(P, {})
      BY <3>1 DEF Matchings
    <3>. QED
      BY <2>2, <3>1
  <2>5. n # 0 /\ Cardinality(P) # 0
    BY <2>3, <2>4, FS_EmptySet
  <2>6. PICK a \in P : TRUE
    BY <2>4
  <2>7. IsFiniteSet(P \ {a}) /\ Cardinality(P \ {a}) = 2 * n - 1
    BY <2>3, FS_RemoveElement
  <2>8. P \ {a} # {}
    BY <2>3, <2>7, FS_EmptySet
  <2>9. PICK b \in P \ {a} : TRUE
    BY <2>8
  <2>10. PICK Q : Q = (P \ {a}) \ {b}
    OBVIOUS
  <2>11. IsFiniteSet(Q) /\ Cardinality(Q) = 2 * (n - 1)
    <3>1. IsFiniteSet(Q) /\ Cardinality(Q) = Cardinality(P \ {a}) - 1
      BY <2>7, <2>9, <2>10, FS_RemoveElement
    <3>. QED
      BY <2>3, <2>7, <3>1
  <2>12. n - 1 \in Nat /\ n - 1 \notin Bad
    <3>. HIDE DEF Bad
    <3>. QED
      BY <2>1, <2>3, <2>5
  <2>13. Matchings(Q, {}) # {}
    BY <2>11, <2>12
  <2>14. PICK m : m \in Matchings(Q, {})
    BY <2>13
  <2>15. PICK ab : ab = {a, b}
    OBVIOUS
  <2>16. ab \in SUBSET P /\ Cardinality(ab) = 2 /\ ab \cap Q = {} /\ ab \cup Q = P
    <3>1. ab \in SUBSET P /\ ab \cap Q = {} /\ ab \cup Q = P /\ a # b /\ a \in ab /\ b \in ab
      BY <2>9, <2>10, <2>15
    <3>. QED
      BY <2>3, <2>15, <3>1, BlocksAre
  <2>17. /\ m \subseteq kSubset(2, P) /\ UNION m = Q
         /\ \A c, d \in m : c # d => c \cap d = {}
    BY <2>14, <2>16 DEF Matchings, kSubset
  <2>18. m \cup {ab} \in Matchings(P, {})
    <3>1. m \cup {ab} \subseteq kSubset(2, P)
      BY <2>16, <2>17 DEF kSubset
    <3>2. UNION (m \cup {ab}) = P
      BY <2>16, <2>17
    <3>3. \A c, d \in m \cup {ab} : c # d => c \cap d = {}
      BY <2>16, <2>17
    <3>. QED
      BY <3>1, <3>2, <3>3 DEF Matchings
  <2>. QED
    BY <2>2, <2>18
<1>2. PICK n \in Nat : Cardinality(pool) = 2 * n
  <2>1. Cardinality(pool) \in Nat
    BY FS_CardinalityType
  <2>. QED
    BY <2>1
<1>3. n \notin Bad
  BY <1>1
<1>. QED
  BY <1>2, <1>3

LEMMA MatchingThere ==
    ASSUME NEW pool, IsFiniteSet(pool), NEW forbidden,
           forbidden # {} \/ Cardinality(pool) % 2 = 0
    PROVE  Matchings(pool, forbidden) # {} /\ IsFiniteSet(Matchings(pool, forbidden))
<1>1. IsFiniteSet(Matchings(pool, forbidden))
  <2>1. IsFiniteSet(SUBSET SUBSET pool)
    BY FS_SUBSET
  <2>2. Matchings(pool, forbidden) \subseteq SUBSET SUBSET pool
    BY DEF Matchings, kSubset
  <2>. QED
    BY <2>1, <2>2, FS_Subset
<1>2. CASE forbidden # {}
  <2>1. PICK m : m = {{a} : a \in pool}
    OBVIOUS
  <2>2. m \subseteq kSubset(1, pool)
    BY <2>1, FS_Singleton DEF kSubset
  <2>3. UNION m = pool /\ \A b, c \in m : b # c => b \cap c = {}
    BY <2>1
  <2>4. m \in Matchings(pool, forbidden)
    BY <1>2, <2>2, <2>3 DEF Matchings
  <2>. QED
    BY <1>1, <2>4
<1>3. CASE forbidden = {}
  BY <1>1, <1>3, EvenFieldHasPairs
<1>. QED
  BY <1>2, <1>3

-----------------------------------------------------------------------------
(* Costs are six integers, and the cheaper one is the one that is smaller  *)
(* where they first differ.                                                *)
Six == [1..6 -> Int]

LEMMA CheaperOrders ==
    /\ \A x \in Six : ~Cheaper(x, x)
    /\ \A x, y, z \in Six : Cheaper(x, y) /\ Cheaper(y, z) => Cheaper(x, z)
    /\ \A x, y \in Six : x = y \/ Cheaper(x, y) \/ Cheaper(y, x)
<1>1. \A x \in Six : ~Cheaper(x, x)
  BY DEF Six, Cheaper
<1>2. ASSUME NEW x \in Six, NEW y \in Six, NEW z \in Six, Cheaper(x, y), Cheaper(y, z)
      PROVE  Cheaper(x, z)
  <2>1. PICK i \in 1..6 : x[i] < y[i] /\ \A j \in 1..(i - 1) : x[j] = y[j]
    BY <1>2 DEF Cheaper
  <2>2. PICK k \in 1..6 : y[k] < z[k] /\ \A j \in 1..(k - 1) : y[j] = z[j]
    BY <1>2 DEF Cheaper
  <2>3. \A j \in 1..6 : x[j] \in Int /\ y[j] \in Int /\ z[j] \in Int
    BY DEF Six
  <2>4. CASE i <= k
    <3>1. x[i] < z[i]
      BY <2>1, <2>2, <2>3, <2>4
    <3>2. \A j \in 1..(i - 1) : x[j] = z[j]
      BY <2>1, <2>2, <2>4
    <3>. QED
      BY <3>1, <3>2 DEF Cheaper
  <2>5. CASE k < i
    <3>1. x[k] < z[k]
      BY <2>1, <2>2, <2>3, <2>5
    <3>2. \A j \in 1..(k - 1) : x[j] = z[j]
      BY <2>1, <2>2, <2>5
    <3>. QED
      BY <3>1, <3>2 DEF Cheaper
  <2>. QED
    BY <2>4, <2>5
<1>3. ASSUME NEW x \in Six, NEW y \in Six, x # y PROVE Cheaper(x, y) \/ Cheaper(y, x)
  <2>1. PICK D : D = {i \in 1..6 : x[i] # y[i]}
    OBVIOUS
  <2>2. D \in SUBSET Nat /\ D # {}
    <3>1. \E i \in 1..6 : x[i] # y[i]
      BY <1>3 DEF Six
    <3>. QED
      BY <2>1, <3>1
  <2>3. PICK i \in D : \A j \in D : i <= j
    BY <2>2, LeastOfSome
  <2>4. i \in 1..6 /\ x[i] # y[i] /\ x[i] \in Int /\ y[i] \in Int
    BY <2>1 DEF Six
  <2>5. \A j \in 1..(i - 1) : x[j] = y[j]
    BY <2>1, <2>3, <2>4
  <2>6. CASE x[i] < y[i]
    BY <2>4, <2>5, <2>6 DEF Cheaper
  <2>7. CASE y[i] < x[i]
    BY <2>4, <2>5, <2>7 DEF Cheaper
  <2>. QED
    BY <2>4, <2>6, <2>7
<1>. QED
  BY <1>1, <1>2, <1>3

LEMMA GapIsInteger == ASSUME NEW a \in Int, NEW b \in Int PROVE Gap({a, b}) \in Int
<1>1. Max({a, b}) \in {a, b}
  <2>1. \E x \in {a, b} : \A y \in {a, b} : x >= y
    OBVIOUS
  <2>. QED
    BY <2>1 DEF Max
<1>2. Min({a, b}) \in {a, b}
  <2>1. \E x \in {a, b} : \A y \in {a, b} : x <= y
    OBVIOUS
  <2>. QED
    BY <2>1 DEF Min
<1>. QED
  BY <1>1, <1>2 DEF Gap

LEMMA BlockCostTyped ==
    ASSUME NEW st, NEW pool, Ranked(st, pool), NEW played, NEW b \in Block(pool), b # {}
    PROVE  /\ BlockCost(st, pool, played, b) \in Six
           /\ Cardinality(b) = 1 => BlockCost(st, pool, played, b)[1] = 1
           /\ Cardinality(b) # 1 => BlockCost(st, pool, played, b)[1] = 0
<1>1. \A a \in pool : st[a].elo \in Int /\ st[a].score \in Int
  BY DEF Ranked
<1>2. CASE Cardinality(b) = 1
  <2>1. PICK a : a = (CHOOSE x \in b : TRUE)
    OBVIOUS
  <2>2. PICK i, j : i = (IF st[a].bye THEN 1 ELSE 0) /\ j = Cardinality(pool) + 1 - Seed(st, pool, a)
    OBVIOUS
  <2>3. i \in Int
    BY <2>2
  <2>4. j \in Int
    <3>1. IsFiniteSet(pool) /\ IsFiniteSet({c \in pool : higher_seed(st, c, a)})
      BY FS_Subset DEF Ranked
    <3>2. Cardinality(pool) \in Nat /\ Cardinality({c \in pool : higher_seed(st, c, a)}) \in Nat
      BY <3>1, FS_CardinalityType
    <3>. QED
      BY <2>2, <3>2 DEF Seed
  <2>5. BlockCost(st, pool, played, b) = <<1, i, j, 0, 0, 0>>
    BY <1>2, <2>1, <2>2 DEF BlockCost
  <2>. QED
    BY <1>2, <2>3, <2>4, <2>5 DEF Six
<1>3. CASE Cardinality(b) # 1
  <2>1. PICK x \in pool, y \in pool : b = {x, y}
    BY DEF Block
  <2>2. {st[a].elo : a \in b} = {st[x].elo, st[y].elo} /\ {st[a].score : a \in b} = {st[x].score, st[y].score}
    BY <2>1
  <2>3. PICK i, j, k : /\ i = IF b \in played THEN 1 ELSE 0
                       /\ j = Gap({st[a].elo : a \in b}) /\ k = Gap({st[a].score : a \in b})
    OBVIOUS
  <2>4. i \in Int /\ j \in Int /\ k \in Int
    <3>1. j \in Int
      BY <1>1, <2>2, <2>3, GapIsInteger
    <3>2. k \in Int
      BY <1>1, <2>2, <2>3, GapIsInteger
    <3>. QED
      BY <2>3, <3>1, <3>2
  <2>5. BlockCost(st, pool, played, b) = <<0, 0, 0, i, j, k>>
    BY <1>3, <2>3 DEF BlockCost
  <2>. QED
    BY <1>3, <2>4, <2>5 DEF Six
<1>. QED
  BY <1>2, <1>3

LEMMA CostTyped ==
    ASSUME NEW st, NEW pool, Ranked(st, pool), NEW played, NEW forbidden, NEW m \in Matchings(pool, forbidden)
    PROVE  Cost(st, pool, played, m) \in Six
<1>1. IsFiniteSet(pool)
  BY DEF Ranked
<1>2. IsFiniteSet(m) /\ \A b \in m : BlockCost(st, pool, played, b) \in Six
  BY <1>1, MatchingIs, BlockCostTyped
<1>3. ASSUME NEW i \in 1..6 PROVE Total([b \in m |-> BlockCost(st, pool, played, b)[i]]) \in Int
  <2>1. [b \in m |-> BlockCost(st, pool, played, b)[i]] \in [m -> Int]
    BY <1>2 DEF Six
  <2>. QED
    BY <1>2, <2>1, TotalIsInteger
<1>. QED
  BY <1>3 DEF Cost, Six

LEMMA CheapestThere ==
    ASSUME NEW st, NEW pool, Ranked(st, pool), NEW played, NEW forbidden,
           forbidden # {} \/ Cardinality(pool) % 2 = 0
    PROVE  /\ CheapestMatchings(st, pool, played, forbidden) # {}
           /\ CheapestMatchings(st, pool, played, forbidden) \subseteq Matchings(pool, forbidden)
<1>1. PICK all : all = Matchings(pool, forbidden)
  OBVIOUS
<1>2. all # {} /\ IsFiniteSet(all)
  BY <1>1, MatchingThere DEF Ranked
<1>3. PICK cost : cost = [m \in all |-> Cost(st, pool, played, m)]
  OBVIOUS
<1>4. \A m \in all : cost[m] \in Six
  BY <1>1, <1>3, CostTyped
<1>5. PICK R : R = {mo \in all \X all : Cheaper(cost[mo[1]], cost[mo[2]])}
  OBVIOUS
<1>6. \A m, o \in all : <<m, o>> \in R <=> Cheaper(cost[m], cost[o])
  BY <1>5
<1>7. Strict(R, all)
  BY <1>4, <1>6, CheaperOrders DEF Strict
<1>8. PICK m \in all : \A o \in all : <<o, m>> \notin R
  BY <1>2, <1>7, FirstOfSome
<1>9. CheapestMatchings(st, pool, played, forbidden) = {n \in all : \A o \in all : ~Cheaper(cost[o], cost[n])}
  BY <1>1, <1>3 DEF CheapestMatchings
<1>. QED
  BY <1>1, <1>6, <1>8, <1>9

-----------------------------------------------------------------------------
(* The search tries matchings in a linear order.                           *)
LEMMA BlockOfIs ==
    ASSUME NEW pool, IsFiniteSet(pool), NEW forbidden, NEW m \in Matchings(pool, forbidden), NEW a \in pool
    PROVE  /\ BlockOf(m, a) \in m /\ a \in BlockOf(m, a)
           /\ \A b \in m : a \in b => b = BlockOf(m, a)
<1>1. UNION m = pool /\ \A b, c \in m : b # c => b \cap c = {}
  BY MatchingIs
<1>2. \E b \in m : a \in b
  BY <1>1
<1>3. BlockOf(m, a) \in m /\ a \in BlockOf(m, a)
  BY <1>2 DEF BlockOf
<1>. QED
  BY <1>1, <1>3

(* Matchings with the same blocks are the same.                            *)
LEMMA MatchingsDiffer ==
    ASSUME NEW pool, IsFiniteSet(pool), NEW forbidden,
           NEW m \in Matchings(pool, forbidden), NEW o \in Matchings(pool, forbidden),
           \A a \in pool : BlockOf(m, a) = BlockOf(o, a)
    PROVE  m = o
<1>1. ASSUME NEW n \in Matchings(pool, forbidden), NEW b \in n
      PROVE  \E a \in pool : b = BlockOf(n, a)
  <2>1. b # {} /\ b \subseteq pool
    BY MatchingIs DEF Block
  <2>2. PICK a \in b : TRUE
    BY <2>1
  <2>. QED
    BY <2>1, <2>2, BlockOfIs
<1>2. m \subseteq o
  BY <1>1, BlockOfIs
<1>3. o \subseteq m
  BY <1>1, BlockOfIs
<1>. QED
  BY <1>2, <1>3

(* The blocks a player may be in, in the order they are tried.             *)
LEMMA TriedInOrder ==
    ASSUME NEW st, NEW pool, Ranked(st, pool), NEW played, NEW a \in pool
    PROVE  LET mine == {b \in Block(pool) : a \in b}
               first(b, c) == TriedBefore(st, pool, played, b, c)
           IN  /\ \A b \in mine : ~first(b, b)
               /\ \A b, c \in mine : b = c \/ first(b, c) \/ first(c, b)
               /\ \A b, c, d \in mine : first(b, c) /\ first(c, d) => first(b, d)
<1>. DEFINE mine == {b \in Block(pool) : a \in b}
            cost(b) == BlockCost(st, pool, played, b)
            other(b) == IF b = {a} THEN a ELSE CHOOSE x \in b : x # a
<1>1. ASSUME NEW b \in mine
      PROVE  /\ other(b) \in pool /\ b = {a, other(b)}
             /\ Cardinality(b) = 1 <=> other(b) = a
             /\ cost(b) \in Six
             /\ cost(b)[1] = IF other(b) = a THEN 1 ELSE 0
  <2>1. b \in SUBSET pool /\ a \in b /\ \E x, y \in b : b = {x, y}
    BY DEF Block
  <2>2. other(b) \in b /\ b = {a, other(b)}
    <3>1. CASE b = {a}
      BY <3>1
    <3>2. CASE b # {a}
      <4>1. \E x \in b : x # a
        BY <2>1, <3>2
      <4>2. other(b) \in b /\ other(b) # a
        BY <3>2, <4>1
      <4>. HIDE DEF other
      <4>. QED
        BY <2>1, <4>2
    <3>. QED
      BY <3>1, <3>2
  <2>. HIDE DEF other
  <2>3. Cardinality(b) = 1 <=> other(b) = a
    <3>1. PICK x : x = other(b)
      OBVIOUS
    <3>2. IsFiniteSet(pool)
      BY DEF Ranked
    <3>3. Cardinality(b) = 1 <=> \E y \in b : b = {y}
      BY <2>1, <3>2, BlocksAre
    <3>4. x \in b /\ b = {a, x}
      BY <2>2, <3>1
    <3>5. (\E y \in b : b = {y}) <=> x = a
      BY <3>4
    <3>. QED
      BY <3>1, <3>3, <3>5
  <2>4. b \in Block(pool) /\ b # {}
    BY <2>1
  <2>5. /\ cost(b) \in Six
        /\ Cardinality(b) = 1 => cost(b)[1] = 1
        /\ Cardinality(b) # 1 => cost(b)[1] = 0
    BY <2>4, BlockCostTyped
  <2>6. cost(b)[1] = IF other(b) = a THEN 1 ELSE 0
    <3>. HIDE DEF cost
    <3>. QED
      BY <2>3, <2>5
  <2>. HIDE DEF cost
  <2>. QED
    BY <2>1, <2>2, <2>3, <2>5, <2>6
<1>. HIDE DEF other
<1>2. ASSUME NEW b \in mine, NEW c \in mine
      PROVE  TriedBefore(st, pool, played, b, c) <=>
                \/ Cheaper(cost(b), cost(c))
                \/ cost(b) = cost(c) /\ higher_seed(st, other(b), other(c))
  <2>1. ASSUME cost(b) = cost(c)
        PROVE  (\E p \in b \ c : \A q \in c \ b : higher_seed(st, p, q)) <=> higher_seed(st, other(b), other(c))
    <3>1. b = {a, other(b)} /\ c = {a, other(c)} /\ other(b) \in pool /\ other(c) \in pool
      BY <1>1
    <3>2. other(b) = a <=> other(c) = a
      BY <1>1, <2>1
    <3>3. CASE other(b) = other(c)
      <4>1. b \ c = {}
        BY <3>1, <3>3
      <4>. QED
        BY <3>1, <3>3, <4>1, SeedsOrdered
    <3>4. CASE other(b) # other(c)
      <4>1. b \ c = {other(b)} /\ c \ b = {other(c)}
        BY <3>1, <3>2, <3>4
      <4>. QED
        BY <4>1
    <3>. QED
      BY <3>3, <3>4
  <2>. QED
    BY <2>1 DEF TriedBefore
<1>3. ASSUME NEW b \in mine, NEW c \in mine, b # c PROVE other(b) # other(c)
  BY <1>1, <1>3
<1>4. \A b \in mine : cost(b) \in Six /\ other(b) \in pool
  BY <1>1
<1>5. PICK M : M = mine
  OBVIOUS
<1>. HIDE DEF cost, mine
<1>6. \A b \in M : ~TriedBefore(st, pool, played, b, b)
  BY <1>2, <1>4, <1>5, CheaperOrders, SeedsOrdered
<1>7. \A b, c \in M : b = c \/ TriedBefore(st, pool, played, b, c) \/ TriedBefore(st, pool, played, c, b)
  BY <1>2, <1>3, <1>4, <1>5, CheaperOrders, SeedsOrdered
<1>8. ASSUME NEW b \in M, NEW c \in M, NEW d \in M,
             TriedBefore(st, pool, played, b, c), TriedBefore(st, pool, played, c, d)
      PROVE  TriedBefore(st, pool, played, b, d)
  <2>1. /\ Cheaper(cost(b), cost(c)) \/ (cost(b) = cost(c) /\ higher_seed(st, other(b), other(c)))
        /\ Cheaper(cost(c), cost(d)) \/ (cost(c) = cost(d) /\ higher_seed(st, other(c), other(d)))
    BY <1>2, <1>5, <1>8
  <2>2. Cheaper(cost(b), cost(d)) \/ (cost(b) = cost(d) /\ higher_seed(st, other(b), other(d)))
    BY <1>4, <1>5, <2>1, CheaperOrders, SeedsOrdered
  <2>. QED
    BY <1>2, <1>5, <2>2
<1>. QED
  BY <1>5, <1>6, <1>7, <1>8 DEF mine

LEMMA FoundInOrder ==
    ASSUME NEW st, NEW pool, Ranked(st, pool), NEW played, NEW forbidden
    PROVE  LET all == Matchings(pool, forbidden)
               first(m, o) == FoundBefore(st, pool, played, m, o)
           IN  /\ \A m \in all : ~first(m, m)
               /\ \A m, o \in all : m = o \/ first(m, o) \/ first(o, m)
               /\ \A m, o, n \in all : first(m, o) /\ first(o, n) => first(m, n)
<1>. DEFINE all == Matchings(pool, forbidden)
            first(m, o) == FoundBefore(st, pool, played, m, o)
            tried(b, c) == TriedBefore(st, pool, played, b, c)
            mine(a) == {b \in Block(pool) : a \in b}
<1>1. IsFiniteSet(pool)
  BY DEF Ranked
<1>2. \A m \in all, a \in pool : BlockOf(m, a) \in mine(a)
  BY <1>1, BlockOfIs, MatchingIs
<1>3. ASSUME NEW a \in pool
      PROVE  /\ \A b \in mine(a) : ~tried(b, b)
             /\ \A b, c \in mine(a) : b = c \/ tried(b, c) \/ tried(c, b)
             /\ \A b, c, d \in mine(a) : tried(b, c) /\ tried(c, d) => tried(b, d)
  BY TriedInOrder
<1>. HIDE DEF tried, mine, all
<1>4. \A m \in all : ~first(m, m)
  BY DEF FoundBefore
<1>5. ASSUME NEW m \in all, NEW o \in all, m # o PROVE first(m, o) \/ first(o, m)
  <2>1. PICK D : D = {a \in pool : BlockOf(m, a) # BlockOf(o, a)}
    OBVIOUS
  <2>2. D \in SUBSET pool /\ D # {}
    BY <1>1, <1>5, <2>1, MatchingsDiffer DEF all
  <2>3. PICK h \in D : \A b \in D \ {h} : higher_seed(st, h, b)
    BY <2>2, HighestAndLowest
  <2>4. \A b \in pool : higher_seed(st, b, h) => b \notin D
    BY <2>2, <2>3, SeedsOrdered
  <2>5. h \in pool /\ BlockOf(m, h) # BlockOf(o, h)
    BY <2>1
  <2>6. \A b \in pool : higher_seed(st, b, h) => BlockOf(m, b) = BlockOf(o, b)
    BY <2>1, <2>4
  <2>7. tried(BlockOf(m, h), BlockOf(o, h)) \/ tried(BlockOf(o, h), BlockOf(m, h))
    BY <1>2, <1>3, <2>5
  <2>. QED
    BY <2>5, <2>6, <2>7 DEF FoundBefore, tried
<1>6. ASSUME NEW m \in all, NEW o \in all, NEW n \in all, first(m, o), first(o, n)
      PROVE  first(m, n)
  <2>1. PICK a \in pool : /\ BlockOf(m, a) # BlockOf(o, a)
                          /\ \A b \in pool : higher_seed(st, b, a) => BlockOf(m, b) = BlockOf(o, b)
                          /\ tried(BlockOf(m, a), BlockOf(o, a))
    BY <1>6 DEF FoundBefore, tried
  <2>2. PICK c \in pool : /\ BlockOf(o, c) # BlockOf(n, c)
                          /\ \A b \in pool : higher_seed(st, b, c) => BlockOf(o, b) = BlockOf(n, b)
                          /\ tried(BlockOf(o, c), BlockOf(n, c))
    BY <1>6 DEF FoundBefore, tried
  <2>3. CASE higher_seed(st, a, c)
    <3>1. BlockOf(o, a) = BlockOf(n, a)
      BY <2>2, <2>3
    <3>2. \A b \in pool : higher_seed(st, b, a) => BlockOf(m, b) = BlockOf(n, b)
      BY <2>1, <2>2, <2>3, SeedsOrdered
    <3>. QED
      BY <2>1, <3>1, <3>2 DEF FoundBefore, tried
  <2>4. CASE higher_seed(st, c, a)
    <3>1. BlockOf(m, c) = BlockOf(o, c)
      BY <2>1, <2>4
    <3>2. \A b \in pool : higher_seed(st, b, c) => BlockOf(m, b) = BlockOf(n, b)
      BY <2>1, <2>2, <2>4, SeedsOrdered
    <3>. QED
      BY <2>2, <3>1, <3>2 DEF FoundBefore, tried
  <2>5. CASE a = c
    <3>1. \A b \in pool : higher_seed(st, b, a) => BlockOf(m, b) = BlockOf(n, b)
      BY <2>1, <2>2, <2>5
    <3>2. tried(BlockOf(m, a), BlockOf(n, a))
      BY <1>2, <1>3, <2>1, <2>2, <2>5
    <3>3. BlockOf(m, a) # BlockOf(n, a)
      BY <1>2, <1>3, <3>2
    <3>. QED
      BY <3>1, <3>2, <3>3 DEF FoundBefore, tried
  <2>. QED
    BY <2>3, <2>4, <2>5, SeedsOrdered
<1>. QED
  BY <1>4, <1>5, <1>6 DEF all

LEMMA BestMatchingIs ==
    ASSUME NEW st, NEW pool, Ranked(st, pool), NEW played, NEW forbidden,
           forbidden # {} \/ Cardinality(pool) % 2 = 0
    PROVE  BestMatching(st, pool, played, forbidden) \in Matchings(pool, forbidden)
<1>. DEFINE first(m, o) == FoundBefore(st, pool, played, m, o)
<1>1. PICK best : best = CheapestMatchings(st, pool, played, forbidden)
  OBVIOUS
<1>2. best # {} /\ best \subseteq Matchings(pool, forbidden)
  BY <1>1, CheapestThere
<1>3. IsFiniteSet(best)
  BY <1>2, MatchingThere, FS_Subset DEF Ranked
<1>4. PICK R : R = {mo \in best \X best : first(mo[1], mo[2])}
  OBVIOUS
<1>5. \A m, o \in best : <<m, o>> \in R <=> first(m, o)
  BY <1>4
<1>6. Linear(R, best)
  BY <1>2, <1>5, FoundInOrder DEF Linear, Strict
<1>7. \E m \in best : \A o \in best \ {m} : first(m, o)
  BY <1>2, <1>3, <1>5, <1>6, FirstOfAll
<1>8. BestMatching(st, pool, played, forbidden) \in best
  BY <1>1, <1>7 DEF BestMatching
<1>. QED
  BY <1>2, <1>8

-----------------------------------------------------------------------------
(* Blocks without overlap, and a list of all elements of a set, each once. *)
Apart(pool, m) == /\ IsFiniteSet(m)
                  /\ \A b \in m : b \in SUBSET pool /\ b # {}
                  /\ \A b, c \in m : b # c => b \cap c = {}
Lists(s, n, S) == /\ n \in Nat /\ s \in [1..n -> S]
                  /\ \A c \in S : \E i \in 1..n : s[i] = c
                  /\ \A i, j \in 1..n : s[i] = s[j] => i = j

(* Sorting blocks by their higher seeds keeps every block, once.           *)
LEMMA SortedIs ==
    ASSUME NEW st, NEW pool, Ranked(st, pool), NEW m, Apart(pool, m)
    PROVE  Lists(Sorted(st, m), Cardinality(m), m)
<1>0. /\ IsFiniteSet(m)
      /\ \A b \in m : b \in SUBSET pool /\ b # {}
      /\ \A b, c \in m : b # c => b \cap c = {}
  BY DEF Apart
<1>. DEFINE before(b, c) == higher_seed(st, Highest(st, b), Highest(st, c))
            Ahead(b) == {c \in m : before(c, b)}
            rank(b) == Cardinality(Ahead(b))
<1>1. PICK n : n = Cardinality(m)
  OBVIOUS
<1>2. n \in Nat
  BY <1>0, <1>1, FS_CardinalityType
<1>3. \A b \in m : Highest(st, b) \in b /\ Highest(st, b) \in pool
  BY <1>0, HighestAndLowest
<1>4. /\ \A b \in m : ~before(b, b)
      /\ \A b, c \in m : b # c => before(b, c) \/ before(c, b)
      /\ \A b, c, d \in m : before(b, c) /\ before(c, d) => before(b, d)
  <2>1. \A b, c \in m : b # c => Highest(st, b) # Highest(st, c)
    BY <1>0, <1>3
  <2>. QED
    BY <1>3, <2>1, SeedsOrdered
<1>. HIDE DEF before
<1>5. ASSUME NEW b \in m PROVE IsFiniteSet(Ahead(b)) /\ rank(b) \in Nat /\ rank(b) < n
  <2>1. IsFiniteSet(m \ {b}) /\ Cardinality(m \ {b}) = n - 1
    BY <1>0, <1>1, FS_RemoveElement
  <2>2. Ahead(b) \subseteq m \ {b}
    BY <1>4
  <2>3. IsFiniteSet(Ahead(b)) /\ rank(b) <= n - 1
    BY <2>1, <2>2, FS_Subset
  <2>4. rank(b) \in Nat
    BY <2>3, FS_CardinalityType
  <2>. HIDE DEF rank
  <2>. QED
    BY <1>2, <2>3, <2>4
<1>6. ASSUME NEW b \in m, NEW c \in m, before(b, c) PROVE rank(b) < rank(c)
  <2>1. Ahead(b) \subseteq Ahead(c) /\ b \in Ahead(c) /\ b \notin Ahead(b)
    BY <1>4, <1>6
  <2>2. rank(b) <= rank(c) /\ rank(b) # rank(c)
    BY <1>5, <2>1, FS_Subset
  <2>3. rank(b) \in Nat /\ rank(c) \in Nat
    BY <1>5
  <2>. HIDE DEF rank
  <2>. QED
    BY <2>2, <2>3
<1>7. \A b, c \in m : rank(b) = rank(c) => b = c
  <2>. SUFFICES ASSUME NEW b \in m, NEW c \in m, b # c PROVE rank(b) # rank(c)
    OBVIOUS
  <2>1. before(b, c) \/ before(c, b)
    BY <1>4
  <2>2. rank(b) \in Nat /\ rank(c) \in Nat
    BY <1>5
  <2>3. rank(b) < rank(c) \/ rank(c) < rank(b)
    BY <1>6, <2>1
  <2>. HIDE DEF rank
  <2>. QED
    BY <2>2, <2>3
<1>8. \A i \in 1..n : \E b \in m : rank(b) = i - 1
  <2>1. PICK F : F = [b \in m |-> rank(b) + 1]
    OBVIOUS
  <2>2. F \in Injection(m, 1..n)
    <3>1. \A b \in m : rank(b) \in Nat /\ rank(b) < n
      BY <1>5
    <3>. HIDE DEF rank
    <3>2. F \in [m -> 1..n]
      BY <1>2, <2>1, <3>1
    <3>3. \A b, c \in m : F[b] = F[c] => b = c
      BY <1>7, <2>1, <3>1
    <3>. QED
      BY <3>2, <3>3 DEF Injection, IsInjective
  <2>3. IsFiniteSet(1..n) /\ Cardinality(1..n) = n
    BY <1>2, FS_Interval
  <2>4. F \in Surjection(m, 1..n)
    BY <1>0, <1>1, <2>2, <2>3, FS_Injection
  <2>5. \A i \in 1..n : \E b \in m : F[b] = i
    BY <2>4 DEF Surjection
  <2>6. \A b \in m : rank(b) \in Nat /\ F[b] = rank(b) + 1
    BY <1>5, <2>1
  <2>. HIDE DEF rank
  <2>7. ASSUME NEW i \in 1..n PROVE \E b \in m : rank(b) = i - 1
    <3>1. PICK b \in m : F[b] = i
      BY <2>5
    <3>2. PICK k : k = rank(b)
      OBVIOUS
    <3>3. k \in Nat /\ i = k + 1
      BY <2>6, <3>1, <3>2
    <3>. QED
      BY <3>2, <3>3
  <2>. QED
    BY <2>7
<1>9. PICK S : S = Sorted(st, m)
  OBVIOUS
<1>10. S = [i \in 1..n |-> CHOOSE b \in m : rank(b) = i - 1]
  BY <1>1, <1>9 DEF Sorted, before
<1>. HIDE DEF rank
<1>11. \A i \in 1..n : S[i] \in m /\ rank(S[i]) = i - 1
  BY <1>8, <1>10
<1>12. S \in [1..n -> m]
  BY <1>10, <1>11
<1>13. ASSUME NEW b \in m PROVE \E i \in 1..n : S[i] = b
  <2>1. PICK k : k = rank(b)
    OBVIOUS
  <2>2. k \in Nat /\ k < n
    BY <1>5, <2>1
  <2>3. PICK i \in 1..n : i = k + 1
    BY <1>2, <2>2
  <2>4. i - 1 = k
    BY <2>2, <2>3
  <2>5. rank(S[i]) = rank(b) /\ S[i] \in m
    BY <1>11, <2>1, <2>4
  <2>. QED
    BY <1>7, <2>5
<1>14. ASSUME NEW i \in 1..n, NEW j \in 1..n, S[i] = S[j] PROVE i = j
  <2>1. i - 1 = j - 1
    BY <1>11, <1>14
  <2>. QED
    BY <1>2, <2>1
<1>. QED
  BY <1>1, <1>2, <1>9, <1>12, <1>13, <1>14 DEF Lists

(* Who sits where in a block.                                              *)
LEMMA SeatedIs ==
    ASSUME NEW st, NEW pool, Ranked(st, pool), NEW b \in Block(pool), b # {}
    PROVE  LET w == Seated(st, b)[1]
               x == Seated(st, b)[2]
           IN  /\ Seated(st, b) = <<w, x>>
               /\ w \in b /\ w \in pool /\ w # x
               /\ IF b = {w} THEN x = 0 ELSE x \in b /\ b = {w, x}
<1>1. PICK w : w = assign_colors(st, b)
  OBVIOUS
<1>2. b \in SUBSET pool /\ \E x, y \in b : b = {x, y}
  BY DEF Block
<1>3. w \in b /\ w \in Nat \ {0}
  BY <1>1, <1>2, WhiteIsOne DEF Ranked
<1>4. CASE b = {w}
  <2>1. Seated(st, b) = <<w, 0>>
    BY <1>1, <1>4 DEF Seated
  <2>. QED
    BY <1>2, <1>3, <1>4, <2>1
<1>5. CASE b # {w}
  <2>1. PICK x : x = CHOOSE a \in b \ {w} : TRUE
    OBVIOUS
  <2>2. \E a : a \in b \ {w}
    BY <1>3, <1>5
  <2>3. x \in b /\ x # w
    BY <2>1, <2>2
  <2>4. b = {w, x}
    BY <1>2, <1>3, <2>3
  <2>5. Seated(st, b) = <<w, x>>
    BY <1>1, <1>5, <2>1 DEF Seated
  <2>. QED
    BY <1>2, <1>3, <1>5, <2>3, <2>4, <2>5
<1>. QED
  BY <1>4, <1>5

-----------------------------------------------------------------------------
(* A list of all of A followed by a list of all of B.                      *)
Disjoint(A, B) == A \cap B = {}
Joined(s, a, b, x, y, S) == /\ s \in [1..a + b -> S]
                            /\ \A i \in 1..a + b : s[i] = IF i <= a THEN x[i] ELSE y[i - a]
Begins(s, a, n, A) == \A i \in 1..n : s[i] \in A <=> i <= a

LEMMA ConcatIs ==
    ASSUME NEW S, NEW a \in Nat, NEW b \in Nat, NEW s \in [1..a -> S], NEW t \in [1..b -> S]
    PROVE  s \o t \in Seq(S) /\ Joined(s \o t, a, b, s, t, S)
<1>1. s \in Seq(S) /\ t \in Seq(S) /\ Len(s) = a /\ Len(t) = b
  OBVIOUS
<1>2. s \o t \in Seq(S) /\ Len(s \o t) = a + b
  BY <1>1
<1>3. \A i \in 1..a + b : (s \o t)[i] = IF i <= a THEN s[i] ELSE t[i - a]
  BY <1>1
<1>4. \A q \in Seq(S) : q \in [1..Len(q) -> S]
  OBVIOUS
<1>5. s \o t \in [1..a + b -> S]
  <2>. PICK q : q = s \o t
    OBVIOUS
  <2>1. q \in [1..Len(q) -> S] /\ Len(q) = a + b
    BY <1>2, <1>4
  <2>. QED
    BY <2>1
<1>. QED
  BY <1>2, <1>3, <1>5 DEF Joined

LEMMA JoinIs ==
    ASSUME NEW A, NEW B, Disjoint(A, B), NEW a, NEW b, NEW x, NEW y, Lists(x, a, A), Lists(y, b, B),
           NEW s, Joined(s, a, b, x, y, A \cup B)
    PROVE  Lists(s, a + b, A \cup B) /\ Begins(s, a, a + b, A)
<1>. a \in Nat /\ b \in Nat
  BY DEF Lists
<1>3. s \in [1..a + b -> A \cup B] /\ \A i \in 1..a + b : s[i] = IF i <= a THEN x[i] ELSE y[i - a]
  BY DEF Joined
<1>4. ASSUME NEW c \in A \cup B PROVE \E i \in 1..a + b : s[i] = c
  <2>1. CASE c \in A
    <3>1. PICK i \in 1..a : x[i] = c
      BY <2>1 DEF Lists
    <3>2. i \in 1..a + b /\ s[i] = c
      BY <1>3, <3>1
    <3>. QED
      BY <3>2
  <2>2. CASE c \in B
    <3>1. PICK i \in 1..b : y[i] = c
      BY <2>2 DEF Lists
    <3>2. a + i \in 1..a + b /\ ~(a + i <= a) /\ (a + i) - a = i
      OBVIOUS
    <3>3. s[a + i] = c
      BY <1>3, <3>1, <3>2
    <3>. QED
      BY <3>2, <3>3
  <2>. QED
    BY <2>1, <2>2
<1>5. ASSUME NEW i \in 1..a + b
      PROVE  /\ i <= a => i \in 1..a /\ s[i] = x[i] /\ s[i] \in A
             /\ ~(i <= a) => i - a \in 1..b /\ s[i] = y[i - a] /\ s[i] \in B
  <2>1. i <= a => i \in 1..a
    OBVIOUS
  <2>2. ~(i <= a) => i - a \in 1..b
    OBVIOUS
  <2>3. \A k \in 1..a : x[k] \in A
    BY DEF Lists
  <2>4. \A k \in 1..b : y[k] \in B
    BY DEF Lists
  <2>. QED
    BY <1>3, <2>1, <2>2, <2>3, <2>4
<1>6. \A i \in 1..a + b : s[i] \in A <=> i <= a
  BY <1>5 DEF Disjoint
<1>7. ASSUME NEW i \in 1..a + b, NEW j \in 1..a + b, s[i] = s[j] PROVE i = j
  <2>1. CASE i <= a
    <3>1. j <= a
      BY <1>6, <1>7, <2>1
    <3>2. i \in 1..a /\ j \in 1..a /\ x[i] = x[j]
      BY <1>5, <1>7, <2>1, <3>1
    <3>. QED
      BY <3>2 DEF Lists
  <2>2. CASE ~(i <= a)
    <3>1. ~(j <= a)
      BY <1>6, <1>7, <2>2
    <3>2. i - a \in 1..b /\ j - a \in 1..b /\ y[i - a] = y[j - a]
      BY <1>5, <1>7, <2>2, <3>1
    <3>3. i - a = j - a
      BY <3>2 DEF Lists
    <3>. QED
      BY <3>3
  <2>. QED
    BY <2>1, <2>2
<1>8. Lists(s, a + b, A \cup B)
  BY <1>3, <1>4, <1>7 DEF Lists
<1>. QED
  BY <1>6, <1>8 DEF Begins

(* Two sorted groups of blocks, one after the other.                       *)
LEMMA TwoGroups ==
    ASSUME NEW st, NEW pool, Ranked(st, pool), NEW A, NEW B, Apart(pool, A \cup B), A \cap B = {},
           NEW s, s = Sorted(st, A) \o Sorted(st, B)
    PROVE  \E a, n \in Nat :
             /\ a = Cardinality(A) /\ n = a + Cardinality(B)
             /\ Lists(s, n, A \cup B) /\ s \in Seq(A \cup B) /\ Len(s) = n
             /\ Begins(s, a, n, A)
<1>1. PICK x, y, a, b : x = Sorted(st, A) /\ y = Sorted(st, B) /\ a = Cardinality(A) /\ b = Cardinality(B)
  OBVIOUS
<1>2. Apart(pool, A) /\ Apart(pool, B)
  <2>1. IsFiniteSet(A) /\ IsFiniteSet(B)
    BY FS_Subset DEF Apart
  <2>. QED
    BY <2>1 DEF Apart
<1>3. Lists(x, a, A) /\ Lists(y, b, B)
  BY <1>1, <1>2, SortedIs
<1>4. a \in Nat /\ b \in Nat
  BY <1>3 DEF Lists
<1>5. PICK n \in Nat : n = a + b
  BY <1>4
<1>6. s = x \o y
  BY <1>1
<1>7. s \in Seq(A \cup B) /\ Len(s) = n /\ Joined(s, a, b, x, y, A \cup B)
  <2>. PICK S : S = A \cup B
    OBVIOUS
  <2>1. x \in [1..a -> S] /\ y \in [1..b -> S]
    BY <1>3 DEF Lists
  <2>2. x \o y \in Seq(S) /\ Joined(x \o y, a, b, x, y, S)
    BY <1>4, <2>1, ConcatIs
  <2>3. Len(x \o y) = a + b
    <3>1. x \in Seq(S) /\ y \in Seq(S) /\ Len(x) = a /\ Len(y) = b
      BY <1>4, <2>1
    <3>. QED
      BY <3>1
  <2>. QED
    BY <1>5, <1>6, <2>2, <2>3
<1>8. Disjoint(A, B)
  BY DEF Disjoint
<1>9. Lists(s, n, A \cup B) /\ Begins(s, a, n, A)
  <2>1. Lists(s, a + b, A \cup B) /\ Begins(s, a, a + b, A)
    BY <1>3, <1>7, <1>8, JoinIs, Zenon
  <2>. QED
    BY <1>5, <2>1
<1>. QED
  BY <1>1, <1>4, <1>5, <1>7, <1>9

(* The blocks of a round: a whole field, cut into legal blocks without     *)
(* overlap.                                                                *)
InBlocks(st, pool, played, forbidden) ==
    \E n \in Nat, m \in SUBSET Block(pool) :
        /\ Apart(pool, m) /\ UNION m = pool
        /\ \A b \in m : Cardinality(b) # 1 => b \notin forbidden
        /\ \E bl : /\ Lists(bl, n, m)
                   /\ pair_swiss_round(st, pool, played, forbidden) = [i \in 1..n |-> Seated(st, bl[i])]

LEMMA RoundBlocks ==
    ASSUME NEW st, NEW pool, Ranked(st, pool), pool # {}, NEW played, NEW forbidden
    PROVE  InBlocks(st, pool, played, forbidden)
<1>1. PICK odd, byer, q, m, single :
        /\ odd = (Cardinality(pool) % 2 = 1 /\ forbidden = {})
        /\ byer = IF odd THEN {ByePlayer(st, pool)} ELSE {}
        /\ q = pool \ byer
        /\ m = BestMatching(st, q, played, forbidden)
        /\ single = {b \in m : Cardinality(b) = 1}
  OBVIOUS
<1>2. PICK A, B : A = m \ single /\ B = (IF odd THEN {byer} ELSE single)
  OBVIOUS
<1>3. PICK bl : bl = Sorted(st, A) \o Sorted(st, B)
  OBVIOUS
<1>4. pair_swiss_round(st, pool, played, forbidden) = [i \in DOMAIN bl |-> Seated(st, bl[i])]
  BY <1>1, <1>2, <1>3 DEF pair_swiss_round
<1>5. IsFiniteSet(pool) /\ Cardinality(pool) \in Nat
  BY FS_CardinalityType DEF Ranked
<1>6. ByePlayer(st, pool) \in pool
  <2>1. PICK S : S = (LET fresh == {a \in pool : ~st[a].bye} IN IF fresh = {} THEN pool ELSE fresh)
    OBVIOUS
  <2>2. S \in SUBSET pool /\ S # {}
    BY <2>1
  <2>3. ByePlayer(st, pool) = Lowest(st, S)
    BY <2>1 DEF ByePlayer
  <2>. QED
    BY <2>2, <2>3, HighestAndLowest
<1>7. Ranked(st, q) /\ IsFiniteSet(q)
  BY <1>1, <1>5, FS_Subset DEF Ranked
<1>8. forbidden # {} \/ Cardinality(q) % 2 = 0
  <2>1. CASE odd
    <3>1. q = pool \ {ByePlayer(st, pool)}
      BY <1>1, <2>1
    <3>2. Cardinality(q) = Cardinality(pool) - 1
      BY <1>5, <1>6, <3>1, FS_RemoveElement
    <3>3. Cardinality(pool) % 2 = 1
      BY <1>1, <2>1
    <3>. QED
      BY <1>5, <3>2, <3>3
  <2>2. CASE ~odd /\ forbidden = {}
    <3>1. q = pool /\ Cardinality(pool) % 2 # 1
      BY <1>1, <2>2
    <3>. QED
      BY <1>5, <3>1
  <2>. QED
    BY <1>1, <2>1, <2>2
<1>9. m \in Matchings(q, forbidden)
  BY <1>1, <1>7, <1>8, BestMatchingIs
<1>10. /\ m \subseteq Block(q) /\ IsFiniteSet(m) /\ UNION m = q
       /\ \A b, c \in m : b # c => b \cap c = {}
       /\ \A b \in m : /\ b # {} /\ IsFiniteSet(b)
                       /\ Cardinality(b) # 1 => \E x, y \in b : x # y /\ b = {x, y} /\ b \notin forbidden
       /\ forbidden = {} => \A b \in m : Cardinality(b) = 2
  BY <1>7, <1>9, MatchingIs
<1>11. Block(q) \subseteq Block(pool)
  BY <1>1 DEF Block
<1>12. /\ A \cup B \in SUBSET Block(pool) /\ UNION (A \cup B) = pool /\ A \cap B = {}
       /\ Apart(pool, A \cup B)
       /\ \A b \in A \cup B : Cardinality(b) # 1 => b \notin forbidden
  <2>1. CASE odd
    <3>1. PICK p \in pool : byer = {p} /\ q = pool \ {p}
      BY <1>1, <1>6, <2>1
    <3>2. A = m /\ B = {{p}} /\ forbidden = {}
      <4>0. forbidden = {}
        BY <1>1, <2>1
      <4>1. single = {}
        <5>1. \A b \in m : Cardinality(b) = 2
          BY <1>10, <4>0
        <5>2. \A b \in m : Cardinality(b) # 1
          BY <5>1
        <5>. QED
          BY <1>1, <5>2
      <4>. QED
        BY <1>1, <1>2, <2>1, <3>1, <4>0, <4>1
    <3>3. {p} \in Block(pool)
      BY DEF Block
    <3>4. A \cup B \in SUBSET Block(pool)
      BY <1>10, <1>11, <3>2, <3>3
    <3>5. UNION (A \cup B) = pool
      BY <1>10, <3>1, <3>2
    <3>6. \A b \in m : p \notin b
      BY <1>10, <3>1
    <3>7. A \cap B = {} /\ \A b, c \in A \cup B : b # c => b \cap c = {}
      <4>1. \A b, c \in m : b # c => b \cap c = {}
        BY <1>10
      <4>2. {p} \notin m
        BY <3>6
      <4>3. \A b \in m : b \cap {p} = {} /\ {p} \cap b = {}
        BY <3>6
      <4>4. A \cap B = {}
        BY <3>2, <4>2
      <4>5. \A b \in A \cup B : b \in m \/ b = {p}
        BY <3>2
      <4>6. \A b, c \in A \cup B : b # c => b \cap c = {}
        BY <4>1, <4>3, <4>5
      <4>. QED
        BY <4>4, <4>6
    <3>8. IsFiniteSet(A \cup B)
      BY <1>10, <3>2, FS_AddElement
    <3>9. \A b \in A \cup B : b \in SUBSET pool /\ b # {}
      BY <1>10, <3>2, <3>4 DEF Block
    <3>. QED
      BY <3>2, <3>4, <3>5, <3>7, <3>8, <3>9 DEF Apart
  <2>2. CASE ~odd
    <3>1. q = pool /\ A \cup B = m /\ A \cap B = {}
      BY <1>1, <1>2, <2>2
    <3>2. \A b \in m : b \in SUBSET pool /\ b # {}
      BY <1>10, <3>1 DEF Block
    <3>3. \A b \in m : Cardinality(b) # 1 => b \notin forbidden
      BY <1>10
    <3>. QED
      BY <1>10, <3>1, <3>2, <3>3 DEF Apart
  <2>. QED
    BY <2>1, <2>2
<1>13. \E a, n \in Nat : Lists(bl, n, A \cup B) /\ bl \in Seq(A \cup B) /\ Len(bl) = n
  <2>1. \E a, n \in Nat :
             /\ a = Cardinality(A) /\ n = a + Cardinality(B)
             /\ Lists(bl, n, A \cup B) /\ bl \in Seq(A \cup B) /\ Len(bl) = n
             /\ Begins(bl, a, n, A)
    BY <1>3, <1>12, TwoGroups, Zenon
  <2>. QED
    BY <2>1, Zenon
<1>14. PICK n \in Nat : Lists(bl, n, A \cup B) /\ DOMAIN bl = 1..n
  BY <1>13 DEF Lists
<1>. QED
  BY <1>4, <1>12, <1>14 DEF InBlocks

(* What a round of pairs is for a field: everybody sits in exactly one     *)
(* pair, or has the bye (0), nobody meets himself, and nobody meets a      *)
(* player he may not meet again.                                           *)
Sitting(e) == {e[1], e[2]} \ {0}
PairsField(pairs, pool, forbidden) ==
    /\ pairs \in Seq(pool \X (pool \cup {0}))
    /\ \A i \in DOMAIN pairs : pairs[i][1] # pairs[i][2] /\ (pairs[i][2] # 0 => Sitting(pairs[i]) \notin forbidden)
    /\ \A p \in pool : \E i \in DOMAIN pairs : p \in Sitting(pairs[i])
    /\ \A i, j \in DOMAIN pairs : i # j => Sitting(pairs[i]) \cap Sitting(pairs[j]) = {}

(* The Swiss pairing pairs the whole field, whatever the ratings, scores,  *)
(* colours, earlier games and forbidden pairs, and however large the field *)
(* (pair_swiss_round, src/tournament/swiss.cpp).                           *)
THEOREM SwissPairsField ==
    ASSUME NEW st, NEW pool, Ranked(st, pool), NEW played, NEW forbidden
    PROVE  PairsField(pair_swiss_round(st, pool, played, forbidden), pool, forbidden)
<1>0. pool \subseteq Nat \ {0} /\ IsFiniteSet(pool)
  BY DEF Ranked
<1>1. CASE pool = {}
  <2>1. pair_swiss_round(st, pool, played, forbidden) = <<>>
    BY <1>1 DEF pair_swiss_round
  <2>2. PICK e : e = <<>>
    OBVIOUS
  <2>3. DOMAIN e = {} /\ e \in Seq(pool \X (pool \cup {0}))
    BY <2>2
  <2>4. PairsField(e, pool, forbidden)
    BY <1>1, <2>3 DEF PairsField
  <2>. QED
    BY <2>1, <2>2, <2>4
<1>2. CASE pool # {}
  <2>1. PICK n \in Nat, m \in SUBSET Block(pool) :
             /\ Apart(pool, m) /\ UNION m = pool
             /\ \A b \in m : Cardinality(b) # 1 => b \notin forbidden
             /\ \E bl : /\ Lists(bl, n, m)
                        /\ pair_swiss_round(st, pool, played, forbidden) = [i \in 1..n |-> Seated(st, bl[i])]
    <3>1. InBlocks(st, pool, played, forbidden)
      BY <1>2, RoundBlocks
    <3>. QED
      BY <3>1 DEF InBlocks
  <2>2. PICK bl : /\ Lists(bl, n, m)
                  /\ pair_swiss_round(st, pool, played, forbidden) = [i \in 1..n |-> Seated(st, bl[i])]
    BY <2>1
  <2>3. PICK pairs : pairs = pair_swiss_round(st, pool, played, forbidden)
    OBVIOUS
  <2>4. \A i \in 1..n : bl[i] \in m /\ bl[i] \in Block(pool) /\ bl[i] # {} /\ bl[i] \in SUBSET pool
    BY <2>1, <2>2 DEF Lists, Apart
  <2>5. ASSUME NEW i \in 1..n
        PROVE  /\ pairs[i] \in pool \X (pool \cup {0})
               /\ Sitting(pairs[i]) = bl[i] /\ pairs[i][1] # pairs[i][2]
               /\ pairs[i][2] # 0 => bl[i] \notin forbidden
    <3>1. PICK w, x : w = Seated(st, bl[i])[1] /\ x = Seated(st, bl[i])[2]
      OBVIOUS
    <3>2. /\ pairs[i] = <<w, x>> /\ w \in bl[i] /\ w \in pool /\ w # x
          /\ IF bl[i] = {w} THEN x = 0 ELSE x \in bl[i] /\ bl[i] = {w, x}
      BY <2>2, <2>3, <2>4, <3>1, SeatedIs
    <3>3. CASE bl[i] = {w}
      BY <1>0, <3>2, <3>3 DEF Sitting
    <3>4. CASE bl[i] # {w}
      <4>1. x \in pool /\ bl[i] = {w, x} /\ w # x
        BY <2>4, <3>2, <3>4
      <4>2. Cardinality(bl[i]) # 1
        BY <1>0, <2>4, <4>1, BlocksAre
      <4>3. bl[i] \notin forbidden
        BY <2>1, <2>4, <4>2
      <4>4. w # 0 /\ x # 0
        BY <1>0, <3>2, <4>1
      <4>. QED
        BY <3>2, <4>1, <4>3, <4>4 DEF Sitting
    <3>. QED
      BY <3>3, <3>4
  <2>6. DOMAIN pairs = 1..n /\ pairs = [i \in 1..n |-> Seated(st, bl[i])]
    BY <2>2, <2>3
  <2>7. pairs \in Seq(pool \X (pool \cup {0}))
    <3>. PICK P : P = pool \X (pool \cup {0})
      OBVIOUS
    <3>1. \A i \in 1..n : pairs[i] \in P
      BY <2>5
    <3>2. pairs \in [1..n -> P]
      BY <2>6, <3>1
    <3>. QED
      BY <3>2
  <2>8. ASSUME NEW p \in pool PROVE \E i \in DOMAIN pairs : p \in Sitting(pairs[i])
    <3>1. PICK b \in m : p \in b
      BY <2>1
    <3>2. PICK i \in 1..n : bl[i] = b
      BY <2>2 DEF Lists
    <3>. QED
      BY <2>5, <2>6, <3>1, <3>2
  <2>9. ASSUME NEW i \in DOMAIN pairs, NEW j \in DOMAIN pairs, i # j
        PROVE  Sitting(pairs[i]) \cap Sitting(pairs[j]) = {}
    <3>1. i \in 1..n /\ j \in 1..n
      BY <2>6
    <3>2. bl[i] # bl[j] /\ bl[i] \in m /\ bl[j] \in m
      BY <2>2, <2>4, <2>9, <3>1 DEF Lists
    <3>3. bl[i] \cap bl[j] = {}
      BY <2>1, <3>2 DEF Apart
    <3>. QED
      BY <2>5, <3>1, <3>3
  <2>10. \A i \in DOMAIN pairs : pairs[i][1] # pairs[i][2] /\ (pairs[i][2] # 0 => Sitting(pairs[i]) \notin forbidden)
    BY <2>5, <2>6
  <2>11. PairsField(pairs, pool, forbidden)
    BY <2>7, <2>8, <2>9, <2>10 DEF PairsField
  <2>. QED
    BY <2>3, <2>11
<1>. QED
  BY <1>1, <1>2

-----------------------------------------------------------------------------
(* The manager.  What its local states are.                                *)
CreatorStates == {Idle} \cup [step : {"write", "advance"}, pairing : Pairings,
                              res : GameResults \cup {"double_forfeit"}]
GameStates == [step : {"playing", "advance", "done"}] \cup [step : {"saved", "write"}, res : GameResults]
Entries == Players \X (Players \cup {NoBlack})
Verdicts == Pairings \X {"1-0", "0-1", "double_forfeit"}
Opening == {"status", "round", "deal"}
TickStates ==
    [step : {"idle"}] \cup [step : Opening \cup {"recompute", "checkins", "advance"}, round : Rounds]
      \cup [step : {"insert"}, round : Rounds, todo : Seq(Entries) \ {<<>>}]
      \cup [step : {"pairings"}, round : Rounds, checked : SUBSET Players]
      \cup [step : {"forfeit"}, round : Rounds, todo : Seq(Verdicts)]

LocalStates == /\ IsFiniteSet(Pairings)
               /\ creator \in CreatorStates
               /\ \A pr \in DOMAIN game : game[pr] \in GameStates
               /\ tick \in TickStates

(* A round after the first has pairings only when it has begun and its     *)
(* deal is over, so a round is never dealt on top of its own pairings;     *)
(* while a pass opens a round, the round has begun.                        *)
Begun(r) == round_status[r] \in {"live", "completed"}
DealtOnce ==
    /\ tick.step \in Opening \cup {"insert"} => Begun(tick.round)
    /\ \A r \in Rounds : r > 1 /\ InRound(result, r) # {} =>
            Begun(r) /\ ~(tick.step \in Opening /\ tick.round = r)

(* Nobody enters or leaves once a round has begun or pairings exist.       *)
FieldClosed ==
    /\ earliest_start_at[1] = FirstStart
    /\ Pairings # {} \/ (\E q \in Rounds : Begun(q)) => RegistrationEnds <= now
    /\ Pairings # {} \/ tick.step = "insert" => entered # {}

EventInv == TypeOK /\ RoundsInOrder /\ LocalStates /\ DealtOnce /\ FieldClosed

(* The greater and the lesser of two numbers, a sequence of a finite set.  *)
LEMMA OfTwo ==
    ASSUME NEW a \in Int, NEW b \in Int
    PROVE  /\ Max({a, b}) \in {a, b} /\ Max({a, b}) >= a /\ Max({a, b}) >= b
           /\ Min({a, b}) \in {a, b} /\ Min({a, b}) <= a /\ Min({a, b}) <= b
<1>1. \E x \in {a, b} : \A y \in {a, b} : x >= y
  OBVIOUS
<1>2. \E x \in {a, b} : \A y \in {a, b} : x <= y
  OBVIOUS
<1>3. Max({a, b}) \in {a, b} /\ \A y \in {a, b} : Max({a, b}) >= y
  BY <1>1 DEF Max
<1>4. Min({a, b}) \in {a, b} /\ \A y \in {a, b} : Min({a, b}) <= y
  BY <1>2 DEF Min
<1>. QED
  BY <1>3, <1>4

LEMMA SequenceOf ==
    ASSUME NEW S, IsFiniteSet(S)
    PROVE  SetToSeq(S) \in Seq(S) /\ Len(SetToSeq(S)) = Cardinality(S)
<1>1. PICK n : n = Cardinality(S)
  OBVIOUS
<1>2. n \in Nat /\ ExistsBijection(1..n, S)
  BY <1>1, FS_CardinalityType
<1>3. \E f \in [1..n -> S] : IsInjective(f)
  BY <1>2 DEF ExistsBijection, Bijection, Injection
<1>4. SetToSeq(S) \in [1..n -> S]
  BY <1>1, <1>3 DEF SetToSeq
<1>. QED
  BY <1>1, <1>2, <1>4

(* What a round is dealt from: the replays, then a Swiss round of the      *)
(* others who are still in.                                                *)
Replays(r, res) ==
    IF format = "winners_advance" /\ r > 1
    THEN {pr \in InRound(res, r - 1) : res[pr] = Draw /\ ~DrawCap(DrawsOf(res, r - 1, Pair(pr)))}
    ELSE {}
Pool(r, res) ==
    IF format = "winners_advance" /\ r > 1 THEN NotReplaying(Advancing(res, r), Replays(r, res)) ELSE entered
Capped(res) ==
    IF format = "winners_advance"
    THEN {m \in {Pair(pr) : pr \in {q \in DOMAIN res : q.black # NoBlack}} : DrawCap(DrawsOf(res, MaxRounds, m))}
    ELSE {}
Reversed(rows) == {<<pr.black, pr.white>> : pr \in rows}

LEMMA DealParts ==
    ASSUME TypeOK, IsFiniteSet(Pairings), NEW r \in Rounds, NEW res, res = result \/ res = <<>>
    PROVE  /\ Pool(r, res) \subseteq entered /\ Replays(r, res) \subseteq Pairings
           /\ \A pr \in Replays(r, res) : pr \in DOMAIN res /\ res[pr] = Draw /\ pr.white \in Players /\ pr.black \in Players
           /\ IsFiniteSet(Reversed(Replays(r, res)))
           /\ \E t : /\ PairsField(t, Pool(r, res), Capped(res))
                     /\ Deal(r, res) = SetToSeq(Reversed(Replays(r, res))) \o t
<1>1. /\ IsFiniteSet(Players) /\ Players \subseteq Nat \ {0} /\ Elo \in [Players -> Nat]
  BY EntryAssumption
<1>2. /\ DOMAIN res \subseteq Pairings
      /\ \A pr \in DOMAIN res : pr.white \in Players /\ (res[pr] = Draw => pr.black \in Players)
  <2>1. CASE res = result
    BY <2>1 DEF TypeOK, Pairings, PairingRows, Draw, NoBlack
  <2>2. CASE res = <<>>
    <3>1. DOMAIN res = {}
      BY <2>2
    <3>. QED
      BY <3>1
  <2>. QED
    BY <2>1, <2>2
<1>3. PICK replays, pool, met, capped, standing :
        /\ replays = Replays(r, res) /\ pool = Pool(r, res) /\ capped = Capped(res)
        /\ met = {Pair(pr) : pr \in {q \in DOMAIN res : q.black # NoBlack}}
        /\ standing = [p \in pool |-> [elo |-> Elo[p], score |-> totals[p].score,
                                       whites |-> totals[p].whites, bye |-> totals[p].bye]]
  OBVIOUS
<1>4. PICK R, t : R = Reversed(replays) /\ t = pair_swiss_round(standing, pool, met, capped)
  OBVIOUS
<1>5. Deal(r, res) = SetToSeq(R) \o t
  BY <1>3, <1>4 DEF Deal, Replays, Pool, Capped, Reversed
<1>6. pool \subseteq entered /\ pool \subseteq Players /\ replays \subseteq DOMAIN res /\ \A pr \in replays : res[pr] = Draw
  BY <1>3 DEF TypeOK, NotReplaying, Advancing, InRound, Pool, Replays
<1>7. Ranked(standing, pool)
  <2>1. IsFiniteSet(pool)
    BY <1>1, <1>6, FS_Subset
  <2>2. \A p \in pool : Elo[p] \in Nat /\ totals[p].score \in Nat /\ totals[p].whites \in Nat
    BY <1>1, <1>6 DEF TypeOK
  <2>3. standing = [p \in pool |-> [elo |-> Elo[p], score |-> totals[p].score,
                                   whites |-> totals[p].whites, bye |-> totals[p].bye]]
    BY <1>3
  <2>4. \A p \in pool : standing[p].elo \in Int /\ standing[p].score \in Int /\ standing[p].whites \in Int
    BY <2>2, <2>3
  <2>5. pool \subseteq Nat \ {0}
    BY <1>1, <1>6
  <2>. QED
    BY <2>1, <2>4, <2>5 DEF Ranked
<1>8. PairsField(t, pool, capped)
  BY <1>4, <1>7, SwissPairsField
<1>9. IsFiniteSet(R)
  <2>1. R \subseteq Players \X Players
    BY <1>2, <1>4, <1>6 DEF Reversed
  <2>2. IsFiniteSet(Players \X Players)
    BY <1>1, FS_Product
  <2>. QED
    BY <2>1, <2>2, FS_Subset
<1>. QED
  BY <1>2, <1>3, <1>4, <1>5, <1>6, <1>8, <1>9

LEMMA DealIs ==
    ASSUME TypeOK, IsFiniteSet(Pairings), NEW r \in Rounds, NEW res, res = result \/ res = <<>>
    PROVE  /\ Deal(r, res) \in Seq(Entries)
           /\ r = 1 /\ entered # {} => Deal(r, res) # <<>>
<1>1. PICK R, pool, t :
        /\ R = Reversed(Replays(r, res)) /\ pool = Pool(r, res)
        /\ PairsField(t, pool, Capped(res)) /\ Deal(r, res) = SetToSeq(R) \o t
  BY DealParts
<1>2. R \subseteq Entries /\ IsFiniteSet(R) /\ pool \subseteq Players
  <2>1. IsFiniteSet(R) /\ pool \subseteq entered
    BY <1>1, DealParts
  <2>2. \A pr \in Replays(r, res) : <<pr.black, pr.white>> \in Entries
    BY DealParts DEF Entries
  <2>3. R \subseteq Entries
    BY <1>1, <2>2 DEF Reversed
  <2>. QED
    BY <2>1, <2>3 DEF TypeOK
<1>3. SetToSeq(R) \in Seq(Entries)
  BY <1>2, SequenceOf
<1>4. t \in Seq(Entries)
  <2>1. t \in Seq(pool \X (pool \cup {0}))
    BY <1>1 DEF PairsField
  <2>2. pool \X (pool \cup {0}) \subseteq Entries
    BY <1>2 DEF Entries, NoBlack
  <2>. QED
    BY <2>1, <2>2
<1>5. ASSUME r = 1, entered # {} PROVE t # <<>>
  <2>1. pool # {}
    BY <1>1, <1>5 DEF Pool
  <2>2. \E i : i \in DOMAIN t
    BY <1>1, <2>1 DEF PairsField
  <2>. QED
    BY <2>2
<1>6. PICK s : s = SetToSeq(R)
  OBVIOUS
<1>7. \A x, y \in Seq(Entries) : x \o y \in Seq(Entries) /\ (y # <<>> => x \o y # <<>>)
  OBVIOUS
<1>. QED
  BY <1>1, <1>3, <1>4, <1>5, <1>7

LEMMA TotalsTyped ==
    ASSUME NEW res, IsFiniteSet(DOMAIN res)
    PROVE  Totals(res) \in [Players -> [score : Nat, whites : Nat, bye : BOOLEAN]]
<1>1. \A S \in SUBSET DOMAIN res : Cardinality(S) \in Nat
  BY FS_Subset, FS_CardinalityType
<1>2. ASSUME NEW p
      PROVE  /\ 2 * Cardinality(Wins(p, res)) + Cardinality(Draws(p, res)) \in Nat
             /\ Cardinality({pr \in DOMAIN res : pr.white = p /\ pr.black # NoBlack /\ res[pr] # "pending"}) \in Nat
  <2>1. Wins(p, res) \subseteq DOMAIN res /\ Draws(p, res) \subseteq DOMAIN res
    BY DEF Wins, Draws
  <2>2. Cardinality(Wins(p, res)) \in Nat /\ Cardinality(Draws(p, res)) \in Nat
    BY <1>1, <2>1
  <2>. QED
    BY <1>1, <2>2
<1>3. \A p : (\E pr \in DOMAIN res : pr.white = p /\ res[pr] = "bye") \in BOOLEAN
  OBVIOUS
<1>. QED
  BY <1>2, <1>3 DEF Totals

(* A result is written into its row and nowhere else.                      *)
LEMMA RecordIs ==
    ASSUME TypeOK, IsFiniteSet(Pairings), NEW pr \in Pairings,
           NEW res \in GameResults \cup {"double_forfeit"},
           pr.black # NoBlack, Record(pr, res)
    PROVE  /\ Pairings' = Pairings /\ IsFiniteSet(Pairings')
           /\ \A p \in Pairings : result'[p] = IF p = pr THEN res ELSE result[p]
           /\ \A p \in Pairings' : result'[p] \in Results /\ (result'[p] = "bye" <=> p.black = NoBlack)
           /\ totals' \in [Players -> [score : Nat, whites : Nat, bye : BOOLEAN]]
           /\ \A r \in Rounds : InRound(result', r) = InRound(result, r)
<1>1. result' = [result EXCEPT ![pr] = res]
  BY DEF Record
<1>2. Pairings' = Pairings /\ DOMAIN result' = DOMAIN result
  BY <1>1 DEF Pairings
<1>3. \A p \in Pairings : result'[p] = IF p = pr THEN res ELSE result[p]
  BY <1>1 DEF Pairings
<1>4. res \in Results /\ res # "bye"
  BY DEF Results, GameResults, Decisive, Draw
<1>5. \A p \in Pairings' : result'[p] \in Results /\ (result'[p] = "bye" <=> p.black = NoBlack)
  BY <1>2, <1>3, <1>4 DEF TypeOK
<1>6. totals' \in [Players -> [score : Nat, whites : Nat, bye : BOOLEAN]]
  <2>1. IsFiniteSet(DOMAIN result')
    BY <1>2 DEF Pairings
  <2>2. totals' = Totals(result')
    BY DEF Record
  <2>. QED
    BY <2>1, <2>2, TotalsTyped
<1>. QED
  BY <1>2, <1>3, <1>5, <1>6 DEF InRound

(* What set_pairing_result lets through is a new result of a played game   *)
(* or no change.                                                           *)
LEMMA CanRecordIs ==
    ASSUME TypeOK, NEW pr \in Pairings, NEW res \in GameResults \cup {"double_forfeit"}, CanRecord(pr, res)
    PROVE  pr.black # NoBlack
BY DEF CanRecord, TypeOK, GameResults, Decisive, Draw

(* New rows keep the old ones.                                             *)
LEMMA InsertIs ==
    ASSUME TypeOK, IsFiniteSet(Pairings), NEW r \in Rounds, NEW pairs \in SUBSET Entries,
           result' = Insert(result, r, pairs)
    PROVE  /\ Pairings' = Pairings \cup {Row(r, e) : e \in pairs}
           /\ Pairings \subseteq Pairings' /\ IsFiniteSet(Pairings') /\ Pairings' \subseteq PairingRows
           /\ \A p \in Pairings : result'[p] = result[p]
           /\ \A p \in Pairings' : result'[p] \in Results /\ (result'[p] = "bye" <=> p.black = NoBlack)
           /\ \A q \in Rounds : q # r => InRound(result', q) = InRound(result, q)
<1>1. PICK new : new = {Row(r, e) : e \in pairs}
  OBVIOUS
<1>2. new \subseteq PairingRows /\ \A p \in new : p.round = r
  BY <1>1 DEF Row, PairingRows, Entries
<1>3. result' = [pr \in Pairings \cup new |-> IF pr \in Pairings THEN result[pr] ELSE FirstResult(pr)]
  BY <1>1 DEF Insert, Pairings
<1>4. Pairings' = Pairings \cup new /\ DOMAIN result' = Pairings'
  BY <1>3 DEF Pairings
<1>5. \A p \in Pairings' : result'[p] = IF p \in Pairings THEN result[p] ELSE FirstResult(p)
  BY <1>3, <1>4
<1>6. \A p \in Pairings' : result'[p] \in Results /\ (result'[p] = "bye" <=> p.black = NoBlack)
  <2>1. \A p \in Pairings : result[p] \in Results /\ (result[p] = "bye" <=> p.black = NoBlack)
    BY DEF TypeOK
  <2>2. \A p : FirstResult(p) \in Results /\ (FirstResult(p) = "bye" <=> p.black = NoBlack)
    BY DEF FirstResult, Results
  <2>. QED
    BY <1>5, <2>1, <2>2
<1>7. IsFiniteSet(Pairings')
  <2>1. IsFiniteSet(Players \cup {NoBlack}) /\ IsFiniteSet(Players)
    BY EntryAssumption, FS_AddElement
  <2>2. IsFiniteSet({r} \X (Players \X (Players \cup {NoBlack})))
    BY <2>1, FS_Product, FS_Singleton
  <2>3. PICK F : F = [p \in new |-> <<r, <<p.white, p.black>>>>]
    OBVIOUS
  <2>4. F \in Injection(new, {r} \X (Players \X (Players \cup {NoBlack})))
    <3>1. F \in [new -> {r} \X (Players \X (Players \cup {NoBlack}))]
      BY <1>2, <2>3 DEF PairingRows
    <3>2. \A p, q \in new : F[p] = F[q] => p = q
      BY <1>2, <2>3 DEF PairingRows
    <3>. QED
      BY <3>1, <3>2 DEF Injection, IsInjective
  <2>5. IsFiniteSet(new)
    BY <2>2, <2>4, FS_Injection
  <2>. QED
    BY <1>4, <2>5, FS_Union
<1>8. \A q \in Rounds : q # r => InRound(result', q) = InRound(result, q)
  BY <1>2, <1>4 DEF InRound, Pairings
<1>9. Pairings' \subseteq PairingRows
  BY <1>2, <1>4 DEF TypeOK
<1>. QED
  BY <1>1, <1>4, <1>5, <1>6, <1>7, <1>8, <1>9

LEMMA StatesGrow ==
    ASSUME Pairings \subseteq Pairings'
    PROVE  CreatorStates \subseteq CreatorStates' /\ TickStates \subseteq TickStates'
<1>1. Verdicts \subseteq Verdicts'
  BY DEF Verdicts
<1>2. Seq(Verdicts) \subseteq Seq(Verdicts')
  BY <1>1
<1>3. [step : {"forfeit"}, round : Rounds, todo : Seq(Verdicts)] \subseteq [step : {"forfeit"}, round : Rounds, todo : Seq(Verdicts')]
  BY <1>2
<1>4. TickStates \subseteq TickStates'
  BY <1>3 DEF TickStates, Entries, Opening
<1>. QED
  BY <1>4 DEF CreatorStates

(* Advancing ends a round that has only decided pairings and opens nothing *)
(* before its time.                                                        *)
RoundsKept == /\ round_status' \in [Rounds -> {"none", "scheduled", "live", "completed"}]
              /\ earliest_start_at' \in [Rounds -> Nat] /\ earliest_start_at'[1] = earliest_start_at[1]
              /\ rounds' \in Rounds /\ current_round' \in 0..MaxRounds + 1
              /\ \A q \in Rounds : round_status[q] = "completed" => round_status'[q] = "completed"
              /\ \A q \in Rounds : Begun(q) => Begun(q)'
              /\ \A q \in Rounds : Begun(q)' => Begun(q) \/ InRound(result, q) # {}

LEMMA MaybeAdvanceIs ==
    ASSUME TypeOK, NEW r \in Rounds, NEW cut \in Cuts, MaybeAdvance(r, cut)
    PROVE  RoundsKept /\ status' \in {status, "completed"}
<1>. Rounds = 1..MaxRounds /\ MaxRounds \in Nat /\ r \in Nat /\ r - 1 \in Nat
  BY LimitAssumption DEF Rounds
<1>1. /\ round_status \in [Rounds -> {"none", "scheduled", "live", "completed"}]
      /\ earliest_start_at \in [Rounds -> Nat] /\ rounds \in Rounds /\ current_round \in 0..MaxRounds + 1
      /\ now \in Nat
  BY DEF TypeOK
<1>2. CASE ~RoundComplete(r) \/ cut = "first"
  <2>1. UNCHANGED <<status, rounds, current_round, round_status, earliest_start_at>>
    BY <1>2 DEF MaybeAdvance, roundVars
  <2>. QED
    BY <1>1, <2>1 DEF RoundsKept, Begun
<1>3. CASE RoundComplete(r) /\ cut # "first"
  <2>1. InRound(result, r) # {}
    BY <1>3 DEF RoundComplete
  <2>2. /\ IF format = "winners_advance" /\ ~LastRound(r) /\ cut # "allocate"
           THEN AllocateRound(r + 1)
           ELSE round_status' = [round_status EXCEPT ![r] = "completed"] /\ UNCHANGED <<rounds, earliest_start_at>>
        /\ status' = IF cut = "none" /\ LastRound(r) THEN "completed" ELSE status
        /\ current_round' = IF cut = "none" /\ ~LastRound(r) THEN r + 1 ELSE current_round
    BY <1>3 DEF MaybeAdvance
  <2>3. current_round' \in 0..MaxRounds + 1 /\ status' \in {status, "completed"}
    BY <1>1, <2>2
  <2>4. CASE format = "winners_advance" /\ ~LastRound(r) /\ cut # "allocate"
    <3>1. r + 1 \in Rounds
      BY <1>3, <2>4 DEF MaybeAdvance, RoundToSpare
    <3>2. AllocateRound(r + 1)
      BY <2>2, <2>4
    <3>3. rounds' \in Rounds
      <4>1. rounds' = Max({rounds, r + 1})
        BY <3>2 DEF AllocateRound
      <4>2. rounds \in Int /\ r + 1 \in Int
        BY <1>1
      <4>3. rounds' \in {rounds, r + 1}
        BY <4>1, <4>2, OfTwo
      <4>. QED
        BY <1>1, <3>1, <4>3
    <3>4. EarliestRoundStart(r + 1) \in Nat
      <4>1. FirstStart \in Nat /\ Duration \in Nat
        BY ScheduleAssumption
      <4>2. (r + 1) - 1 \in Nat
        OBVIOUS
      <4>3. \A a, b \in Nat : a * b \in Nat
        OBVIOUS
      <4>4. PICK k : k = ((r + 1) - 1) * Duration
        OBVIOUS
      <4>5. k \in Nat
        BY <4>1, <4>2, <4>3, <4>4
      <4>6. EarliestRoundStart(r + 1) = FirstStart + k
        BY <4>4 DEF EarliestRoundStart
      <4>. QED
        BY <4>1, <4>5, <4>6
    <3>5. Max({now, EarliestRoundStart(r + 1)}) \in Nat
      <4>. PICK e : e = EarliestRoundStart(r + 1)
        OBVIOUS
      <4>1. now \in Int /\ e \in Int
        BY <1>1, <3>4
      <4>2. Max({now, e}) \in {now, e}
        BY <4>1, OfTwo
      <4>. QED
        BY <1>1, <3>4, <4>2
    <3>6. CASE round_status[r + 1] = "none"
      <4>1. /\ round_status' = [round_status EXCEPT ![r + 1] = "scheduled", ![(r + 1) - 1] = "completed"]
            /\ earliest_start_at' = [earliest_start_at EXCEPT ![r + 1] = Max({now, EarliestRoundStart(r + 1)})]
        BY <3>2, <3>6 DEF AllocateRound
      <4>2. (r + 1) - 1 = r /\ r + 1 # r /\ r + 1 # 1
        OBVIOUS
      <4>3. \A q \in Rounds : round_status'[q] = IF q = r THEN "completed" ELSE IF q = r + 1 THEN "scheduled" ELSE round_status[q]
        BY <1>1, <4>1, <4>2
      <4>4. round_status' \in [Rounds -> {"none", "scheduled", "live", "completed"}]
        BY <1>1, <4>1
      <4>5. earliest_start_at' \in [Rounds -> Nat] /\ earliest_start_at'[1] = earliest_start_at[1]
        <5>. PICK e : e = Max({now, EarliestRoundStart(r + 1)})
          OBVIOUS
        <5>1. e \in Nat /\ earliest_start_at' = [earliest_start_at EXCEPT ![r + 1] = e]
          BY <3>5, <4>1
        <5>2. 1 \in Rounds
          OBVIOUS
        <5>. QED
          BY <1>1, <4>2, <5>1, <5>2
      <4>. QED
        BY <2>1, <2>3, <3>3, <3>6, <4>3, <4>4, <4>5 DEF RoundsKept, Begun
    <3>7. CASE round_status[r + 1] # "none"
      <4>1. /\ round_status' = [round_status EXCEPT ![(r + 1) - 1] = "completed"]
            /\ UNCHANGED earliest_start_at
        BY <3>2, <3>7 DEF AllocateRound
      <4>2. (r + 1) - 1 = r
        OBVIOUS
      <4>3. \A q \in Rounds : round_status'[q] = IF q = r THEN "completed" ELSE round_status[q]
        BY <1>1, <4>1, <4>2
      <4>4. round_status' \in [Rounds -> {"none", "scheduled", "live", "completed"}]
        BY <1>1, <4>1
      <4>. QED
        BY <1>1, <2>1, <2>3, <3>3, <4>1, <4>3, <4>4 DEF RoundsKept, Begun
    <3>. QED
      BY <3>6, <3>7
  <2>5. CASE ~(format = "winners_advance" /\ ~LastRound(r) /\ cut # "allocate")
    <3>1. round_status' = [round_status EXCEPT ![r] = "completed"] /\ UNCHANGED <<rounds, earliest_start_at>>
      BY <2>2, <2>5
    <3>2. \A q \in Rounds : round_status'[q] = IF q = r THEN "completed" ELSE round_status[q]
      BY <1>1, <3>1
    <3>3. round_status' \in [Rounds -> {"none", "scheduled", "live", "completed"}]
      BY <1>1, <3>1
    <3>. QED
      BY <1>1, <2>1, <2>3, <3>1, <3>2, <3>3 DEF RoundsKept, Begun
  <2>. QED
    BY <2>4, <2>5
<1>. QED
  BY <1>2, <1>3

(* The order of the rounds outlives a step that keeps them and adds no     *)
(* pairings except to a round that has begun.                              *)
LEMMA OrderKept ==
    ASSUME TypeOK, RoundsInOrder,
           \A q \in Rounds : round_status[q] = "completed" => round_status'[q] = "completed",
           \A q \in Rounds : Begun(q)' => Begun(q) \/ InRound(result, q) # {},
           \A q \in Rounds : InRound(result', q) # {} => InRound(result, q) # {} \/ Begun(q) \/ q = 1
    PROVE  RoundsInOrder'
<1>1. Rounds = 1..MaxRounds /\ MaxRounds \in Nat
  BY LimitAssumption DEF Rounds
<1>2. ASSUME NEW q \in Rounds, NEW r \in Rounds, q < r,
             Begun(r)' \/ InRound(result', r) # {}
      PROVE  round_status'[q] = "completed"
  <2>1. Begun(r) \/ InRound(result, r) # {}
    BY <1>1, <1>2
  <2>2. round_status[q] = "completed"
    BY <1>2, <2>1 DEF RoundsInOrder, Begun
  <2>. QED
    BY <2>2
<1>. QED
  BY <1>2 DEF RoundsInOrder, Begun

-----------------------------------------------------------------------------
(* The steps of players, rooms and clock leave rounds, pairings and the    *)
(* pass alone.                                                             *)
LEMMA TablesUnmoved ==
    ASSUME RoundsInOrder, DealtOnce, UNCHANGED <<round_status, result, tick>>
    PROVE  RoundsInOrder' /\ DealtOnce'
BY DEF RoundsInOrder, DealtOnce, Begun, Opening, InRound

LEMMA FieldStays ==
    ASSUME FieldClosed, UNCHANGED <<earliest_start_at, result, tick, now>>,
           entered' = entered \/ now < RegistrationEnds, TypeOK, LocalStates, DealtOnce,
           UNCHANGED round_status
    PROVE  FieldClosed'
<1>1. RegistrationEnds \in Int
  <2>1. Deadline \in Int /\ FirstStart - Lead \in Int
    BY ScheduleAssumption
  <2>. QED
    BY <2>1, OfTwo DEF RegistrationEnds
<1>2. now \in Int
  BY DEF TypeOK
<1>3. tick.step = "insert" => \E q \in Rounds : Begun(q)
  BY DEF DealtOnce, LocalStates, TickStates, Opening
<1>. QED
  BY <1>1, <1>2, <1>3 DEF FieldClosed, Pairings, Begun

LEMMA LocalsStay ==
    ASSUME LocalStates, Pairings' = Pairings, UNCHANGED <<creator, tick>>,
           \A pr \in DOMAIN game' : game'[pr] \in GameStates
    PROVE  LocalStates'
<1>1. CreatorStates' = CreatorStates /\ TickStates' = TickStates
  BY DEF CreatorStates, TickStates, Verdicts, Opening, Entries
<1>. QED
  BY <1>1 DEF LocalStates, GameStates

LEMMA PlayersKeepEvent ==
    ASSUME EventInv, NEW p \in Players, NEW r \in Rounds, Join(p) \/ Leave(p) \/ CheckIn(p, r) \/ CheckOut(p, r)
    PROVE  EventInv'
<1>. TypeOK /\ RoundsInOrder /\ LocalStates /\ DealtOnce /\ FieldClosed
  BY DEF EventInv
<1>. UNCHANGED <<round_status, earliest_start_at, result, game, creator, tick>>
  BY DEF Join, Leave, CheckIn, CheckOut, roundVars, tableVars
<1>1. RoundsInOrder' /\ DealtOnce' /\ LocalStates'
  BY TablesUnmoved, LocalsStay DEF LocalStates, Pairings
<1>2. CASE Join(p) \/ Leave(p)
  <2>1. TypeOK'
    BY <1>2 DEF Join, Leave, TypeOK, Pairings, eventVars, roundVars
  <2>2. FieldClosed'
    BY <1>2, FieldStays DEF Join, Leave, RegistrationGate
  <2>. QED
    BY <1>1, <2>1, <2>2 DEF EventInv
<1>3. CASE CheckIn(p, r) \/ CheckOut(p, r)
  <2>1. UNCHANGED <<now, format, status, registration_open, rounds, current_round, entered, totals>>
    BY <1>3 DEF CheckIn, CheckOut, eventVars
  <2>2. checkins' \cup seat_allowed' \subseteq Rounds \X Players
    BY <1>3 DEF CheckIn, CheckOut, TypeOK
  <2>3. TypeOK'
    BY <2>1, <2>2 DEF TypeOK, Pairings
  <2>4. FieldClosed'
    BY <2>1, FieldStays
  <2>. QED
    BY <1>1, <2>3, <2>4 DEF EventInv
<1>. QED
  BY <1>2, <1>3

LEMMA RegistrationKeepsEvent ==
    ASSUME EventInv, NEW open \in BOOLEAN, SetRegistration(open) \/ TickClose \/ Time
    PROVE  EventInv'
<1>. TypeOK /\ RoundsInOrder /\ LocalStates /\ DealtOnce /\ FieldClosed
  BY DEF EventInv
<1>. UNCHANGED <<round_status, earliest_start_at, result, game, creator, tick>>
  BY DEF SetRegistration, TickClose, Time, roundVars, tableVars
<1>1. RoundsInOrder' /\ DealtOnce' /\ LocalStates'
  BY TablesUnmoved, LocalsStay DEF LocalStates, Pairings
<1>2. CASE Time
  <2>1. UNCHANGED <<format, status, registration_open, rounds, current_round, entered, totals, checkins, seat_allowed>>
        /\ now' = now + 1
    BY <1>2 DEF Time, eventVars, tableVars
  <2>2. TypeOK'
    BY <2>1 DEF TypeOK, Pairings
  <2>3. RegistrationEnds \in Int
    <3>1. Deadline \in Int /\ FirstStart - Lead \in Int
      BY ScheduleAssumption
    <3>. QED
      BY <3>1, OfTwo DEF RegistrationEnds
  <2>4. FieldClosed'
    BY <2>1, <2>3 DEF FieldClosed, TypeOK, Pairings, Begun
  <2>. QED
    BY <1>1, <2>2, <2>4 DEF EventInv
<1>3. CASE SetRegistration(open) \/ TickClose
  <2>1. /\ UNCHANGED <<now, format, rounds, current_round, entered, totals, checkins, seat_allowed>>
        /\ status' \in Statuses /\ registration_open' \in BOOLEAN
    BY <1>3 DEF SetRegistration, TickClose, tableVars, Statuses
  <2>2. TypeOK'
    BY <2>1 DEF TypeOK, Pairings
  <2>3. FieldClosed'
    BY <2>1, FieldStays
  <2>. QED
    BY <1>1, <2>2, <2>3 DEF EventInv
<1>. QED
  BY <1>2, <1>3

(* A game starts and ends.                                                 *)
LEMMA GamesKeepEvent ==
    ASSUME EventInv, NEW pr \in Pairings,
           \/ GameStarts(pr)
           \/ pr \in DOMAIN game /\ (LookUpPairing(pr) \/ \E res \in GameResults : GameOver(pr, res))
    PROVE  EventInv'
<1>. TypeOK /\ RoundsInOrder /\ LocalStates /\ DealtOnce /\ FieldClosed
  BY DEF EventInv
<1>1. UNCHANGED <<now, format, status, registration_open, rounds, current_round, round_status, earliest_start_at,
                  entered, totals, result, checkins, seat_allowed, creator, tick>>
  BY DEF GameStarts, LookUpPairing, GameOver, eventVars, roundVars, tableVars
<1>2. \A g \in DOMAIN game : game[g] \in GameStates
  BY DEF LocalStates
<1>3. DOMAIN game' \subseteq Pairings /\ \A g \in DOMAIN game' : game'[g] \in GameStates
  <2>1. CASE GameStarts(pr)
    BY <1>2, <2>1 DEF GameStarts, GameStates, TypeOK
  <2>2. CASE pr \in DOMAIN game /\ LookUpPairing(pr)
    <3>1. PICK g : g = game[pr]
      OBVIOUS
    <3>2. g \in [step : {"saved"}, res : GameResults]
      BY <1>2, <2>2, <3>1 DEF LookUpPairing, GameAt, GameStates
    <3>3. [g EXCEPT !.step = "write"] \in GameStates /\ Done \in GameStates
      BY <3>2 DEF GameStates, Done
    <3>4. game' = [game EXCEPT ![pr] = [g EXCEPT !.step = "write"]] \/ game' = [game EXCEPT ![pr] = Done]
      BY <2>2, <3>1 DEF LookUpPairing
    <3>. QED
      BY <1>2, <2>2, <3>3, <3>4 DEF TypeOK
  <2>3. ASSUME NEW res \in GameResults, pr \in DOMAIN game, GameOver(pr, res)
        PROVE  DOMAIN game' \subseteq Pairings /\ \A g \in DOMAIN game' : game'[g] \in GameStates
    <3>1. game' = [game EXCEPT ![pr] = [step |-> "saved", res |-> res]]
      BY <2>3 DEF GameOver
    <3>2. [step |-> "saved", res |-> res] \in GameStates
      BY DEF GameStates
    <3>. QED
      BY <1>2, <2>3, <3>1, <3>2 DEF TypeOK
  <2>. QED
    BY <2>1, <2>2, <2>3
<1>4. TypeOK'
  BY <1>1, <1>3 DEF TypeOK, Pairings
<1>5. RoundsInOrder' /\ DealtOnce'
  BY <1>1, TablesUnmoved
<1>6. LocalStates' /\ FieldClosed'
  BY <1>1, <1>3, LocalsStay, FieldStays DEF Pairings
<1>. QED
  BY <1>4, <1>5, <1>6 DEF EventInv

(* A step that may record one result, and changes at most local states     *)
(* besides.                                                                *)
LEMMA RecordingKeepsEvent ==
    ASSUME EventInv,
           UNCHANGED <<now, eventVars, roundVars, entered, checkins, seat_allowed>>,
           \/ UNCHANGED <<result, totals>>
           \/ \E pr \in Pairings, res \in GameResults \cup {"double_forfeit"} :
                pr.black # NoBlack /\ Record(pr, res),
           DOMAIN game' \subseteq Pairings, \A g \in DOMAIN game' : game'[g] \in GameStates,
           creator' \in CreatorStates, tick' \in TickStates,
           tick'.step \notin Opening \cup {"insert"} \/ UNCHANGED tick
    PROVE  EventInv'
<1>. TypeOK /\ RoundsInOrder /\ LocalStates /\ DealtOnce /\ FieldClosed
  BY DEF EventInv
<1>0. IsFiniteSet(Pairings)
  BY DEF LocalStates
<1>1. /\ Pairings' = Pairings
      /\ \A p \in Pairings' : result'[p] \in Results /\ (result'[p] = "bye" <=> p.black = NoBlack)
      /\ totals' \in [Players -> [score : Nat, whites : Nat, bye : BOOLEAN]]
      /\ \A r \in Rounds : InRound(result', r) = InRound(result, r)
  <2>1. CASE UNCHANGED <<result, totals>>
    BY <2>1 DEF TypeOK, Pairings, InRound
  <2>2. ASSUME NEW pr \in Pairings, NEW res \in GameResults \cup {"double_forfeit"},
               pr.black # NoBlack, Record(pr, res)
        PROVE  /\ Pairings' = Pairings
               /\ \A p \in Pairings' : result'[p] \in Results /\ (result'[p] = "bye" <=> p.black = NoBlack)
               /\ totals' \in [Players -> [score : Nat, whites : Nat, bye : BOOLEAN]]
               /\ \A r \in Rounds : InRound(result', r) = InRound(result, r)
    BY <1>0, <2>2, RecordIs
  <2>. QED
    BY <2>1, <2>2
<1>2. UNCHANGED <<now, format, status, registration_open, rounds, current_round, round_status,
                  earliest_start_at, entered, checkins, seat_allowed>>
  BY DEF eventVars, roundVars
<1>3. TypeOK'
  BY <1>1, <1>2 DEF TypeOK
<1>4. RoundsInOrder'
  BY <1>1, <1>2 DEF RoundsInOrder
<1>5. LocalStates'
  <2>1. CreatorStates' = CreatorStates /\ TickStates' = TickStates /\ GameStates' = GameStates
    BY <1>1 DEF CreatorStates, TickStates, Verdicts, GameStates, Opening, Entries
  <2>. QED
    BY <1>0, <1>1, <2>1 DEF LocalStates
<1>6. DealtOnce'
  BY <1>1, <1>2 DEF DealtOnce, Begun, Opening
<1>7. FieldClosed'
  BY <1>1, <1>2 DEF FieldClosed, Opening, Begun
<1>. QED
  BY <1>3, <1>4, <1>5, <1>6, <1>7 DEF EventInv

LEMMA GameResultKeepsEvent ==
    ASSUME EventInv, NEW pr \in Pairings, pr \in DOMAIN game, RecordGameResult(pr)
    PROVE  EventInv'
<1>. TypeOK /\ LocalStates
  BY DEF EventInv
<1>1. PICK g : g = game[pr]
  OBVIOUS
<1>2. g.step = "write" /\ g \in GameStates
  BY <1>1 DEF RecordGameResult, GameAt, LocalStates
<1>3. g.res \in GameResults
  BY <1>2 DEF GameStates
<1>4. \/ UNCHANGED <<result, totals>>
      \/ \E p \in Pairings, res \in GameResults \cup {"double_forfeit"} :
            p.black # NoBlack /\ Record(p, res)
  BY <1>1, <1>3, CanRecordIs DEF RecordGameResult
<1>5. game' = [game EXCEPT ![pr] = [step |-> "advance"]] \/ game' = [game EXCEPT ![pr] = Done]
  BY DEF RecordGameResult
<1>6. DOMAIN game' \subseteq Pairings /\ \A h \in DOMAIN game' : game'[h] \in GameStates
  <2>1. [step |-> "advance"] \in GameStates /\ Done \in GameStates
    BY DEF GameStates, Done
  <2>. QED
    BY <1>5, <2>1 DEF TypeOK, LocalStates
<1>7. UNCHANGED <<now, eventVars, roundVars, entered, checkins, seat_allowed, creator, tick>>
  BY DEF RecordGameResult
<1>8. creator' \in CreatorStates /\ tick' \in TickStates
  BY <1>7 DEF LocalStates
<1>. QED
  BY <1>4, <1>6, <1>7, <1>8, RecordingKeepsEvent

LEMMA CreatorIs ==
    ASSUME creator \in CreatorStates, creator.step # "idle"
    PROVE  creator.pairing \in Pairings /\ creator.res \in GameResults \cup {"double_forfeit"}
           /\ [creator EXCEPT !.step = "advance"] \in CreatorStates
           /\ [creator EXCEPT !.step = "advance"].step = "advance"
<1>1. PICK c : c = creator
  OBVIOUS
<1>2. c \in [step : {"write", "advance"}, pairing : Pairings, res : GameResults \cup {"double_forfeit"}]
  BY <1>1 DEF CreatorStates, Idle
<1>3. [c EXCEPT !.step = "advance"] \in [step : {"write", "advance"}, pairing : Pairings, res : GameResults \cup {"double_forfeit"}]
  BY <1>2
<1>4. [c EXCEPT !.step = "advance"].step = "advance"
  BY <1>2
<1>. QED
  BY <1>1, <1>2, <1>3, <1>4 DEF CreatorStates

LEMMA CorrectionKeepsEvent ==
    ASSUME EventInv,
           \/ OverrideWrite
           \/ \E pr \in Pairings, res \in GameResults \cup {"double_forfeit"} : OverrideCheck(pr, res)
    PROVE  EventInv'
<1>. TypeOK /\ LocalStates
  BY DEF EventInv
<1>1. creator \in CreatorStates /\ Idle \in CreatorStates
  BY DEF LocalStates, CreatorStates
<1>2. UNCHANGED <<now, eventVars, roundVars, entered, checkins, seat_allowed, game, tick>>
  BY DEF OverrideWrite, OverrideCheck, tableVars
<1>3. tick' \in TickStates /\ DOMAIN game' \subseteq Pairings /\ \A g \in DOMAIN game' : game'[g] \in GameStates
  BY <1>2 DEF LocalStates, TypeOK
<1>4. CASE OverrideWrite
  <2>1. creator.step # "idle"
    BY <1>4 DEF OverrideWrite
  <2>2. creator.pairing \in Pairings /\ creator.res \in GameResults \cup {"double_forfeit"}
        /\ [creator EXCEPT !.step = "advance"] \in CreatorStates
    BY <1>1, <2>1, CreatorIs
  <2>3. creator' \in CreatorStates
    BY <1>1, <1>4, <2>2 DEF OverrideWrite
  <2>4. \/ UNCHANGED <<result, totals>>
        \/ \E p \in Pairings, res \in GameResults \cup {"double_forfeit"} :
              p.black # NoBlack /\ Record(p, res)
    BY <1>4, <2>2 DEF OverrideWrite
  <2>. QED
    BY <1>2, <1>3, <2>3, <2>4, RecordingKeepsEvent
<1>5. ASSUME NEW pr \in Pairings, NEW res \in GameResults \cup {"double_forfeit"}, OverrideCheck(pr, res)
      PROVE  EventInv'
  <2>1. creator' \in CreatorStates
    BY <1>5 DEF OverrideCheck, CreatorStates
  <2>2. UNCHANGED <<result, totals>>
    BY <1>5 DEF OverrideCheck, tableVars
  <2>. QED
    BY <1>2, <1>3, <2>1, <2>2, RecordingKeepsEvent
<1>. QED
  BY <1>4, <1>5

(* A step that may advance the event, with its tables unmoved.             *)
LEMMA AdvancingKeepsEvent ==
    ASSUME EventInv, NEW r \in Rounds, NEW cut \in Cuts, MaybeAdvance(r, cut),
           UNCHANGED <<now, format, registration_open, tableVars, seat_allowed>>,
           DOMAIN game' \subseteq Pairings, \A g \in DOMAIN game' : game'[g] \in GameStates,
           creator' \in CreatorStates, tick' = Idle \/ tick' = tick
    PROVE  EventInv'
<1>. TypeOK /\ RoundsInOrder /\ LocalStates /\ DealtOnce /\ FieldClosed
  BY DEF EventInv
<1>1. RoundsKept /\ status' \in {status, "completed"}
  BY MaybeAdvanceIs
<1>2. UNCHANGED <<now, format, registration_open, entered, totals, result, checkins, seat_allowed>> /\ Pairings' = Pairings
  BY DEF tableVars, Pairings
<1>3. TypeOK'
  BY <1>1, <1>2 DEF TypeOK, RoundsKept, Statuses
<1>4. RoundsInOrder'
  BY <1>1, <1>2, OrderKept DEF RoundsKept
<1>5. LocalStates'
  <2>1. CreatorStates' = CreatorStates /\ TickStates' = TickStates /\ GameStates' = GameStates
    BY <1>2 DEF CreatorStates, TickStates, Verdicts, GameStates, Opening, Entries
  <2>2. tick' \in TickStates
    BY DEF LocalStates, TickStates, Idle
  <2>. QED
    BY <1>2, <2>1, <2>2 DEF LocalStates
<1>6. DealtOnce'
  <2>1. \A q \in Rounds : Begun(q) => Begun(q)'
    BY <1>1 DEF RoundsKept
  <2>2. tick'.step \in Opening \cup {"insert"} => tick' = tick /\ tick.round \in Rounds
    BY DEF Idle, Opening, LocalStates, TickStates
  <2>3. tick'.step \in Opening \cup {"insert"} => Begun(tick.round)'
    BY <2>1, <2>2 DEF DealtOnce, Begun, Opening
  <2>4. \A q \in Rounds : q > 1 /\ InRound(result', q) # {} =>
            Begun(q)' /\ ~(tick'.step \in Opening /\ tick'.round = q)
    BY <1>2, <2>1, <2>2 DEF DealtOnce
  <2>. QED
    BY <2>3, <2>4 DEF DealtOnce, Begun, Opening
<1>7. FieldClosed'
  <2>1. (\E q \in Rounds : Begun(q)') => Pairings # {} \/ \E q \in Rounds : Begun(q)
    BY <1>1 DEF RoundsKept, InRound, Pairings
  <2>. QED
    BY <1>1, <1>2, <2>1 DEF FieldClosed, RoundsKept, Begun, Idle
<1>. QED
  BY <1>3, <1>4, <1>5, <1>6, <1>7 DEF EventInv

LEMMA AdvanceStepsKeepEvent ==
    ASSUME EventInv,
           \/ TickAdvance
           \/ OverrideAdvance
           \/ \E pr \in Pairings : pr \in DOMAIN game /\ AdvanceAfterGame(pr)
    PROVE  EventInv'
<1>. TypeOK /\ LocalStates
  BY DEF EventInv
<1>1. Idle \in CreatorStates /\ creator \in CreatorStates /\ \A g \in DOMAIN game : game[g] \in GameStates
  BY DEF LocalStates, CreatorStates
<1>2. DOMAIN game \subseteq Pairings /\ \A pr \in Pairings : pr.round \in Rounds
  BY DEF TypeOK, PairingRows
<1>3. CASE TickAdvance
  <2>1. tick.round \in Rounds
    BY <1>3 DEF TickAdvance, At, LocalStates, TickStates, Opening
  <2>2. PICK cut \in Cuts : MaybeAdvance(tick.round, cut)
    BY <1>3 DEF TickAdvance
  <2>3. UNCHANGED <<now, format, registration_open, tableVars, seat_allowed, game, creator>> /\ tick' = Idle
    BY <1>3 DEF TickAdvance
  <2>. QED
    BY <1>1, <1>2, <2>1, <2>2, <2>3, AdvancingKeepsEvent
<1>4. CASE OverrideAdvance
  <2>1. creator.pairing \in Pairings
    BY <1>1, <1>4, CreatorIs DEF OverrideAdvance
  <2>2. PICK r \in Rounds : r = creator.pairing.round
    BY <1>2, <2>1
  <2>3. PICK cut \in Cuts : MaybeAdvance(r, cut)
    BY <1>4, <2>2 DEF OverrideAdvance
  <2>4. UNCHANGED <<now, format, registration_open, tableVars, seat_allowed, game, tick>> /\ creator' = Idle
    BY <1>4 DEF OverrideAdvance
  <2>. QED
    BY <1>1, <1>2, <2>3, <2>4, AdvancingKeepsEvent
<1>5. ASSUME NEW pr \in Pairings, pr \in DOMAIN game, AdvanceAfterGame(pr)
      PROVE  EventInv'
  <2>1. PICK cut \in Cuts : MaybeAdvance(pr.round, cut)
    BY <1>5 DEF AdvanceAfterGame
  <2>2. UNCHANGED <<now, format, registration_open, tableVars, seat_allowed, creator, tick>>
        /\ game' = [game EXCEPT ![pr] = Done]
    BY <1>5 DEF AdvanceAfterGame
  <2>3. DOMAIN game' \subseteq Pairings /\ \A g \in DOMAIN game' : game'[g] \in GameStates
    BY <1>1, <1>2, <2>2 DEF GameStates, Done
  <2>. QED
    BY <1>1, <1>2, <2>1, <2>2, <2>3, AdvancingKeepsEvent
<1>. QED
  BY <1>3, <1>4, <1>5

(* The pass: its quiet steps, those that judge no-shows, and those that    *)
(* open and deal a round.                                                  *)
LEMMA JudgingKeepsEvent ==
    ASSUME EventInv, NEW r \in Rounds, TickExpired(r) \/ TickCheckins \/ TickPairings \/ TickForfeit
    PROVE  EventInv'
<1>. TypeOK /\ LocalStates
  BY DEF EventInv
<1>1. UNCHANGED <<now, eventVars, roundVars, entered, checkins, seat_allowed, game, creator>>
  BY DEF TickExpired, TickCheckins, TickPairings, TickForfeit, tableVars
<1>2. creator' \in CreatorStates /\ DOMAIN game' \subseteq Pairings /\ \A g \in DOMAIN game' : game'[g] \in GameStates
  BY <1>1 DEF LocalStates, TypeOK
<1>3. tick \in TickStates /\ Idle \in TickStates
  BY DEF LocalStates, TickStates, Idle
<1>4. CASE TickExpired(r)
  <2>1. tick' \in TickStates /\ tick'.step \notin Opening \cup {"insert"} /\ UNCHANGED <<result, totals>>
    BY <1>4 DEF TickExpired, TickStates, Opening, tableVars
  <2>. QED
    BY <1>1, <1>2, <2>1, RecordingKeepsEvent
<1>5. CASE TickCheckins
  <2>1. tick.round \in Rounds
    BY <1>3, <1>5 DEF TickCheckins, At, TickStates, Opening
  <2>2. PICK checked \in SUBSET Players : tick' = [step |-> "pairings", round |-> tick.round, checked |-> checked]
    BY <1>5 DEF TickCheckins
  <2>3. tick' \in TickStates /\ tick'.step \notin Opening \cup {"insert"}
    BY <2>1, <2>2 DEF TickStates, Opening
  <2>4. UNCHANGED <<result, totals>>
    BY <1>5 DEF TickCheckins, tableVars
  <2>. QED
    BY <1>1, <1>2, <2>3, <2>4, RecordingKeepsEvent
<1>6. CASE TickPairings
  <2>1. tick.round \in Rounds
    BY <1>3, <1>6 DEF TickPairings, At, TickStates, Opening
  <2>2. PICK open : open = {pr \in InRound(result, tick.round) :
                              result[pr] = "pending" /\ Judge(pr, tick.checked) # "pending"}
    OBVIOUS
  <2>3. \E rows \in {open, {}} :
           tick' = [step |-> "forfeit", round |-> tick.round,
                    todo |-> SetToSeq({<<pr, Judge(pr, tick.checked)>> : pr \in rows})]
    BY <1>6, <2>2 DEF TickPairings
  <2>4. PICK rows \in {open, {}} :
           tick' = [step |-> "forfeit", round |-> tick.round,
                    todo |-> SetToSeq({<<pr, Judge(pr, tick.checked)>> : pr \in rows})]
    BY <2>3
  <2>5. PICK V : V = {<<pr, Judge(pr, tick.checked)>> : pr \in rows}
    OBVIOUS
  <2>6. V \subseteq Verdicts
    <3>1. \A pr \in rows : pr \in Pairings /\ Judge(pr, tick.checked) # "pending"
      BY <2>2 DEF InRound, Pairings
    <3>2. \A pr : Judge(pr, tick.checked) \in {"1-0", "0-1", "double_forfeit", "pending"}
      BY DEF Judge, no_show_result
    <3>. QED
      BY <2>5, <3>1, <3>2 DEF Verdicts
  <2>7. IsFiniteSet(V)
    <3>1. IsFiniteSet({"1-0", "0-1", "double_forfeit"})
      <4>1. IsFiniteSet({"1-0"})
        BY FS_Singleton
      <4>2. IsFiniteSet({"1-0"} \cup {"0-1"})
        BY <4>1, FS_AddElement
      <4>3. IsFiniteSet(({"1-0"} \cup {"0-1"}) \cup {"double_forfeit"})
        BY <4>2, FS_AddElement
      <4>4. ({"1-0"} \cup {"0-1"}) \cup {"double_forfeit"} = {"1-0", "0-1", "double_forfeit"}
        OBVIOUS
      <4>. QED
        BY <4>3, <4>4
    <3>2. IsFiniteSet(Verdicts)
      BY <3>1, FS_Product DEF Verdicts, LocalStates
    <3>. QED
      BY <2>6, <3>2, FS_Subset
  <2>8. SetToSeq(V) \in Seq(Verdicts)
    <3>1. SetToSeq(V) \in Seq(V)
      BY <2>7, SequenceOf
    <3>. QED
      BY <2>6, <3>1
  <2>9. tick' \in TickStates /\ tick'.step \notin Opening \cup {"insert"}
    BY <2>1, <2>4, <2>5, <2>8 DEF TickStates, Opening
  <2>10. UNCHANGED <<result, totals>>
    BY <1>6 DEF TickPairings, tableVars
  <2>. QED
    BY <1>1, <1>2, <2>9, <2>10, RecordingKeepsEvent
<1>7. CASE TickForfeit
  <2>1. tick \in [step : {"forfeit"}, round : Rounds, todo : Seq(Verdicts)]
    BY <1>3, <1>7 DEF TickForfeit, At, TickStates, Opening
  <2>2. CASE tick.todo = <<>>
    <3>1. tick' = [step |-> "advance", round |-> tick.round] /\ UNCHANGED <<result, totals>>
      BY <1>7, <2>2 DEF TickForfeit
    <3>2. tick' \in TickStates /\ tick'.step \notin Opening \cup {"insert"}
      BY <2>1, <3>1 DEF TickStates, Opening
    <3>. QED
      BY <1>1, <1>2, <3>1, <3>2, RecordingKeepsEvent
  <2>3. CASE tick.todo # <<>>
    <3>1. PICK pr \in Pairings, res \in {"1-0", "0-1", "double_forfeit"} : Head(tick.todo) = <<pr, res>>
      <4>1. Head(tick.todo) \in Verdicts
        BY <2>1, <2>3
      <4>. QED
        BY <4>1 DEF Verdicts
    <3>2. res \in GameResults \cup {"double_forfeit"}
      BY DEF GameResults, Decisive
    <3>3. PICK t : t = tick
      OBVIOUS
    <3>4. Tail(t.todo) \in Seq(Verdicts)
      BY <2>1, <2>3, <3>3
    <3>5. PICK u : u = [t EXCEPT !.todo = Tail(@)]
      OBVIOUS
    <3>6. u \in TickStates /\ u.step = "forfeit"
      BY <2>1, <3>3, <3>4, <3>5 DEF TickStates
    <3>7. \/ CanRecord(pr, res) /\ Record(pr, res) /\ tick' = u
          \/ tick' = Idle /\ UNCHANGED <<result, totals>>
      BY <1>7, <2>3, <3>1, <3>3, <3>5 DEF TickForfeit, TickAbort
    <3>8. tick' \in TickStates /\ tick'.step \notin Opening \cup {"insert"}
      BY <1>3, <3>6, <3>7 DEF Opening, Idle
    <3>9. \/ UNCHANGED <<result, totals>>
          \/ \E p \in Pairings, rs \in GameResults \cup {"double_forfeit"} : p.black # NoBlack /\ Record(p, rs)
      BY <3>2, <3>7, CanRecordIs
    <3>. QED
      BY <1>1, <1>2, <3>8, <3>9, RecordingKeepsEvent
  <2>. QED
    BY <2>2, <2>3
<1>. QED
  BY <1>4, <1>5, <1>6, <1>7

(* Round one is dealt at once.                                             *)
LEMMA EndOfRegistration == RegistrationEnds \in Int /\ RegistrationEnds <= FirstStart - Lead /\ Lead \in Nat
<1>1. Deadline \in Int /\ FirstStart - Lead \in Int /\ Lead \in Nat
  BY ScheduleAssumption
<1>. QED
  BY <1>1, OfTwo DEF RegistrationEnds

LEMMA PreviewKeepsEvent == EventInv /\ TickPreview => EventInv'
<1>. SUFFICES ASSUME EventInv, TickPreview PROVE EventInv'
  OBVIOUS
<1>. TypeOK /\ RoundsInOrder /\ LocalStates /\ DealtOnce /\ FieldClosed
  BY DEF EventInv
<1>. IsFiniteSet(Pairings)
  BY DEF LocalStates
<1>0. 1 \in Rounds
  BY FormatAssumption, LimitAssumption DEF Rounds
<1>1. UNCHANGED <<now, format, status, registration_open, rounds, current_round, round_status,
                  earliest_start_at, entered, checkins, seat_allowed, game, creator, tick>>
  BY DEF TickPreview, At, eventVars, roundVars
<1>2. PICK pairs : pairs = ToSet(Deal(1, result))
  OBVIOUS
<1>3. result' = Insert(result, 1, pairs) /\ totals' = Totals(result')
  BY <1>2 DEF TickPreview
<1>4. pairs \in SUBSET Entries
  BY <1>0, <1>2, DealIs DEF ToSet
<1>5. /\ Pairings \subseteq Pairings' /\ IsFiniteSet(Pairings') /\ Pairings' \subseteq PairingRows
      /\ \A p \in Pairings' : result'[p] \in Results /\ (result'[p] = "bye" <=> p.black = NoBlack)
      /\ \A q \in Rounds : q # 1 => InRound(result', q) = InRound(result, q)
  BY <1>0, <1>3, <1>4, InsertIs
<1>6. totals' \in [Players -> [score : Nat, whites : Nat, bye : BOOLEAN]]
  BY <1>3, <1>5, TotalsTyped DEF Pairings
<1>7. TypeOK'
  BY <1>1, <1>5, <1>6 DEF TypeOK
<1>8. RoundsInOrder'
  BY <1>1, <1>5, OrderKept DEF Begun
<1>9. LocalStates'
  <2>1. CreatorStates \subseteq CreatorStates' /\ TickStates \subseteq TickStates'
    BY <1>5, StatesGrow
  <2>. QED
    BY <1>1, <1>5, <2>1 DEF LocalStates, GameStates
<1>10. DealtOnce'
  BY <1>1, <1>5 DEF DealtOnce, Begun, Opening
<1>11. FieldClosed'
  <2>1. status = "scheduled" /\ FirstStart <= now + Lead /\ entered # {}
    BY FS_EmptySet DEF TickPreview, PreviewDue, FieldClosed
  <2>2. RegistrationEnds <= now
    BY <2>1, EndOfRegistration, ScheduleAssumption DEF TypeOK
  <2>. QED
    BY <1>1, <2>1, <2>2 DEF FieldClosed
<1>. QED
  BY <1>7, <1>8, <1>9, <1>10, <1>11 DEF EventInv

(* A round is claimed when the one before is over and its time has come.   *)
LEMMA ClaimKeepsEvent == ASSUME EventInv, NEW r \in Rounds, TickClaim(r) PROVE EventInv'
<1>. TypeOK /\ RoundsInOrder /\ LocalStates /\ DealtOnce /\ FieldClosed
  BY DEF EventInv
<1>0. Rounds = 1..MaxRounds /\ MaxRounds \in Nat
  BY LimitAssumption DEF Rounds
<1>1. UNCHANGED <<now, format, status, registration_open, rounds, current_round, earliest_start_at,
                  entered, totals, result, checkins, seat_allowed, game, creator>> /\ Pairings' = Pairings
  BY DEF TickClaim, eventVars, tableVars, Pairings
<1>2. /\ round_status[r] = "scheduled" /\ earliest_start_at[r] <= now
      /\ r > 1 => round_status[r - 1] = "completed"
  BY DEF TickClaim, Claimable
<1>3. round_status' = [round_status EXCEPT ![r] = "live"] /\ tick' = [step |-> "status", round |-> r]
  BY DEF TickClaim
<1>4. \A q \in Rounds : round_status'[q] = IF q = r THEN "live" ELSE round_status[q]
  BY <1>3 DEF TypeOK
<1>5. TypeOK'
  BY <1>1, <1>3 DEF TypeOK
<1>6. InRound(result, r) = {} \/ r = 1
  BY <1>0, <1>2 DEF DealtOnce, Begun
<1>7. RoundsInOrder'
  <2>1. ASSUME NEW q \in Rounds, q < r PROVE round_status[q] = "completed"
    <3>1. r - 1 \in Rounds /\ r > 1 /\ round_status[r - 1] = "completed"
      BY <1>0, <1>2, <2>1
    <3>2. CASE q = r - 1
      BY <3>1, <3>2
    <3>3. CASE q < r - 1
      BY <3>1, <3>3 DEF RoundsInOrder
    <3>. QED
      BY <1>0, <2>1, <3>2, <3>3
  <2>2. ASSUME NEW q \in Rounds, NEW s \in Rounds, q < s,
               round_status'[s] \in {"live", "completed"} \/ InRound(result', s) # {}
        PROVE  round_status'[q] = "completed"
    <3>1. CASE s = r
      <4>1. round_status[q] = "completed" /\ q # r
        BY <1>0, <2>1, <2>2, <3>1
      <4>. QED
        BY <1>4, <4>1
    <3>2. CASE s # r
      <4>1. round_status[s] \in {"live", "completed"} \/ InRound(result, s) # {}
        BY <1>1, <1>4, <2>2, <3>2
      <4>2. round_status[q] = "completed"
        BY <2>2, <4>1 DEF RoundsInOrder
      <4>. QED
        BY <1>2, <1>4, <4>2
    <3>. QED
      BY <3>1, <3>2
  <2>. QED
    BY <2>2 DEF RoundsInOrder
<1>8. LocalStates'
  <2>1. CreatorStates' = CreatorStates /\ GameStates' = GameStates /\ tick' \in TickStates'
    BY <1>1, <1>3 DEF CreatorStates, GameStates, TickStates, Opening
  <2>. QED
    BY <1>1, <2>1 DEF LocalStates
<1>9. DealtOnce'
  <2>1. \A q \in Rounds : round_status[q] \in {"live", "completed"} => round_status'[q] \in {"live", "completed"}
    BY <1>4
  <2>2. round_status'[r] \in {"live", "completed"}
    BY <1>4
  <2>. QED
    BY <1>1, <1>3, <1>6, <2>1, <2>2 DEF DealtOnce, Begun, Opening
<1>10. FieldClosed'
  <2>1. CASE r = 1
    <3>1. FirstStart <= now
      BY <1>2, <2>1 DEF FieldClosed
    <3>2. RegistrationEnds <= now
      BY <3>1, EndOfRegistration, ScheduleAssumption DEF TypeOK
    <3>. QED
      BY <1>1, <1>3, <3>2 DEF FieldClosed
  <2>2. CASE r > 1
    <3>1. r - 1 \in Rounds /\ Begun(r - 1)
      BY <1>0, <1>2, <2>2 DEF Begun
    <3>2. RegistrationEnds <= now
      BY <3>1 DEF FieldClosed
    <3>. QED
      BY <1>1, <1>3, <3>2 DEF FieldClosed
  <2>. QED
    BY <1>0, <2>1, <2>2
<1>. QED
  BY <1>5, <1>7, <1>8, <1>9, <1>10 DEF EventInv

LEMMA EmptyFieldDealsNothing ==
    ASSUME EventInv, NEW r \in Rounds, NEW res, res = result \/ res = <<>>, Deal(r, res) # <<>>
    PROVE  entered # {}
<1>. TypeOK /\ FieldClosed
  BY DEF EventInv
<1>. SUFFICES ASSUME entered = {} PROVE FALSE
  OBVIOUS
<1>1. Pairings = {}
  BY DEF FieldClosed
<1>2. DOMAIN res = {}
  <2>1. CASE res = result
    BY <1>1, <2>1 DEF Pairings
  <2>2. CASE res = <<>>
    BY <2>2
  <2>. QED
    BY <2>1, <2>2
<1>3. PICK t : PairsField(t, Pool(r, res), Capped(res)) /\ Deal(r, res) = SetToSeq(Reversed(Replays(r, res))) \o t
  BY DealParts DEF EventInv, LocalStates
<1>4. PICK R, pool : R = Reversed(Replays(r, res)) /\ pool = Pool(r, res)
  OBVIOUS
<1>5. R = {} /\ pool = {}
  BY <1>2, <1>4 DEF InRound, NotReplaying, Advancing, Replays, Pool, Reversed
<1>6. t \in Seq({}) /\ SetToSeq(R) \in Seq({})
  <2>1. t \in Seq(pool \X (pool \cup {0}))
    BY <1>3, <1>4 DEF PairsField
  <2>2. pool \X (pool \cup {0}) = {}
    BY <1>5
  <2>3. SetToSeq(R) \in Seq(R)
    BY <1>5, FS_EmptySet, SequenceOf
  <2>. QED
    BY <1>5, <2>1, <2>2, <2>3
<1>7. \A x, y \in Seq({}) : x \o y = <<>>
  OBVIOUS
<1>. QED
  BY <1>3, <1>4, <1>6, <1>7

(* Opening a round and dealing it.                                         *)
LEMMA TickIs ==
    ASSUME tick \in TickStates, tick.step \in Opening \cup {"recompute"},
           NEW s \in Opening \cup {"recompute", "advance"}
    PROVE  /\ tick.round \in Rounds
           /\ [tick EXCEPT !.step = s] \in TickStates
           /\ [tick EXCEPT !.step = s].step = s /\ [tick EXCEPT !.step = s].round = tick.round
<1>1. tick \in [step : Opening \cup {"recompute", "checkins", "advance"}, round : Rounds]
  BY DEF TickStates, Opening
<1>2. PICK u : u = [tick EXCEPT !.step = s]
  OBVIOUS
<1>3. u \in [step : Opening \cup {"recompute", "checkins", "advance"}, round : Rounds] /\ u.step = s /\ u.round = tick.round
  BY <1>1, <1>2
<1>. QED
  BY <1>1, <1>2, <1>3 DEF TickStates

LEMMA OpeningKeepsEvent ==
    ASSUME EventInv, TickStatus \/ TickRound \/ TickDeal \/ TickRecompute
    PROVE  EventInv'
<1>. TypeOK /\ RoundsInOrder /\ LocalStates /\ DealtOnce /\ FieldClosed
  BY DEF EventInv
<1>. IsFiniteSet(Pairings) /\ tick \in TickStates /\ Idle \in TickStates
  BY DEF LocalStates, TickStates, Idle
<1>0. tick.step \in Opening \cup {"recompute"} /\ tick.round \in Rounds
  <2>1. tick.step \in Opening \cup {"recompute"}
    BY DEF TickStatus, TickRound, TickDeal, TickRecompute, At, Opening
  <2>. QED
    BY <2>1 DEF TickStates, Opening
<1>1. UNCHANGED <<now, format, registration_open, rounds, round_status, earliest_start_at, entered, result,
                  checkins, seat_allowed, game, creator>> /\ Pairings' = Pairings
  BY DEF TickStatus, TickRound, TickDeal, TickRecompute, eventVars, roundVars, tableVars, Pairings
<1>2. status' \in Statuses
  BY DEF TickStatus, TickRound, TickDeal, TickRecompute, eventVars, TypeOK, Statuses
<1>3. current_round' \in 0..MaxRounds + 1
  <2>1. current_round' \in {current_round, tick.round}
    BY DEF TickStatus, TickRound, TickDeal, TickRecompute, eventVars
  <2>. QED
    BY <1>0, <2>1, LimitAssumption DEF TypeOK, Rounds
<1>4. totals' \in [Players -> [score : Nat, whites : Nat, bye : BOOLEAN]]
  <2>1. totals' = totals \/ totals' = Totals(result)
    BY DEF TickStatus, TickRound, TickDeal, TickRecompute, tableVars
  <2>2. IsFiniteSet(DOMAIN result)
    BY DEF Pairings
  <2>. QED
    BY <2>1, <2>2, TotalsTyped DEF TypeOK
<1>5. TypeOK' /\ RoundsInOrder'
  BY <1>1, <1>2, <1>3, <1>4 DEF TypeOK, RoundsInOrder
<1>6. \/ tick' = Idle
      \/ /\ tick' \in TickStates /\ tick'.step \in {"round", "deal", "advance"} /\ tick'.round = tick.round
         /\ tick'.step \in Opening => tick.step \in Opening
      \/ \E todo \in Seq(Entries) \ {<<>>} :
           tick' = [step |-> "insert", round |-> tick.round, todo |-> todo] /\ tick.step = "deal" /\ entered # {}
  <2>1. CASE TickStatus
    <3>1. tick' = Idle \/ tick' = [tick EXCEPT !.step = "round"]
      BY <2>1 DEF TickStatus, TickGoto, TickAbort
    <3>2. tick.step \in Opening
      BY <2>1 DEF TickStatus, At, Opening
    <3>. QED
      BY <3>1, <3>2, TickIs DEF Opening
  <2>2. CASE TickRound
    <3>1. tick' = Idle \/ tick' = [tick EXCEPT !.step = "deal"]
      BY <2>2 DEF TickRound, TickGoto, TickAbort
    <3>2. tick.step \in Opening
      BY <2>2 DEF TickRound, At, Opening
    <3>. QED
      BY <3>1, <3>2, TickIs DEF Opening
  <2>3. CASE TickRecompute
    <3>1. tick' = Idle \/ tick' = [tick EXCEPT !.step = "advance"]
      BY <2>3 DEF TickRecompute, TickGoto, TickAbort
    <3>2. [tick EXCEPT !.step = "advance"] \in TickStates
          /\ [tick EXCEPT !.step = "advance"].step = "advance"
          /\ [tick EXCEPT !.step = "advance"].round = tick.round
      BY <1>0, TickIs
    <3>. QED
      BY <3>1, <3>2 DEF Opening
  <2>4. CASE TickDeal
    <3>1. tick.step = "deal"
      BY <2>4 DEF TickDeal, At
    <3>2. InRound(result, tick.round) = {} \/ tick.round = 1
      <4>1. ~(tick.round > 1 /\ InRound(result, tick.round) # {})
        BY <1>0, <3>1 DEF DealtOnce, Opening
      <4>. QED
        BY <1>0, <4>1 DEF Rounds
    <3>3. CASE tick' = Idle
      BY <3>3
    <3>4. ASSUME NEW res \in {result, <<>>},
                 tick' = [step |-> "insert", round |-> tick.round, todo |-> Deal(tick.round, res)],
                 \/ Deal(tick.round, res) # <<>>
                 \/ res = result /\ InRound(result, tick.round) # {}
          PROVE  \E todo \in Seq(Entries) \ {<<>>} :
                    tick' = [step |-> "insert", round |-> tick.round, todo |-> todo] /\ tick.step = "deal" /\ entered # {}
      <4>1. PICK todo : todo = Deal(tick.round, res)
        OBVIOUS
      <4>2. todo \in Seq(Entries) /\ (tick.round = 1 /\ entered # {} => todo # <<>>)
        BY <1>0, <3>4, <4>1, DealIs
      <4>3. InRound(result, tick.round) # {} => tick.round = 1 /\ entered # {}
        BY <3>2 DEF FieldClosed, InRound, Pairings
      <4>4. todo # <<>>
        BY <3>4, <4>1, <4>2, <4>3
      <4>5. entered # {}
        BY <1>0, <3>4, <4>1, <4>4, EmptyFieldDealsNothing
      <4>. QED
        BY <3>1, <3>4, <4>1, <4>2, <4>4, <4>5
    <3>. QED
      BY <2>4, <3>3, <3>4 DEF TickDeal, TickAbort
  <2>. QED
    BY <2>1, <2>2, <2>3, <2>4
<1>7. LocalStates'
  <2>1. CreatorStates' = CreatorStates /\ TickStates' = TickStates /\ GameStates' = GameStates
    BY <1>1 DEF CreatorStates, TickStates, Verdicts, GameStates, Opening, Entries
  <2>2. \A todo \in Seq(Entries) \ {<<>>} : [step |-> "insert", round |-> tick.round, todo |-> todo] \in TickStates
    BY <1>0 DEF TickStates
  <2>3. tick' \in TickStates
    BY <1>6, <2>2
  <2>. QED
    BY <1>1, <2>1, <2>3 DEF LocalStates
<1>8. DealtOnce'
  <2>1. tick'.step \in Opening \cup {"insert"} => tick.step \in Opening /\ tick'.round = tick.round
    BY <1>6 DEF Idle, Opening
  <2>2. tick'.step \in Opening \cup {"insert"} => Begun(tick'.round)
    BY <2>1 DEF DealtOnce
  <2>3. \A q \in Rounds : q > 1 /\ InRound(result, q) # {} => ~(tick'.step \in Opening /\ tick'.round = q)
    BY <2>1 DEF DealtOnce
  <2>. QED
    BY <1>1, <2>2, <2>3 DEF DealtOnce, Begun, Opening
<1>9. FieldClosed'
  <2>1. tick'.step = "insert" => entered # {}
    BY <1>6 DEF Idle
  <2>. QED
    BY <1>1, <2>1 DEF FieldClosed, Begun
<1>. QED
  BY <1>5, <1>7, <1>8, <1>9 DEF EventInv

(* One pairing is inserted.                                                *)
LEMMA InsertKeepsEvent == EventInv /\ TickInsert => EventInv'
<1>. SUFFICES ASSUME EventInv, TickInsert PROVE EventInv'
  OBVIOUS
<1>. TypeOK /\ RoundsInOrder /\ LocalStates /\ DealtOnce /\ FieldClosed
  BY DEF EventInv
<1>. IsFiniteSet(Pairings) /\ tick \in TickStates
  BY DEF LocalStates
<1>1. tick \in [step : {"insert"}, round : Rounds, todo : Seq(Entries) \ {<<>>}]
  BY DEF TickInsert, At, TickStates, Opening
<1>2. PICK r \in Rounds, todo \in Seq(Entries) : todo # <<>> /\ r = tick.round /\ todo = tick.todo
  BY <1>1
<1>3. PICK pair \in Entries : pair = Head(todo)
  BY <1>2
<1>4. UNCHANGED <<now, format, status, registration_open, rounds, current_round, round_status,
                  earliest_start_at, entered, totals, checkins, seat_allowed, game, creator>>
  BY DEF TickInsert, eventVars, roundVars
<1>5. \/ result' = Insert(result, r, {pair}) /\ ~RowTaken(r, pair)
         /\ tick' = IF Len(todo) = 1 THEN [step |-> "recompute", round |-> r] ELSE [tick EXCEPT !.todo = Tail(@)]
      \/ result' = result /\ tick' = Idle
  BY <1>2, <1>3 DEF TickInsert, TickAbort
<1>6. Begun(r) /\ RegistrationEnds <= now /\ entered # {}
  BY <1>1, <1>2 DEF DealtOnce, FieldClosed
<1>7. /\ Pairings \subseteq Pairings' /\ IsFiniteSet(Pairings') /\ Pairings' \subseteq PairingRows
      /\ \A p \in Pairings' : result'[p] \in Results /\ (result'[p] = "bye" <=> p.black = NoBlack)
      /\ \A q \in Rounds : q # r => InRound(result', q) = InRound(result, q)
  <2>1. CASE result' = Insert(result, r, {pair})
    <3>1. {pair} \in SUBSET Entries
      OBVIOUS
    <3>. QED
      BY <2>1, <3>1, InsertIs
  <2>2. CASE result' = result
    BY <2>2 DEF Pairings, TypeOK
  <2>. QED
    BY <1>5, <2>1, <2>2
<1>8. tick' = Idle \/ tick' \in [step : {"recompute"}, round : Rounds]
      \/ tick' \in [step : {"insert"}, round : {r}, todo : Seq(Entries) \ {<<>>}]
  <2>1. CASE tick' = [step |-> "recompute", round |-> r]
    BY <2>1
  <2>2. CASE Len(todo) # 1 /\ tick' = [tick EXCEPT !.todo = Tail(@)]
    <3>1. PICK rest : rest = Tail(todo)
      OBVIOUS
    <3>2. rest \in Seq(Entries) /\ rest # <<>>
      <4>1. Len(todo) # 1
        BY <2>2
      <4>2. todo \in Seq(Entries) /\ todo # <<>>
        BY <1>2
      <4>3. rest \in Seq(Entries) /\ Len(rest) = Len(todo) - 1 /\ Len(todo) \in Nat /\ Len(todo) # 0
        BY <3>1, <4>2
      <4>4. Len(rest) # 0
        BY <4>1, <4>3
      <4>. QED
        BY <4>3, <4>4
    <3>3. tick' = [tick EXCEPT !.todo = rest]
      BY <1>2, <2>2, <3>1
    <3>. QED
      BY <1>1, <1>2, <3>2, <3>3
  <2>. QED
    BY <1>5, <2>1, <2>2
<1>9. TypeOK'
  BY <1>4, <1>7 DEF TypeOK
<1>10. RoundsInOrder'
  BY <1>4, <1>6, <1>7, OrderKept DEF Begun
<1>11. LocalStates'
  <2>1. CreatorStates \subseteq CreatorStates' /\ TickStates \subseteq TickStates'
    BY <1>7, StatesGrow
  <2>2. tick' \in TickStates
    BY <1>8 DEF TickStates, Idle
  <2>. QED
    BY <1>4, <1>7, <2>1, <2>2 DEF LocalStates, GameStates
<1>12. DealtOnce'
  <2>1. tick'.step \notin Opening /\ (tick'.step = "insert" => tick'.round = r)
    BY <1>8 DEF Opening, Idle
  <2>2. \A q \in Rounds : Begun(q)' <=> Begun(q)
    BY <1>4 DEF Begun
  <2>3. tick'.step = "insert" => round_status'[tick'.round] \in {"live", "completed"}
    BY <1>4, <1>6, <2>1 DEF Begun
  <2>4. \A q \in Rounds : q > 1 /\ InRound(result', q) # {} => round_status'[q] \in {"live", "completed"}
    BY <1>4, <1>6, <1>7 DEF DealtOnce, Begun
  <2>. QED
    BY <2>1, <2>3, <2>4 DEF DealtOnce, Begun, Opening
<1>13. FieldClosed'
  BY <1>4, <1>6 DEF FieldClosed, Begun
<1>. QED
  BY <1>9, <1>10, <1>11, <1>12, <1>13 DEF EventInv

LEMMA EventInit == Init => EventInv
<1>. SUFFICES ASSUME Init PROVE EventInv
  OBVIOUS
<1>0. /\ Rounds = 1..MaxRounds /\ MaxRounds \in Nat /\ 1 \in Rounds /\ SwissRounds \in Rounds
      /\ FirstStart \in Nat /\ Duration \in Nat
  BY FormatAssumption, LimitAssumption, ScheduleAssumption DEF Rounds
<1>1. DOMAIN result = {} /\ Pairings = {}
  BY DEF Init, Pairings
<1>2. DOMAIN game = {}
  BY DEF Init
<1>3. \A r \in Rounds : EarliestRoundStart(r) \in Nat
  <2>1. \A a, b \in Nat : a * b \in Nat
    OBVIOUS
  <2>2. \A r \in Rounds : r - 1 \in Nat
    BY <1>0
  <2>3. \A r \in Rounds : (r - 1) * Duration \in Nat
    BY <1>0, <2>1, <2>2
  <2>. QED
    BY <1>0, <2>3 DEF EarliestRoundStart
<1>4. EarliestRoundStart(1) = FirstStart
  <2>1. (1 - 1) * Duration = 0
    BY <1>0
  <2>. QED
    BY <1>0, <2>1 DEF EarliestRoundStart
<1>5. rounds \in Rounds /\ 1 <= rounds
  BY <1>0 DEF Init
<1>6. round_status \in [Rounds -> {"none", "scheduled"}]
  BY DEF Init
<1>7. earliest_start_at \in [Rounds -> Nat] /\ earliest_start_at[1] = FirstStart
  BY <1>0, <1>3, <1>4, <1>5 DEF Init
<1>8. totals \in [Players -> [score : Nat, whites : Nat, bye : BOOLEAN]]
  BY DEF Init
<1>9. now = 0 /\ format \in Formats /\ status = "registration" /\ registration_open = TRUE /\ current_round = 0
      /\ entered = {} /\ checkins = {} /\ seat_allowed = {} /\ creator = Idle /\ tick = Idle
  BY DEF Init
<1>10. TypeOK
  BY <1>0, <1>1, <1>2, <1>5, <1>6, <1>7, <1>8, <1>9 DEF TypeOK, Statuses
<1>11. RoundsInOrder
  BY <1>1, <1>6 DEF RoundsInOrder, InRound
<1>12. LocalStates
  BY <1>1, <1>2, <1>9, FS_EmptySet DEF LocalStates, CreatorStates, TickStates, Idle
<1>13. DealtOnce
  BY <1>1, <1>9 DEF DealtOnce, InRound, Idle, Opening
<1>14. FieldClosed
  BY <1>1, <1>6, <1>7, <1>9 DEF FieldClosed, Begun, Idle
<1>. QED
  BY <1>10, <1>11, <1>12, <1>13, <1>14 DEF EventInv

LEMMA EventStep == EventInv /\ [Next]_vars => EventInv'
<1>. SUFFICES ASSUME EventInv, [Next]_vars PROVE EventInv'
  OBVIOUS
<1>1. CASE UNCHANGED vars
  <2>1. UNCHANGED <<now, format, status, registration_open, rounds, current_round, round_status, earliest_start_at,
                    entered, totals, result, checkins, seat_allowed, game, creator, tick>>
    BY <1>1 DEF vars, eventVars, roundVars, tableVars
  <2>2. TypeOK' = TypeOK /\ RoundsInOrder' = RoundsInOrder
    BY <2>1 DEF TypeOK, RoundsInOrder, Pairings
  <2>3. LocalStates' = LocalStates
    BY <2>1 DEF LocalStates, CreatorStates, TickStates, GameStates, Verdicts, Pairings, Opening, Entries
  <2>4. DealtOnce' = DealtOnce /\ FieldClosed' = FieldClosed
    BY <2>1 DEF DealtOnce, FieldClosed, Begun, Pairings, Opening
  <2>. QED
    BY <2>2, <2>3, <2>4 DEF EventInv
<1>2. 1 \in Rounds
  BY FormatAssumption, LimitAssumption DEF Rounds
<1>3. ASSUME NEW p \in Players, Join(p) \/ Leave(p) \/ \E r \in Rounds : CheckIn(p, r) \/ CheckOut(p, r)
      PROVE  EventInv'
  BY <1>2, <1>3, PlayersKeepEvent
<1>4. ASSUME NEW open \in BOOLEAN, SetRegistration(open) PROVE EventInv'
  BY <1>4, RegistrationKeepsEvent
<1>5. CASE TickClose \/ Time
  <2>1. TRUE \in BOOLEAN
    OBVIOUS
  <2>. QED
    BY <1>5, <2>1, RegistrationKeepsEvent
<1>6. ASSUME NEW pr \in Pairings, Play(pr) PROVE EventInv'
  BY <1>6, GamesKeepEvent, GameResultKeepsEvent, AdvanceStepsKeepEvent DEF Play
<1>7. CASE Correction
  BY <1>7, CorrectionKeepsEvent, AdvanceStepsKeepEvent DEF Correction
<1>8. CASE Maintenance
  BY <1>2, <1>5, <1>8, PreviewKeepsEvent, ClaimKeepsEvent, JudgingKeepsEvent, OpeningKeepsEvent,
     InsertKeepsEvent, AdvanceStepsKeepEvent DEF Maintenance
<1>. QED
  BY <1>1, <1>3, <1>4, <1>5, <1>6, <1>7, <1>8 DEF Next

-----------------------------------------------------------------------------
LEMMA EventHolds == Spec => []EventInv
<1>1. Init => EventInv
  BY EventInit
<1>2. EventInv /\ [Next]_vars => EventInv'
  BY EventStep
<1>. QED
  BY <1>1, <1>2, PTL DEF Spec

(* The tables of an event stay well formed and its rounds begin one after  *)
(* the other, whichever statements fail, whatever the creator corrects and *)
(* whoever leaves (src/tournament/tournament_manager.cpp).                 *)
THEOREM RoundsStaySound == Spec => []RoundsAreSound
<1>1. EventInv => RoundsAreSound
  BY DEF EventInv, RoundsAreSound
<1>. QED
  BY <1>1, EventHolds, PTL

(* Only a correction overwrites a decided result.                         *)
LEMMA OnlyCorrectionsOverwrite ==
    ASSUME EventInv, [Next]_vars, NEW pr \in Pairings, result[pr] # "pending", result'[pr] # result[pr]
    PROVE  creator.step = "write" /\ creator.pairing = pr /\ creator'.step = "advance"
<1>. TypeOK /\ LocalStates
  BY DEF EventInv
<1>. IsFiniteSet(Pairings) /\ tick \in TickStates /\ creator \in CreatorStates
  BY DEF LocalStates
<1>0. 1 \in Rounds
  BY FormatAssumption, LimitAssumption DEF Rounds
<1>1. ASSUME NEW q \in Pairings, NEW res, CanRecord(q, res), Record(q, res) PROVE FALSE
  <2>1. result' = [result EXCEPT ![q] = res]
    BY <1>1 DEF Record
  <2>2. q = pr /\ result'[pr] = res
    BY <2>1 DEF Pairings
  <2>. QED
    BY <1>1, <2>2 DEF CanRecord
<1>2. result' # result
  OBVIOUS
<1>3. CASE OverrideWrite
  <2>1. Record(creator.pairing, creator.res) /\ creator' = [creator EXCEPT !.step = "advance"] /\ creator.step = "write"
    BY <1>2, <1>3 DEF OverrideWrite
  <2>2. creator'.step = "advance"
    BY <2>1, CreatorIs
  <2>3. result' = [result EXCEPT ![creator.pairing] = creator.res]
    BY <2>1 DEF Record
  <2>4. creator.pairing = pr
    BY <2>3 DEF Pairings
  <2>. QED
    BY <2>1, <2>2, <2>4
<1>4. CASE TickForfeit
  <2>1. tick \in [step : {"forfeit"}, round : Rounds, todo : Seq(Verdicts)]
    BY <1>4 DEF TickForfeit, At, TickStates, Opening
  <2>2. tick.todo # <<>>
    BY <1>2, <1>4 DEF TickForfeit
  <2>3. Head(tick.todo) \in Verdicts
    BY <2>1, <2>2
  <2>4. PICK q, res : q = Head(tick.todo)[1] /\ res = Head(tick.todo)[2]
    OBVIOUS
  <2>5. q \in Pairings
    BY <2>3, <2>4 DEF Verdicts
  <2>6. CanRecord(q, res) /\ Record(q, res)
    BY <1>2, <1>4, <2>2, <2>4 DEF TickForfeit
  <2>. QED
    BY <1>1, <2>5, <2>6
<1>5. ASSUME NEW q \in Pairings, Play(q) PROVE FALSE
  <2>1. RecordGameResult(q)
    BY <1>2, <1>5 DEF Play, GameStarts, GameOver, LookUpPairing, AdvanceAfterGame, tableVars
  <2>2. CanRecord(q, game[q].res) /\ Record(q, game[q].res)
    BY <1>2, <2>1 DEF RecordGameResult
  <2>. QED
    BY <1>1, <2>2
<1>6. CASE TickPreview
  <2>1. PICK pairs : pairs = ToSet(Deal(1, result))
    OBVIOUS
  <2>2. pairs \in SUBSET Entries
    BY <1>0, <2>1, DealIs DEF ToSet
  <2>3. result' = Insert(result, 1, pairs)
    BY <1>6, <2>1 DEF TickPreview
  <2>. QED
    BY <1>0, <2>2, <2>3, InsertIs
<1>7. CASE TickInsert
  <2>1. tick \in [step : {"insert"}, round : Rounds, todo : Seq(Entries) \ {<<>>}]
    BY <1>7 DEF TickInsert, At, TickStates, Opening
  <2>2. {Head(tick.todo)} \in SUBSET Entries
    <3>1. Head(tick.todo) \in Entries
      BY <2>1
    <3>. QED
      BY <3>1
  <2>3. result' = Insert(result, tick.round, {Head(tick.todo)})
    BY <1>2, <1>7 DEF TickInsert
  <2>. QED
    BY <2>1, <2>2, <2>3, InsertIs
<1>8. ~Correction \/ OverrideWrite
  BY <1>2 DEF Correction, OverrideCheck, OverrideAdvance, tableVars
<1>9. Maintenance => TickPreview \/ TickInsert \/ TickForfeit
  BY <1>2 DEF Maintenance, TickClose, TickClaim, TickExpired, TickStatus, TickRound, TickDeal, TickRecompute,
              TickCheckins, TickPairings, TickAdvance, tableVars
<1>10. ~(\E p \in Players : Join(p) \/ Leave(p) \/ \E r \in Rounds : CheckIn(p, r) \/ CheckOut(p, r))
  BY <1>2 DEF Join, Leave, CheckIn, CheckOut
<1>11. ~(\E open \in BOOLEAN : SetRegistration(open)) /\ ~Time
  BY <1>2 DEF SetRegistration, Time, tableVars
<1>12. UNCHANGED vars => result' = result
  BY DEF vars, tableVars
<1>. QED
  BY <1>2, <1>3, <1>4, <1>5, <1>6, <1>7, <1>8, <1>9, <1>10, <1>11, <1>12 DEF Next

(* A decided pairing changes only by the creator's correction: no late     *)
(* game result, no no-show judged on rows read earlier and no repeated     *)
(* write replaces it (set_pairing_result, record_game_result,              *)
(* src/tournament/tournament_manager.cpp).                                 *)
THEOREM ResultsStayDecided == Spec => DecidedStays
<1>1. EventInv /\ [Next]_vars => [\A pr \in Pairings :
         result[pr] # "pending" /\ result'[pr] # result[pr] =>
           creator.step = "write" /\ creator.pairing = pr /\ creator'.step = "advance"]_vars
  BY OnlyCorrectionsOverwrite
<1>. QED
  BY <1>1, EventHolds, PTL DEF Spec, DecidedStays

-----------------------------------------------------------------------------
(* The rows of a round, those still to be inserted included.               *)
ToInsert(r) == IF tick.step = "insert" /\ tick.round = r THEN {Row(r, e) : e \in ToSet(tick.todo)} ELSE {}
RoundRows(r) == InRound(result, r) \cup ToInsert(r)

(* A round is dealt well by a set of rows: nobody sits in two of them, all *)
(* who should play it sit in one, a pair that drew once sits in one again  *)
(* with colours reversed, and no two who drew twice meet.                  *)
SeatedOnce(S) == \A p, q \in S : p # q => Pair(p) \cap Pair(q) \subseteq {NoBlack}
SeatedIn(S) == (UNION {Pair(p) : p \in S}) \ {NoBlack}
DrawnOnce(r) == {p \in InRound(result, r - 1) : result[p] = Draw /\ ~DrawCap(DrawsOf(result, r - 1, Pair(p)))}
WellDealt(r, S) ==
    /\ SeatedOnce(S)
    /\ SeatedIn(S) = Field(r) /\ Field(r) \subseteq entered
    /\ format = "winners_advance" =>
         /\ r > 1 => \A p \in DrawnOnce(r) : Row(r, <<p.black, p.white>>) \in S
         /\ \A p \in S : p.black # NoBlack => ~DrawCap(DrawsOf(result, r - 1, Pair(p)))

(* While a round is dealt it stays open: what is begun of it is still      *)
(* being played, and no pairing is inserted twice.                         *)
OverIsDecided == \A q \in Rounds : round_status[q] = "completed" => RoundComplete(q)
DealOpen ==
    tick.step = "insert" =>
        /\ round_status[tick.round] # "completed"
        /\ \A g \in DOMAIN game : g.round = tick.round => game[g].step = "playing"
        /\ \A i \in DOMAIN tick.todo : Row(tick.round, tick.todo[i]) \notin Pairings
        /\ \A i, j \in DOMAIN tick.todo : i # j => tick.todo[i] # tick.todo[j]
RoundsDealt == \A r \in Rounds : RoundRows(r) # {} => WellDealt(r, RoundRows(r))

FieldInv == creator = Idle /\ OverIsDecided /\ DealOpen /\ RoundsDealt

(* Nothing is corrected and no statement fails, and no game is over before *)
(* the pass that pairs it: a failing statement leaves a round half dealt,  *)
(* a correction rewrites who survived, and a game that ends within the     *)
(* pass may end its round before it is whole.                              *)
Undisturbed == Mishaps \subseteq {"departure"} /\ QuickGames = FALSE

-----------------------------------------------------------------------------
(* What a round is dealt from depends on the rounds before it only.        *)
LEMMA RoundsBefore ==
    ASSUME NEW a, NEW b, NEW k \in Int,
           \A p : p \in DOMAIN a /\ p.round <= k <=> p \in DOMAIN b /\ p.round <= k,
           \A p \in DOMAIN a : p.round <= k => a[p] = b[p]
    PROVE  /\ InRound(a, k) = InRound(b, k)
           /\ Survivors(a, k) = Survivors(b, k)
           /\ \A m : DrawsOf(a, k, m) = DrawsOf(b, k, m)
<1>1. InRound(a, k) = InRound(b, k) /\ \A p \in InRound(a, k) : a[p] = b[p]
  BY DEF InRound
<1>2. \A p \in InRound(a, k) : AdvancesFrom(a, p) = AdvancesFrom(b, p)
  BY <1>1 DEF AdvancesFrom
<1>3. Survivors(a, k) = Survivors(b, k)
  BY <1>1, <1>2 DEF Survivors
<1>4. ASSUME NEW m PROVE DrawsOf(a, k, m) = DrawsOf(b, k, m)
  <2>1. {p \in DOMAIN a : p.round <= k /\ a[p] = Draw /\ Pair(p) = m}
          = {p \in DOMAIN b : p.round <= k /\ b[p] = Draw /\ Pair(p) = m}
    OBVIOUS
  <2>. QED
    BY <2>1 DEF DrawsOf
<1>. QED
  BY <1>1, <1>3, <1>4

(* Sequences whose entries have nobody in common, joined.                  *)
Strangers(e, f) == Sitting(e) \cap Sitting(f) = {}
AllStrangers(s) == \A i, j \in DOMAIN s : i # j => Strangers(s[i], s[j])
LEMMA StrangersJoin ==
    ASSUME NEW V, NEW s \in Seq(V), NEW t \in Seq(V), AllStrangers(s), AllStrangers(t),
           \A i \in DOMAIN s, j \in DOMAIN t : Strangers(s[i], t[j])
    PROVE  /\ AllStrangers(s \o t)
           /\ ToSet(s \o t) = ToSet(s) \cup ToSet(t)
<1>. PICK m \in Nat, n \in Nat : m = Len(s) /\ n = Len(t)
  OBVIOUS
<1>. PICK u : u = s \o t
  OBVIOUS
<1>1. u \in Seq(V) /\ Len(u) = m + n /\ DOMAIN s = 1..m /\ DOMAIN t = 1..n /\ DOMAIN u = 1..m + n
  OBVIOUS
<1>2. /\ \A i \in 1..m : u[i] = s[i]
      /\ \A i \in 1..n : u[m + i] = t[i]
  OBVIOUS
<1>3. \A i \in 1..m + n : i \in 1..m \/ (i - m \in 1..n /\ u[i] = t[i - m])
  BY <1>2
<1>4. \A e, f : Strangers(e, f) <=> Strangers(f, e)
  BY DEF Strangers
<1>5. AllStrangers(u)
  <2>. SUFFICES ASSUME NEW i \in 1..m + n, NEW j \in 1..m + n, i # j PROVE Strangers(u[i], u[j])
    BY <1>1 DEF AllStrangers
  <2>1. CASE i \in 1..m /\ j \in 1..m
    <3>1. i \in DOMAIN s /\ j \in DOMAIN s /\ u[i] = s[i] /\ u[j] = s[j]
      BY <1>1, <1>2, <2>1
    <3>. QED
      BY <3>1 DEF AllStrangers
  <2>2. CASE i \in 1..m /\ j \notin 1..m
    <3>1. i \in DOMAIN s /\ j - m \in DOMAIN t /\ u[i] = s[i] /\ u[j] = t[j - m]
      BY <1>1, <1>2, <1>3, <2>2
    <3>. QED
      BY <3>1
  <2>3. CASE i \notin 1..m /\ j \in 1..m
    <3>1. j \in DOMAIN s /\ i - m \in DOMAIN t /\ u[j] = s[j] /\ u[i] = t[i - m]
      BY <1>1, <1>2, <1>3, <2>3
    <3>2. Strangers(s[j], t[i - m])
      BY <3>1
    <3>. QED
      BY <1>4, <3>1, <3>2
  <2>4. CASE i \notin 1..m /\ j \notin 1..m
    <3>1. i - m \in 1..n /\ j - m \in 1..n /\ i - m # j - m /\ u[i] = t[i - m] /\ u[j] = t[j - m]
      BY <1>3, <2>4
    <3>. QED
      BY <1>1, <3>1 DEF AllStrangers
  <2>. QED
    BY <2>1, <2>2, <2>3, <2>4
<1>6. ToSet(u) = ToSet(s) \cup ToSet(t)
  <2>1. \A i \in DOMAIN u : u[i] \in ToSet(s) \cup ToSet(t)
    BY <1>1, <1>2, <1>3 DEF ToSet
  <2>2. \A i \in DOMAIN s : s[i] \in ToSet(u)
    BY <1>1, <1>2 DEF ToSet
  <2>3. \A i \in DOMAIN t : t[i] \in ToSet(u)
    <3>1. \A i \in 1..n : m + i \in 1..m + n
      OBVIOUS
    <3>. QED
      BY <1>1, <1>2, <3>1 DEF ToSet
  <2>. QED
    BY <2>1, <2>2, <2>3 DEF ToSet
<1>. QED
  BY <1>5, <1>6

(* A sequence of a finite set lists it, each member once.                  *)
LEMMA SequenceLists ==
    ASSUME NEW S, IsFiniteSet(S)
    PROVE  /\ ToSet(SetToSeq(S)) = S
           /\ \A i, j \in DOMAIN SetToSeq(S) : i # j => SetToSeq(S)[i] # SetToSeq(S)[j]
<1>1. PICK n : n = Cardinality(S)
  OBVIOUS
<1>2. n \in Nat /\ ExistsBijection(1..n, S)
  BY <1>1, FS_CardinalityType
<1>3. \E f \in [1..n -> S] : IsInjective(f)
  BY <1>2 DEF ExistsBijection, Bijection, Injection
<1>4. SetToSeq(S) \in [1..n -> S] /\ IsInjective(SetToSeq(S))
  BY <1>1, <1>3 DEF SetToSeq
<1>5. PICK s \in [1..n -> S] : s = SetToSeq(S) /\ IsInjective(s)
  BY <1>4
<1>6. PICK T \in SUBSET S : T = {s[i] : i \in 1..n}
  BY <1>5
<1>7. IsFiniteSet(1..n) /\ Cardinality(1..n) = n
  BY <1>2, FS_Interval
<1>8. s \in Bijection(1..n, T)
  BY <1>5, <1>6 DEF Bijection, Injection, Surjection, IsInjective
<1>9. IsFiniteSet(T) /\ Cardinality(T) = n
  BY <1>7, <1>8, FS_Bijection DEF ExistsBijection
<1>10. T = S
  BY <1>1, <1>9, FS_Subset
<1>. QED
  BY <1>5, <1>6, <1>10 DEF ToSet, IsInjective


(* Who survives a round played in it.                                      *)
LEMMA SurvivorsPlayed ==
    ASSUME TypeOK, NEW r
    PROVE  /\ Survivors(result, r) \subseteq SeatedIn(InRound(result, r))
           /\ \A p \in InRound(result, r) : result[p] = Draw => Pair(p) \subseteq Survivors(result, r)
<1>1. \A p \in Pairings : p.white # NoBlack /\ (p.black # NoBlack \/ result[p] = "bye") /\ Pairings = DOMAIN result
  BY EntryAssumption DEF TypeOK, PairingRows, NoBlack, Pairings
<1>2. \A p \in Pairings : AdvancesFrom(result, p) \subseteq Pair(p) \ {NoBlack}
  <2>. SUFFICES ASSUME NEW p \in Pairings PROVE AdvancesFrom(result, p) \subseteq Pair(p) \ {NoBlack}
    OBVIOUS
  <2>1. result[p] = "0-1" \/ result[p] = Draw => p.black # NoBlack
    BY <1>1 DEF Draw
  <2>2. p.white # NoBlack
    BY <1>1
  <2>. QED
    BY <2>1, <2>2 DEF AdvancesFrom, Pair, Draw
<1>3. \A p \in Pairings : result[p] = Draw => AdvancesFrom(result, p) = Pair(p)
  BY DEF AdvancesFrom, Draw
<1>4. InRound(result, r) \subseteq Pairings
  BY DEF InRound, Pairings
<1>. QED
  <2>1. \A p \in InRound(result, r) : AdvancesFrom(result, p) \subseteq SeatedIn(InRound(result, r))
    <3>1. \A p \in InRound(result, r) : Pair(p) \ {NoBlack} \subseteq SeatedIn(InRound(result, r))
      BY DEF SeatedIn
    <3>. QED
      BY <1>2, <1>4, <3>1
  <2>2. \A p \in InRound(result, r) : AdvancesFrom(result, p) \subseteq Survivors(result, r)
    BY DEF Survivors
  <2>3. Survivors(result, r) \subseteq SeatedIn(InRound(result, r))
    BY <2>1 DEF Survivors
  <2>. QED
    BY <1>3, <1>4, <2>2, <2>3

(* A round is dealt whole from the rounds before it.                       *)
LEMMA DealIsWhole ==
    ASSUME TypeOK, IsFiniteSet(Pairings), NEW r \in Rounds, \A p \in Pairings : p.round < r,
           format = "winners_advance" /\ r > 1 =>
               SeatedOnce(InRound(result, r - 1)) /\ SeatedIn(InRound(result, r - 1)) \subseteq entered,
           NEW d, d = Deal(r, result), NEW S, S = {Row(r, e) : e \in ToSet(d)}
    PROVE  AllStrangers(d) /\ (\A i \in DOMAIN d : Sitting(d[i]) # {}) /\ WellDealt(r, S)
<1>. r \in Nat /\ r \in 1..MaxRounds /\ MaxRounds \in Nat /\ NoBlack = 0
  BY LimitAssumption DEF Rounds, NoBlack
<1>1. Players \subseteq Nat \ {0} /\ entered \subseteq Players /\ format \in {"swiss", "winners_advance"}
  BY EntryAssumption, FormatAssumption DEF TypeOK
<1>2. PICK Q, P, C, R : Q = Replays(r, result) /\ P = Pool(r, result) /\ C = Capped(result) /\ R = Reversed(Q)
  OBVIOUS
<1>3. /\ P \subseteq entered /\ Q \subseteq Pairings /\ IsFiniteSet(R)
      /\ \A q \in Q : result[q] = Draw /\ q.white \in Players /\ q.black \in Players
      /\ \E t : PairsField(t, P, C) /\ d = SetToSeq(R) \o t
  BY <1>2, DealParts
<1>4. PICK t : PairsField(t, P, C) /\ d = SetToSeq(R) \o t
  BY <1>3
<1>5. PICK s : s = SetToSeq(R)
  OBVIOUS
<1>6. /\ s \in Seq(R) /\ ToSet(s) = R /\ \A i, j \in DOMAIN s : i # j => s[i] # s[j]
  BY <1>3, <1>5, SequenceOf, SequenceLists
<1>7. /\ t \in Seq(P \X (P \cup {0}))
      /\ \A i \in DOMAIN t : t[i][1] # t[i][2] /\ (t[i][2] # 0 => Sitting(t[i]) \notin C)
      /\ \A p \in P : \E i \in DOMAIN t : p \in Sitting(t[i])
      /\ \A i, j \in DOMAIN t : i # j => Sitting(t[i]) \cap Sitting(t[j]) = {}
  BY <1>4 DEF PairsField
<1>8. PICK V : R \subseteq V /\ P \X (P \cup {0}) \subseteq V
  <2>1. \E V : R \subseteq V /\ P \X (P \cup {0}) \subseteq V
    <3>1. R \subseteq R \cup (P \X (P \cup {0})) /\ P \X (P \cup {0}) \subseteq R \cup (P \X (P \cup {0}))
      OBVIOUS
    <3>. QED
      BY <3>1
  <2>. QED
    BY <2>1
<1>9. s \in Seq(V) /\ t \in Seq(V)
  BY <1>6, <1>7, <1>8
<1>10. PICK B : B = UNION {Pair(q) : q \in Q}
  OBVIOUS
<1>11. Q # {} => format = "winners_advance" /\ r > 1 /\ Q \subseteq InRound(result, r - 1)
  BY <1>2 DEF Replays
<1>12. \A e \in R : \E q \in Q : e = <<q.black, q.white>> /\ Sitting(e) = Pair(q) /\ Pair(q) \subseteq B /\ 0 \notin Pair(q)
  BY <1>1, <1>2, <1>3, <1>10 DEF Reversed, Sitting, Pair
<1>13. \A q, u \in Q : q # u => Pair(q) \cap Pair(u) = {}
  <2>1. \A q, u \in Q : q # u => Pair(q) \cap Pair(u) \subseteq {0}
    BY <1>11 DEF SeatedOnce
  <2>2. \A q \in Q : 0 \notin Pair(q)
    BY <1>1, <1>3 DEF Pair
  <2>. QED
    BY <2>1, <2>2
<1>14. B \cap P = {}
  BY <1>2, <1>10, <1>11 DEF Pool, NotReplaying
<1>15. \A i \in DOMAIN t : Sitting(t[i]) \subseteq P /\ Sitting(t[i]) # {} /\ t[i][1] \in P /\ t[i][2] \in P \cup {0}
  <2>1. 0 \notin P
    BY <1>1, <1>3
  <2>2. \A e \in P \X (P \cup {0}) : e[1] \in P /\ e[2] \in P \cup {0}
    OBVIOUS
  <2>3. \A e \in P \X (P \cup {0}) : e[1] \in Sitting(e) /\ Sitting(e) \subseteq P
    BY <2>1, <2>2 DEF Sitting
  <2>4. \A i \in DOMAIN t : t[i] \in P \X (P \cup {0})
    BY <1>7
  <2>. QED
    BY <2>2, <2>3, <2>4
<1>16. AllStrangers(d) /\ ToSet(d) = R \cup ToSet(t)
  <2>1. \A i \in DOMAIN s : s[i] \in R
    BY <1>6
  <2>2. AllStrangers(s)
    <3>. SUFFICES ASSUME NEW i \in DOMAIN s, NEW j \in DOMAIN s, i # j PROVE Strangers(s[i], s[j])
      BY DEF AllStrangers
    <3>1. PICK q \in Q : s[i] = <<q.black, q.white>> /\ Sitting(s[i]) = Pair(q)
      BY <1>12, <2>1
    <3>2. PICK u \in Q : s[j] = <<u.black, u.white>> /\ Sitting(s[j]) = Pair(u)
      BY <1>12, <2>1
    <3>3. q # u
      BY <1>6, <3>1, <3>2
    <3>. QED
      BY <1>13, <3>1, <3>2, <3>3 DEF Strangers
  <2>3. AllStrangers(t)
    BY <1>7 DEF AllStrangers, Strangers
  <2>4. \A i \in DOMAIN s, j \in DOMAIN t : Strangers(s[i], t[j])
    BY <1>12, <1>14, <1>15, <2>1 DEF Strangers
  <2>5. AllStrangers(s \o t) /\ ToSet(s \o t) = ToSet(s) \cup ToSet(t)
    BY <1>9, <2>2, <2>3, <2>4, StrangersJoin
  <2>. QED
    BY <1>4, <1>5, <1>6, <2>5
<1>17. \A e \in ToSet(t) : \E i \in DOMAIN t : e = t[i]
  BY DEF ToSet
<1>18. \A e \in ToSet(d) : Sitting(e) # {} /\ Sitting(e) = Pair(Row(r, e)) \ {0} /\ Row(r, e).black = e[2]
  <2>1. \A e : Pair(Row(r, e)) = {e[1], e[2]} /\ Row(r, e).black = e[2]
    BY DEF Pair, Row
  <2>2. \A e \in R : Sitting(e) # {}
    BY <1>12 DEF Pair
  <2>3. \A e \in ToSet(t) : Sitting(e) # {}
    BY <1>15, <1>17
  <2>. QED
    BY <1>16, <2>1, <2>2, <2>3 DEF Sitting
<1>19. SeatedOnce(S)
  <2>. SUFFICES ASSUME NEW e \in ToSet(d), NEW f \in ToSet(d), Row(r, e) # Row(r, f)
                PROVE  Pair(Row(r, e)) \cap Pair(Row(r, f)) \subseteq {0}
    BY DEF SeatedOnce
  <2>1. PICK i \in DOMAIN d, j \in DOMAIN d : e = d[i] /\ f = d[j]
    BY DEF ToSet
  <2>2. i # j
    BY <2>1
  <2>3. Sitting(e) \cap Sitting(f) = {}
    BY <1>16, <2>1, <2>2 DEF AllStrangers, Strangers
  <2>. QED
    BY <1>18, <2>3
<1>20. SeatedIn(S) = B \cup P
  <2>1. \A p : p \in SeatedIn(S) <=> \E e \in ToSet(d) : p \in Sitting(e)
    <3>1. \A p : p \in SeatedIn(S) <=> p # 0 /\ \E x \in S : p \in Pair(x)
      <4>1. \A p : p \in SeatedIn(S) => p # NoBlack /\ \E x \in S : p \in Pair(x)
        BY DEF SeatedIn
      <4>2. \A p : p # NoBlack /\ (\E x \in S : p \in Pair(x)) => p \in SeatedIn(S)
        BY DEF SeatedIn
      <4>. QED
        BY <4>1, <4>2
    <3>2. \A p : (\E x \in S : p \in Pair(x)) <=> \E e \in ToSet(d) : p \in Pair(Row(r, e))
      OBVIOUS
    <3>. QED
      BY <1>18, <3>1, <3>2
  <2>2. \A p \in B : \E e \in R : p \in Sitting(e)
    <3>. SUFFICES ASSUME NEW q \in Q, NEW p \in Pair(q) PROVE \E e \in R : p \in Sitting(e)
      BY <1>10
    <3>1. <<q.black, q.white>> \in R
      BY <1>2 DEF Reversed
    <3>2. PICK u \in Q : <<q.black, q.white>> = <<u.black, u.white>> /\ Sitting(<<q.black, q.white>>) = Pair(u)
      BY <1>12, <3>1
    <3>3. Pair(u) = Pair(q)
      BY <3>2 DEF Pair
    <3>. QED
      BY <3>1, <3>2, <3>3
  <2>3. \A p \in P : \E e \in ToSet(t) : p \in Sitting(e)
    BY <1>7 DEF ToSet
  <2>4. \A e \in R : Sitting(e) \subseteq B
    BY <1>12
  <2>5. \A e \in ToSet(t) : Sitting(e) \subseteq P
    BY <1>15, <1>17
  <2>. QED
    BY <1>16, <2>1, <2>2, <2>3, <2>4, <2>5
<1>21. B \cup P = Field(r) /\ Field(r) \subseteq entered
  <2>1. CASE format = "winners_advance" /\ r > 1
    <3>1. PICK L, A : L = Survivors(result, r - 1) /\ A = SeatedIn(InRound(result, r - 1))
      OBVIOUS
    <3>2. L \subseteq A /\ A \subseteq entered
      BY <2>1, <3>1, SurvivorsPlayed
    <3>3. Field(r) = L
      BY <2>1, <3>1 DEF Field
    <3>4. P = (entered \cap L) \ B
      BY <1>2, <1>10, <2>1, <3>1 DEF Pool, NotReplaying, Advancing
    <3>5. B \subseteq L
      BY <1>3, <1>10, <1>11, <3>1, SurvivorsPlayed
    <3>. QED
      BY <3>2, <3>3, <3>4, <3>5
  <2>2. CASE ~(format = "winners_advance" /\ r > 1)
    <3>1. B = {}
      BY <1>10, <1>11, <2>2
    <3>2. P = entered
      BY <1>2, <2>2 DEF Pool
    <3>3. Field(r) = entered
      BY <1>1, <2>2 DEF Field
    <3>. QED
      BY <3>1, <3>2, <3>3
  <2>. QED
    BY <2>1, <2>2
<1>22. ASSUME format = "winners_advance", r > 1, NEW p \in DrawnOnce(r) PROVE Row(r, <<p.black, p.white>>) \in S
  <2>1. p \in Q
    BY <1>2, <1>22 DEF DrawnOnce, Replays
  <2>2. <<p.black, p.white>> \in R
    BY <1>2, <2>1 DEF Reversed
  <2>. QED
    BY <1>16, <2>2
<1>23. ASSUME format = "winners_advance", NEW e \in ToSet(d), e[2] # 0
       PROVE  ~DrawCap(DrawsOf(result, r - 1, Pair(Row(r, e))))
  <2>1. CASE e \in R
    <3>1. PICK q \in Q : Sitting(e) = Pair(q) /\ e = <<q.black, q.white>>
      BY <1>12, <2>1
    <3>2. Pair(Row(r, e)) = Pair(q)
      BY <3>1 DEF Pair, Row
    <3>3. ~DrawCap(DrawsOf(result, r - 1, Pair(q)))
      BY <1>2 DEF Replays
    <3>. QED
      BY <3>2, <3>3
  <2>2. CASE e \in ToSet(t)
    <3>1. Sitting(e) \notin C /\ e[1] \in P /\ e[2] \in P
      BY <1>7, <1>15, <1>17, <1>23, <2>2
    <3>2. PICK m : m = Pair(Row(r, e))
      OBVIOUS
    <3>3. m = Sitting(e)
      BY <1>1, <1>3, <3>1, <3>2 DEF Pair, Row, Sitting
    <3>4. PICK D : D = {p \in DOMAIN result : p.round <= r - 1 /\ result[p] = Draw /\ Pair(p) = m}
      OBVIOUS
    <3>5. DrawsOf(result, r - 1, m) = Cardinality(D)
      BY <3>4 DEF DrawsOf
    <3>6. CASE \E p \in DOMAIN result : p.black # NoBlack /\ Pair(p) = m
      <4>1. ~DrawCap(DrawsOf(result, MaxRounds, m))
        BY <1>2, <1>23, <3>1, <3>3, <3>6 DEF Capped
      <4>2. \A p \in DOMAIN result : p.round \in Nat /\ p.round < r
        BY DEF Pairings, TypeOK, PairingRows, Rounds
      <4>3. \A p \in DOMAIN result : p.round <= r - 1 /\ p.round <= MaxRounds
        BY <4>2
      <4>4. D = {p \in DOMAIN result : p.round <= MaxRounds /\ result[p] = Draw /\ Pair(p) = m}
        BY <3>4, <4>3
      <4>. QED
        BY <3>2, <3>5, <4>1, <4>4 DEF DrawsOf
    <3>7. CASE ~\E p \in DOMAIN result : p.black # NoBlack /\ Pair(p) = m
      <4>1. \A p \in DOMAIN result : result[p] = Draw => p.black # NoBlack
        BY DEF TypeOK, Pairings, Draw
      <4>2. D = {}
        BY <3>4, <3>7, <4>1
      <4>. QED
        BY <3>2, <3>5, <4>2, FS_EmptySet DEF DrawCap
    <3>. QED
      BY <3>6, <3>7
  <2>. QED
    BY <1>16, <2>1, <2>2
<1>24. WellDealt(r, S)
  <2>1. \A p \in S : \E e \in ToSet(d) : p = Row(r, e) /\ p.black = e[2]
    BY <1>18
  <2>2. format = "winners_advance" => \A p \in S : p.black # NoBlack => ~DrawCap(DrawsOf(result, r - 1, Pair(p)))
    BY <1>23, <2>1
  <2>. QED
    BY <1>19, <1>20, <1>21, <1>22, <2>2 DEF WellDealt
<1>25. \A i \in DOMAIN d : Sitting(d[i]) # {}
  BY <1>18 DEF ToSet
<1>. QED
  BY <1>16, <1>24, <1>25


-----------------------------------------------------------------------------
(* The rounds before one that is being dealt are over and decided.         *)
LEMMA EarlierRoundsOver ==
    ASSUME EventInv, FieldInv, NEW r \in Rounds, RoundRows(r) # {} \/ Begun(r)
    PROVE  /\ \A q \in Rounds : q < r => round_status[q] = "completed" /\ RoundComplete(q)
           /\ \A p \in Pairings : p.round < r => result[p] # "pending"
<1>. TypeOK /\ RoundsInOrder /\ DealtOnce /\ OverIsDecided
  BY DEF EventInv, FieldInv
<1>1. InRound(result, r) # {} \/ Begun(r)
  <2>1. ToInsert(r) # {} => tick.step = "insert" /\ tick.round = r
    BY DEF ToInsert
  <2>. QED
    BY <2>1 DEF RoundRows, DealtOnce
<1>2. \A q \in Rounds : q < r => round_status[q] = "completed" /\ RoundComplete(q)
  BY <1>1 DEF RoundsInOrder, Begun, OverIsDecided
<1>3. \A p \in Pairings : p.round \in Rounds /\ p \in InRound(result, p.round)
  BY DEF TypeOK, PairingRows, InRound, Pairings
<1>. QED
  BY <1>2, <1>3 DEF RoundComplete

(* A round dealt well stays so while its rows stay, nothing decided before *)
(* it is rewritten and no earlier round gets a row.                        *)
LEMMA DealKept ==
    ASSUME EventInv, EventInv', FieldInv, NEW r \in Rounds, RoundRows(r) # {}, RoundRows(r)' = RoundRows(r),
           UNCHANGED <<format, entered>>, Pairings \subseteq Pairings',
           \A p \in Pairings : result[p] # "pending" => result'[p] = result[p],
           \A p \in Pairings' : p \in Pairings \/ ~(p.round < r)
    PROVE  WellDealt(r, RoundRows(r))'
<1>. r \in Int /\ TypeOK
  BY DEF Rounds, EventInv
<1>1. PICK k \in Int : k = r - 1
  OBVIOUS
<1>2. \A p \in Pairings : p.round \in Int
  BY DEF TypeOK, PairingRows, Rounds
<1>3. \A p : p \in DOMAIN result /\ p.round <= k <=> p \in DOMAIN result' /\ p.round <= k
  <2>1. \A p \in Pairings' : p.round \in Int
    BY DEF EventInv, TypeOK, PairingRows, Rounds
  <2>2. \A p \in Pairings' : p.round <= k => p \in Pairings
    BY <1>1, <2>1
  <2>. QED
    BY <2>2 DEF Pairings
<1>4. \A p \in DOMAIN result : p.round <= k => result[p] = result'[p]
  <2>1. \A p \in Pairings : p.round < r => result[p] # "pending"
    BY EarlierRoundsOver
  <2>. QED
    BY <1>1, <1>2, <2>1 DEF Pairings
<1>5. PICK a, b : a = result /\ b = result'
  OBVIOUS
<1>6. /\ InRound(a, k) = InRound(b, k)
      /\ Survivors(a, k) = Survivors(b, k)
      /\ \A m : DrawsOf(a, k, m) = DrawsOf(b, k, m)
  <2>1. /\ \A p : p \in DOMAIN a /\ p.round <= k <=> p \in DOMAIN b /\ p.round <= k
        /\ \A p \in DOMAIN a : p.round <= k => a[p] = b[p]
    BY <1>3, <1>4, <1>5
  <2>. QED
    BY <2>1, RoundsBefore
<1>7. \A p \in InRound(a, k) : a[p] = b[p]
  BY <1>1, <1>2, <1>4, <1>5 DEF InRound, Pairings
<1>8. PICK S : S = RoundRows(r)
  OBVIOUS
<1>9. WellDealt(r, S)
  BY <1>8 DEF FieldInv, RoundsDealt
<1>10. Field(r)' = Field(r)
  BY <1>1, <1>5, <1>6 DEF Field
<1>11. DrawnOnce(r)' = DrawnOnce(r)
  BY <1>1, <1>5, <1>6, <1>7 DEF DrawnOnce
<1>12. \A p : DrawsOf(result, r - 1, Pair(p))' = DrawsOf(result, r - 1, Pair(p))
  BY <1>1, <1>5, <1>6
<1>13. WellDealt(r, S)'
  BY <1>9, <1>10, <1>11, <1>12 DEF WellDealt
<1>. QED
  BY <1>8, <1>13


(* Steps that add no pairing and rewrite no decided one.                   *)
LEMMA StepKeepsField ==
    ASSUME EventInv, EventInv', FieldInv, UNCHANGED <<format, entered, creator>>, Pairings' = Pairings,
           \A p \in Pairings : result[p] # "pending" => result'[p] = result[p],
           \A q \in Rounds : round_status'[q] = "completed" =>
               \/ round_status[q] = "completed"
               \/ RoundComplete(q) /\ ~(tick.step = "insert" /\ tick.round = q),
           tick' = tick \/ (tick.step # "insert" /\ tick'.step # "insert"),
           \A g \in DOMAIN game' : tick.step = "insert" /\ g.round = tick.round => game'[g].step = "playing"
    PROVE  FieldInv'
<1>. /\ creator = Idle /\ OverIsDecided /\ DealOpen /\ RoundsDealt
     /\ LocalStates
  BY DEF FieldInv, EventInv
<1>1. \A q \in Rounds : InRound(result', q) = InRound(result, q)
  BY DEF InRound, Pairings
<1>2. \A q \in Rounds : RoundRows(q)' = RoundRows(q)
  <2>1. \A q \in Rounds : ToInsert(q)' = ToInsert(q)
    BY DEF ToInsert
  <2>. QED
    BY <1>1, <2>1 DEF RoundRows
<1>3. OverIsDecided'
  <2>1. \A q \in Rounds : RoundComplete(q) => RoundComplete(q)'
    <3>1. \A q \in Rounds : InRound(result, q) \subseteq Pairings
      BY DEF InRound, Pairings
    <3>. QED
      BY <1>1, <3>1 DEF RoundComplete
  <2>2. \A q \in Rounds : round_status'[q] = "completed" => RoundComplete(q)
    BY DEF OverIsDecided
  <2>. QED
    BY <2>1, <2>2 DEF OverIsDecided
<1>4. DealOpen'
  <2>. SUFFICES ASSUME tick'.step = "insert" PROVE DealOpen'
    BY DEF DealOpen
  <2>1. tick' = tick /\ tick.step = "insert"
    OBVIOUS
  <2>2. tick.round \in Rounds
    BY <2>1 DEF LocalStates, TickStates, Opening
  <2>3. round_status'[tick.round] # "completed"
    BY <2>1, <2>2 DEF DealOpen
  <2>4. \A g \in DOMAIN game' : g.round = tick.round => game'[g].step = "playing"
    BY <2>1
  <2>5. /\ \A i \in DOMAIN tick.todo : Row(tick.round, tick.todo[i]) \notin Pairings
        /\ \A i, j \in DOMAIN tick.todo : i # j => tick.todo[i] # tick.todo[j]
    BY <2>1 DEF DealOpen
  <2>. QED
    BY <2>1, <2>3, <2>4, <2>5 DEF DealOpen
<1>5. RoundsDealt'
  <2>1. \A r \in Rounds : RoundRows(r) # {} => WellDealt(r, RoundRows(r))'
    BY <1>2, DealKept
  <2>. QED
    BY <1>2, <2>1 DEF RoundsDealt
<1>. QED
  BY <1>3, <1>4, <1>5 DEF FieldInv

(* A round ends by advancing when its pairings are decided.                *)
LEMMA OnlyDecidedEnd ==
    ASSUME TypeOK, NEW r \in Rounds, NEW cut \in Cuts, MaybeAdvance(r, cut),
           NEW q \in Rounds, round_status'[q] = "completed", round_status[q] # "completed"
    PROVE  q = r /\ RoundComplete(r)
<1>. Rounds = 1..MaxRounds /\ MaxRounds \in Nat /\ r \in Nat
  BY LimitAssumption DEF Rounds
<1>1. round_status \in [Rounds -> {"none", "scheduled", "live", "completed"}]
  BY DEF TypeOK
<1>2. RoundComplete(r) /\ cut # "first"
  <2>1. ~RoundComplete(r) \/ cut = "first" => round_status' = round_status
    BY DEF MaybeAdvance, roundVars
  <2>. QED
    BY <2>1
<1>3. AllocateRound(r + 1) \/ round_status' = [round_status EXCEPT ![r] = "completed"]
  BY <1>2 DEF MaybeAdvance
<1>4. CASE round_status' = [round_status EXCEPT ![r] = "completed"]
  BY <1>1, <1>2, <1>4
<1>5. CASE AllocateRound(r + 1)
  <2>1. (r + 1) - 1 = r
    OBVIOUS
  <2>2. \/ round_status' = [round_status EXCEPT ![r + 1] = "scheduled", ![(r + 1) - 1] = "completed"]
        \/ round_status' = [round_status EXCEPT ![(r + 1) - 1] = "completed"]
    BY <1>5 DEF AllocateRound
  <2>3. q = (r + 1) - 1
    BY <1>1, <2>2
  <2>. QED
    BY <1>2, <2>1, <2>3
<1>. QED
  BY <1>3, <1>4, <1>5


LEMMA NothingFails == Undisturbed => ~Fails /\ ~TickAbort /\ \A K : Happen(K) => "correction" \notin K
BY DEF Undisturbed, Fails, TickAbort, Happen

(* A result that may be recorded is the first of its pairing or the same   *)
(* again.                                                                  *)
LEMMA RecordingKeepsField ==
    ASSUME EventInv, EventInv', FieldInv, UNCHANGED <<format, entered, creator, round_status>>,
           NEW pr \in Pairings, NEW res, CanRecord(pr, res), Record(pr, res),
           tick' = tick \/ (tick.step # "insert" /\ tick'.step # "insert"),
           \A g \in DOMAIN game' : tick.step = "insert" /\ g.round = tick.round => game'[g].step = "playing"
    PROVE  FieldInv'
<1>1. result' = [result EXCEPT ![pr] = res]
  BY DEF Record
<1>2. Pairings' = Pairings /\ \A p \in Pairings : result[p] # "pending" => result'[p] = result[p]
  BY <1>1 DEF Pairings, CanRecord
<1>. QED
  BY <1>2, StepKeepsField

LEMMA GameKeepsField ==
    ASSUME Undisturbed, EventInv, EventInv', FieldInv, NEW pr \in Pairings, Play(pr)
    PROVE  FieldInv'
<1>. DealOpen /\ TypeOK
  BY DEF EventInv, FieldInv
<1>1. CASE GameStarts(pr)
  <2>1. /\ UNCHANGED <<format, entered, creator, result, round_status, tick>> /\ Pairings' = Pairings
        /\ game' = [p \in DOMAIN game \cup {pr} |-> IF p = pr THEN [step |-> "playing"] ELSE game[p]]
    BY <1>1 DEF GameStarts, eventVars, roundVars, tableVars, Pairings
  <2>2. \A g \in DOMAIN game' : tick.step = "insert" /\ g.round = tick.round => game'[g].step = "playing"
    BY <2>1 DEF DealOpen
  <2>. QED
    BY <2>1, <2>2, StepKeepsField
<1>2. CASE pr \in DOMAIN game /\ \E res \in GameResults : GameOver(pr, res)
  <2>1. /\ UNCHANGED <<format, entered, creator, result, round_status, tick>> /\ Pairings' = Pairings
        /\ tick.step # "insert"
    BY <1>2 DEF GameOver, Undisturbed, Idle, eventVars, roundVars, tableVars, Pairings
  <2>. QED
    BY <2>1, StepKeepsField
<1>3. ASSUME pr \in DOMAIN game, ~GameAt(pr, "playing"), NEW g, game' = [game EXCEPT ![pr] = g]
      PROVE  /\ tick.step = "insert" => pr.round # tick.round
             /\ \A p \in DOMAIN game' : tick.step = "insert" /\ p.round = tick.round => game'[p].step = "playing"
  <2>1. tick.step = "insert" => pr.round # tick.round
    BY <1>3 DEF DealOpen, GameAt
  <2>2. \A p \in DOMAIN game' : p \in DOMAIN game /\ (p # pr => game'[p] = game[p])
    BY <1>3
  <2>. QED
    BY <2>1, <2>2 DEF DealOpen
<1>4. CASE pr \in DOMAIN game /\ LookUpPairing(pr)
  <2>1. /\ UNCHANGED <<format, entered, creator, result, round_status, tick>> /\ Pairings' = Pairings
        /\ ~GameAt(pr, "playing") /\ \E g : game' = [game EXCEPT ![pr] = g]
    BY <1>4 DEF LookUpPairing, GameAt, eventVars, roundVars, tableVars, Pairings
  <2>2. \A p \in DOMAIN game' : tick.step = "insert" /\ p.round = tick.round => game'[p].step = "playing"
    BY <1>3, <1>4, <2>1
  <2>. QED
    BY <2>1, <2>2, StepKeepsField
<1>5. CASE pr \in DOMAIN game /\ RecordGameResult(pr)
  <2>1. /\ UNCHANGED <<format, entered, creator, round_status, tick>>
        /\ ~GameAt(pr, "playing") /\ \E g : game' = [game EXCEPT ![pr] = g]
    BY <1>5 DEF RecordGameResult, GameAt, eventVars, roundVars, tableVars
  <2>2. \A p \in DOMAIN game' : tick.step = "insert" /\ p.round = tick.round => game'[p].step = "playing"
    BY <1>3, <1>5, <2>1
  <2>3. \/ CanRecord(pr, game[pr].res) /\ Record(pr, game[pr].res)
        \/ result' = result
    BY <1>5 DEF RecordGameResult
  <2>4. CASE result' = result
    BY <2>1, <2>2, <2>4, StepKeepsField DEF Pairings
  <2>. QED
    BY <2>1, <2>2, <2>3, <2>4, RecordingKeepsField
<1>6. CASE pr \in DOMAIN game /\ AdvanceAfterGame(pr)
  <2>1. /\ UNCHANGED <<format, entered, creator, result, tick>> /\ Pairings' = Pairings
        /\ ~GameAt(pr, "playing") /\ \E g : game' = [game EXCEPT ![pr] = g]
        /\ \E cut \in Cuts : MaybeAdvance(pr.round, cut)
    BY <1>6 DEF AdvanceAfterGame, GameAt, eventVars, tableVars, Pairings
  <2>2. /\ tick.step = "insert" => pr.round # tick.round
        /\ \A p \in DOMAIN game' : tick.step = "insert" /\ p.round = tick.round => game'[p].step = "playing"
    BY <1>3, <1>6, <2>1
  <2>3. pr.round \in Rounds
    BY DEF TypeOK, PairingRows
  <2>4. \A q \in Rounds : round_status'[q] = "completed" =>
               \/ round_status[q] = "completed"
               \/ RoundComplete(q) /\ ~(tick.step = "insert" /\ tick.round = q)
    BY <2>1, <2>2, <2>3, OnlyDecidedEnd
  <2>. QED
    BY <2>1, <2>2, <2>4, StepKeepsField
<1>. QED
  BY <1>1, <1>2, <1>4, <1>5, <1>6 DEF Play

(* Registration and check-in.                                              *)
LEMMA EntryKeepsField ==
    ASSUME EventInv, EventInv', FieldInv, NEW p \in Players, Join(p) \/ Leave(p)
    PROVE  FieldInv'
<1>. TypeOK /\ LocalStates /\ DealtOnce /\ FieldClosed /\ creator = Idle
  BY DEF EventInv, FieldInv
<1>1. UNCHANGED <<result, round_status, tick, creator, game>> /\ now < RegistrationEnds
  BY DEF Join, Leave, RegistrationGate, roundVars
<1>2. now \in Int /\ RegistrationEnds \in Int
  BY EndOfRegistration DEF TypeOK
<1>3. Pairings = {} /\ ~\E q \in Rounds : Begun(q)
  BY <1>1, <1>2 DEF FieldClosed
<1>4. tick.step # "insert"
  BY <1>3 DEF DealtOnce, LocalStates, TickStates, Opening
<1>5. \A r \in Rounds : RoundRows(r)' = {}
  BY <1>1, <1>3, <1>4 DEF RoundRows, ToInsert, InRound, Pairings
<1>6. OverIsDecided'
  BY <1>1, <1>3 DEF OverIsDecided, Begun
<1>. QED
  BY <1>1, <1>4, <1>5, <1>6 DEF FieldInv, DealOpen, RoundsDealt


(* The steps of a pass that insert nothing.                                *)
LEMMA PassKeepsField ==
    ASSUME Undisturbed, EventInv, EventInv', FieldInv,
           \/ TickClose \/ \E r \in Rounds : TickClaim(r) \/ TickExpired(r)
           \/ TickStatus \/ TickRound \/ TickRecompute \/ TickCheckins \/ TickPairings
           \/ TickForfeit \/ TickAdvance
    PROVE  FieldInv'
<1>. TypeOK /\ LocalStates
  BY DEF EventInv
<1>1. CASE TickClose \/ \E r \in Rounds : TickExpired(r)
  <2>1. /\ UNCHANGED <<format, entered, creator, result, round_status, game>> /\ Pairings' = Pairings
        /\ tick.step # "insert" /\ tick'.step # "insert"
    BY <1>1 DEF TickClose, TickExpired, At, eventVars, roundVars, tableVars, Pairings
  <2>. QED
    BY <2>1, StepKeepsField
<1>2. CASE \E r \in Rounds : TickClaim(r)
  <2>1. PICK r \in Rounds : TickClaim(r)
    BY <1>2
  <2>2. /\ UNCHANGED <<format, entered, creator, result, game>> /\ Pairings' = Pairings
        /\ tick.step # "insert" /\ tick'.step # "insert"
        /\ round_status' = [round_status EXCEPT ![r] = "live"]
    BY <2>1 DEF TickClaim, At, eventVars, tableVars, Pairings
  <2>3. \A q \in Rounds : round_status'[q] = "completed" => round_status[q] = "completed"
    BY <2>2 DEF TypeOK
  <2>. QED
    BY <2>2, <2>3, StepKeepsField
<1>3. CASE TickStatus \/ TickRound \/ TickRecompute
  <2>1. /\ UNCHANGED <<format, entered, creator, result, round_status, game>> /\ Pairings' = Pairings
        /\ tick.step \in Opening \cup {"recompute"} /\ tick.step # "insert"
        /\ \E s \in {"round", "deal", "advance"} : tick' = [tick EXCEPT !.step = s]
    BY <1>3, NothingFails
       DEF TickStatus, TickRound, TickRecompute, TickGoto, At, Opening, eventVars, roundVars, tableVars, Pairings
  <2>2. tick \in TickStates
    BY DEF LocalStates
  <2>3. \A s \in {"round", "deal", "advance"} : [tick EXCEPT !.step = s].step = s
    BY <2>1, <2>2, TickIs DEF Opening
  <2>4. tick'.step # "insert"
    BY <2>1, <2>3
  <2>. QED
    BY <2>1, <2>4, StepKeepsField
<1>4. CASE TickCheckins \/ TickPairings
  <2>1. /\ UNCHANGED <<format, entered, creator, result, round_status, game>> /\ Pairings' = Pairings
        /\ tick.step # "insert" /\ tick'.step # "insert"
    BY <1>4 DEF TickCheckins, TickPairings, At, eventVars, roundVars, tableVars, Pairings
  <2>. QED
    BY <2>1, StepKeepsField
<1>5. CASE TickForfeit
  <2>1. /\ UNCHANGED <<format, entered, creator, round_status, game>> /\ tick.step = "forfeit"
    BY <1>5 DEF TickForfeit, At, eventVars, roundVars
  <2>2. tick \in [step : {"forfeit"}, round : Rounds, todo : Seq(Verdicts)]
    BY <2>1 DEF LocalStates, TickStates, Opening
  <2>3. tick'.step # "insert"
    <3>1. \/ tick' = [step |-> "advance", round |-> tick.round]
          \/ tick' = [tick EXCEPT !.todo = Tail(@)]
          \/ tick' = Idle
      BY <1>5 DEF TickForfeit, TickAbort
    <3>. QED
      BY <2>2, <3>1 DEF Idle
  <2>4. CASE result' = result
    BY <2>1, <2>3, <2>4, StepKeepsField DEF Pairings
  <2>5. CASE result' # result
    <3>1. tick.todo # <<>>
      BY <1>5, <2>5 DEF TickForfeit
    <3>2. Head(tick.todo) \in Verdicts
      BY <2>2, <3>1
    <3>3. PICK pr, res : pr = Head(tick.todo)[1] /\ res = Head(tick.todo)[2]
      OBVIOUS
    <3>4. pr \in Pairings
      BY <3>2, <3>3 DEF Verdicts
    <3>5. CanRecord(pr, res) /\ Record(pr, res)
      BY <1>5, <2>5, <3>1, <3>3 DEF TickForfeit
    <3>. QED
      BY <2>1, <2>3, <3>4, <3>5, RecordingKeepsField
  <2>. QED
    BY <2>4, <2>5
<1>6. CASE TickAdvance
  <2>1. /\ UNCHANGED <<format, entered, creator, result, game>> /\ Pairings' = Pairings
        /\ tick.step = "advance" /\ tick' = Idle /\ \E cut \in Cuts : MaybeAdvance(tick.round, cut)
    BY <1>6 DEF TickAdvance, At, tableVars, Pairings
  <2>2. tick.round \in Rounds
    BY <2>1 DEF LocalStates, TickStates, Opening
  <2>3. \A q \in Rounds : round_status'[q] = "completed" =>
               round_status[q] = "completed" \/ RoundComplete(q)
    BY <2>1, <2>2, OnlyDecidedEnd
  <2>4. tick.step # "insert" /\ tick'.step # "insert"
    BY <2>1 DEF Idle
  <2>. QED
    BY <2>1, <2>3, <2>4, StepKeepsField
<1>. QED
  BY <1>1, <1>2, <1>3, <1>4, <1>5, <1>6

(* Round one is paired from the field.                                     *)
LEMMA PreviewKeepsField ==
    ASSUME EventInv, EventInv', FieldInv, TickPreview
    PROVE  FieldInv'
<1>. /\ TypeOK /\ RoundsInOrder /\ LocalStates /\ creator = Idle /\ OverIsDecided
     /\ IsFiniteSet(Pairings)
  BY DEF EventInv, FieldInv, LocalStates
<1>0. 1 \in Rounds /\ \A q \in Rounds : q # 1 => 1 < q
  BY FormatAssumption, LimitAssumption DEF Rounds
<1>1. /\ UNCHANGED <<format, round_status, entered, game, creator, tick>>
      /\ round_status[1] = "scheduled" /\ InRound(result, 1) = {} /\ tick.step = "idle"
  BY DEF TickPreview, PreviewDue, At, eventVars, roundVars
<1>2. Pairings = {}
  <2>1. \A p \in Pairings : p.round \in Rounds /\ p \in InRound(result, p.round)
    BY DEF TypeOK, PairingRows, InRound, Pairings
  <2>. QED
    BY <1>0, <1>1, <2>1 DEF RoundsInOrder
<1>3. PICK d, S : d = Deal(1, result) /\ S = {Row(1, e) : e \in ToSet(d)}
  OBVIOUS
<1>4. WellDealt(1, S)
  BY <1>0, <1>2, <1>3, DealIsWhole
<1>5. ToSet(d) \in SUBSET Entries /\ result' = Insert(result, 1, ToSet(d))
  BY <1>0, <1>3, DealIs DEF ToSet, TickPreview
<1>6. Pairings' = S /\ DOMAIN result' = S
  <2>1. Pairings' = Pairings \cup {Row(1, e) : e \in ToSet(d)}
    BY <1>0, <1>5, InsertIs
  <2>. QED
    BY <1>2, <1>3, <2>1 DEF Pairings
<1>7. \A p \in S : p.round = 1
  BY <1>3 DEF Row
<1>8. RoundRows(1)' = S /\ \A q \in Rounds : q # 1 => RoundRows(q)' = {}
  BY <1>1, <1>6, <1>7 DEF RoundRows, ToInsert, InRound
<1>9. WellDealt(1, S)'
  <2>1. Field(1)' = Field(1)
    BY <1>1 DEF Field
  <2>2. \A m : DrawsOf(result', 0, m) = DrawsOf(result, 0, m)
    <3>1. {p \in DOMAIN result' : p.round <= 0} = {} /\ DOMAIN result = {}
      BY <1>2, <1>6, <1>7 DEF Pairings
    <3>2. \A m : {p \in DOMAIN result' : p.round <= 0 /\ result'[p] = Draw /\ Pair(p) = m}
                   = {p \in DOMAIN result : p.round <= 0 /\ result[p] = Draw /\ Pair(p) = m}
      BY <3>1
    <3>. QED
      BY <3>2 DEF DrawsOf
  <2>3. \A p : DrawsOf(result, 1 - 1, Pair(p))' = DrawsOf(result, 1 - 1, Pair(p))
    BY <2>2
  <2>. QED
    BY <1>1, <1>4, <2>1, <2>3 DEF WellDealt
<1>10. RoundsDealt'
  BY <1>8, <1>9 DEF RoundsDealt
<1>11. OverIsDecided'
  <2>1. \A q \in Rounds : round_status[q] # "completed"
    BY <1>2 DEF OverIsDecided, RoundComplete, InRound, Pairings
  <2>. QED
    BY <1>1, <2>1 DEF OverIsDecided
<1>. QED
  BY <1>1, <1>10, <1>11 DEF FieldInv, DealOpen


(* A later round is dealt from the rounds before it.                       *)
LEMMA DealKeepsField ==
    ASSUME Undisturbed, EventInv, EventInv', FieldInv, TickDeal
    PROVE  FieldInv'
<1>. /\ TypeOK /\ RoundsInOrder /\ LocalStates /\ DealtOnce /\ creator = Idle /\ OverIsDecided /\ RoundsDealt
     /\ IsFiniteSet(Pairings)
  BY DEF EventInv, FieldInv, LocalStates
<1>1. /\ UNCHANGED <<format, round_status, entered, game, creator, result>> /\ Pairings' = Pairings
      /\ tick.step = "deal"
  BY DEF TickDeal, At, eventVars, roundVars, tableVars, Pairings
<1>2. PICK r \in Rounds : r = tick.round
  BY <1>1 DEF LocalStates, TickStates, Opening
<1>. r \in Nat /\ r \in 1..MaxRounds /\ MaxRounds \in Nat
  BY LimitAssumption DEF Rounds
<1>3. PICK d, S : d = Deal(r, result) /\ S = {Row(r, e) : e \in ToSet(d)}
  OBVIOUS
<1>4. \/ tick' = Idle
      \/ InRound(result, r) = {} /\ tick' = [step |-> "insert", round |-> r, todo |-> d]
  BY <1>2, <1>3, NothingFails DEF TickDeal
<1>5. CASE tick' = Idle
  <2>1. tick.step # "insert" /\ tick'.step # "insert"
    BY <1>1, <1>5 DEF Idle
  <2>. QED
    BY <1>1, <2>1, StepKeepsField
<1>6. CASE InRound(result, r) = {} /\ tick' = [step |-> "insert", round |-> r, todo |-> d]
  <2>1. Begun(r) /\ round_status[r] # "completed"
    BY <1>1, <1>2, <1>6 DEF DealtOnce, Opening, OverIsDecided, RoundComplete
  <2>2. \A p \in Pairings : p.round < r
    <3>1. \A p \in Pairings : p.round \in Rounds /\ p \in InRound(result, p.round)
      BY DEF TypeOK, PairingRows, InRound, Pairings
    <3>2. \A p \in Pairings : p.round # r /\ ~(r < p.round)
      BY <1>6, <2>1, <3>1 DEF RoundsInOrder
    <3>. QED
      BY <3>1, <3>2 DEF Rounds
  <2>3. ASSUME r > 1
        PROVE  SeatedOnce(InRound(result, r - 1)) /\ SeatedIn(InRound(result, r - 1)) \subseteq entered
    <3>1. r - 1 \in Rounds /\ r - 1 < r
      BY <2>3 DEF Rounds
    <3>2. PICK k \in Rounds : k = r - 1
      BY <3>1
    <3>3. InRound(result, k) # {}
      BY <2>1, <3>1, <3>2, EarlierRoundsOver DEF RoundComplete
    <3>4. RoundRows(k) = InRound(result, k)
      BY <1>1 DEF RoundRows, ToInsert
    <3>5. WellDealt(k, InRound(result, k))
      BY <3>3, <3>4 DEF RoundsDealt
    <3>. QED
      BY <3>2, <3>5 DEF WellDealt
  <2>4. AllStrangers(d) /\ (\A i \in DOMAIN d : Sitting(d[i]) # {}) /\ WellDealt(r, S)
    BY <1>3, <2>2, <2>3, DealIsWhole
  <2>5. DealOpen'
    <3>1. \A g \in DOMAIN game : g.round # r
      BY <2>2 DEF TypeOK
    <3>2. \A i \in DOMAIN d : Row(r, d[i]) \notin Pairings
      BY <2>2 DEF Row
    <3>3. \A i, j \in DOMAIN d : i # j => d[i] # d[j]
      BY <2>4 DEF AllStrangers, Strangers
    <3>. QED
      BY <1>1, <1>6, <2>1, <3>1, <3>2, <3>3 DEF DealOpen
  <2>6. RoundRows(r)' = S /\ \A q \in Rounds : q # r => RoundRows(q)' = RoundRows(q)
    <3>1. ToInsert(r)' = S
      BY <1>3, <1>6 DEF ToInsert
    <3>2. \A q \in Rounds : q # r => ToInsert(q)' = {} /\ ToInsert(q) = {}
      BY <1>1, <1>6 DEF ToInsert
    <3>. QED
      BY <1>1, <1>6, <3>1, <3>2 DEF RoundRows
  <2>7. WellDealt(r, S)'
    BY <1>1, <2>4 DEF WellDealt, Field, DrawnOnce
  <2>8. \A q \in Rounds : q # r /\ RoundRows(q) # {} => WellDealt(q, RoundRows(q))'
    BY <1>1, <2>6, DealKept
  <2>9. RoundsDealt'
    BY <2>6, <2>7, <2>8 DEF RoundsDealt
  <2>10. OverIsDecided'
    BY <1>1 DEF OverIsDecided, RoundComplete
  <2>. QED
    BY <1>1, <2>5, <2>9, <2>10 DEF FieldInv
<1>. QED
  BY <1>4, <1>5, <1>6

(* The pairings of a round come in one by one; none of them is refused.    *)
LEMMA InsertKeepsField ==
    ASSUME Undisturbed, EventInv, EventInv', FieldInv, TickInsert
    PROVE  FieldInv'
<1>. /\ TypeOK /\ LocalStates /\ creator = Idle /\ OverIsDecided /\ RoundsDealt /\ DealOpen
     /\ IsFiniteSet(Pairings)
  BY DEF EventInv, FieldInv, LocalStates
<1>1. /\ UNCHANGED <<format, round_status, entered, game, creator>> /\ tick.step = "insert"
  BY DEF TickInsert, At, eventVars, roundVars
<1>2. tick \in [step : {"insert"}, round : Rounds, todo : Seq(Entries) \ {<<>>}]
  BY <1>1 DEF LocalStates, TickStates, Opening
<1>3. PICK r \in Rounds, todo \in Seq(Entries) : todo # <<>> /\ r = tick.round /\ todo = tick.todo
  BY <1>2
<1>4. PICK n \in Nat : n = Len(todo)
  BY <1>3
<1>. PICK rest : rest = Tail(todo)
  OBVIOUS
<1>5. /\ rest \in Seq(Entries) /\ n > 0 /\ Len(rest) = n - 1 /\ DOMAIN todo = 1..n /\ DOMAIN rest = 1..n - 1
      /\ \A i \in 1..n - 1 : rest[i] = todo[i + 1] /\ i + 1 \in 1..n
      /\ 1 \in 1..n /\ Head(todo) = todo[1]
  BY <1>3, <1>4
<1>6. PICK pair \in Entries : pair = todo[1]
  BY <1>3, <1>5
<1>7. /\ round_status[r] # "completed"
      /\ \A g \in DOMAIN game : g.round = r => game[g].step = "playing"
      /\ \A i \in 1..n : Row(r, todo[i]) \notin Pairings
      /\ \A i, j \in 1..n : i # j => todo[i] # todo[j]
  BY <1>1, <1>3, <1>5 DEF DealOpen
<1>8. ToInsert(r) = {Row(r, e) : e \in ToSet(todo)}
  BY <1>1, <1>3 DEF ToInsert
<1>9. Row(r, pair) \in ToInsert(r) /\ Row(r, pair) \notin Pairings
  <2>1. pair \in ToSet(todo)
    BY <1>5, <1>6 DEF ToSet
  <2>. QED
    BY <1>5, <1>6, <1>7, <1>8, <2>1
<1>10. ~RowTaken(r, pair)
  <2>. SUFFICES ASSUME NEW p \in InRound(result, r), p.white = pair[1] \/ (p.black = pair[2] /\ pair[2] # NoBlack)
                PROVE  FALSE
    BY DEF RowTaken
  <2>1. p # Row(r, pair) /\ p \in RoundRows(r) /\ Row(r, pair) \in RoundRows(r)
    BY <1>9 DEF RoundRows, InRound, Pairings
  <2>2. WellDealt(r, RoundRows(r))
    BY <2>1 DEF RoundsDealt
  <2>3. Pair(p) \cap Pair(Row(r, pair)) \subseteq {NoBlack}
    BY <2>1, <2>2 DEF WellDealt, SeatedOnce
  <2>4. pair[1] # NoBlack
    BY EntryAssumption DEF Entries, NoBlack
  <2>. QED
    BY <2>3, <2>4 DEF Pair, Row
<1>11. /\ result' = Insert(result, r, {pair})
       /\ tick' = IF n = 1 THEN [step |-> "recompute", round |-> r] ELSE [tick EXCEPT !.todo = rest]
  BY <1>3, <1>4, <1>5, <1>6, <1>10, NothingFails DEF TickInsert
<1>12. /\ Pairings' = Pairings \cup {Row(r, pair)}
       /\ \A p \in Pairings : result'[p] = result[p]
       /\ \A q \in Rounds : q # r => InRound(result', q) = InRound(result, q)
  <2>1. {pair} \in SUBSET Entries
    OBVIOUS
  <2>2. {Row(r, e) : e \in {pair}} = {Row(r, pair)}
    OBVIOUS
  <2>. QED
    BY <1>11, <2>1, <2>2, InsertIs
<1>13. InRound(result', r) = InRound(result, r) \cup {Row(r, pair)}
  <2>1. Row(r, pair).round = r
    BY DEF Row
  <2>. QED
    BY <1>12, <2>1 DEF InRound, Pairings
<1>14. ToSet(todo) = {pair} \cup ToSet(rest)
  <2>1. \A i \in 1..n : i = 1 \/ (i - 1 \in 1..n - 1 /\ todo[i] = rest[i - 1])
    BY <1>5
  <2>2. \A i \in 1..n : todo[i] \in {pair} \cup ToSet(rest)
    BY <1>5, <1>6, <2>1 DEF ToSet
  <2>3. \A i \in 1..n - 1 : rest[i] \in ToSet(todo)
    BY <1>5 DEF ToSet
  <2>4. pair \in ToSet(todo)
    BY <1>5, <1>6 DEF ToSet
  <2>. QED
    BY <1>5, <2>2, <2>3, <2>4 DEF ToSet
<1>15. \/ n = 1 /\ tick'.step = "recompute" /\ ToSet(rest) = {}
       \/ tick'.step = "insert" /\ tick'.round = r /\ tick'.todo = rest
  <2>1. CASE n = 1
    <3>1. ToSet(rest) = {}
      BY <1>5, <2>1 DEF ToSet
    <3>. QED
      BY <1>11, <2>1, <3>1
  <2>2. CASE n # 1
    <3>1. tick' = [tick EXCEPT !.todo = rest]
      BY <1>11, <2>2
    <3>. QED
      BY <1>2, <1>3, <3>1
  <2>. QED
    BY <2>1, <2>2
<1>16. \A q \in Rounds : RoundRows(q)' = RoundRows(q)
  <2>1. ToInsert(r)' = {Row(r, e) : e \in ToSet(rest)}
    BY <1>15 DEF ToInsert
  <2>2. RoundRows(r)' = RoundRows(r)
    BY <1>8, <1>13, <1>14, <2>1 DEF RoundRows
  <2>3. \A q \in Rounds : q # r => ToInsert(q) = {} /\ ToInsert(q)' = {}
    BY <1>3, <1>15 DEF ToInsert
  <2>. QED
    BY <1>12, <2>2, <2>3 DEF RoundRows
<1>17. \A q \in Rounds : RoundRows(q) # {} => WellDealt(q, RoundRows(q))'
  <2>. SUFFICES ASSUME NEW q \in Rounds, RoundRows(q) # {} PROVE WellDealt(q, RoundRows(q))'
    OBVIOUS
  <2>1. ~(r < q)
    BY <1>7, EarlierRoundsOver
  <2>2. \A p \in Pairings' : p \in Pairings \/ ~(p.round < q)
    BY <1>12, <2>1 DEF Row
  <2>. QED
    BY <1>1, <1>12, <1>16, <2>2, DealKept
<1>18. RoundsDealt'
  BY <1>16, <1>17 DEF RoundsDealt
<1>19. OverIsDecided'
  <2>. SUFFICES ASSUME NEW q \in Rounds, round_status[q] = "completed"
                PROVE  InRound(result', q) # {} /\ \A p \in InRound(result', q) : result'[p] # "pending"
    BY <1>1 DEF OverIsDecided, RoundComplete
  <2>1. InRound(result', q) = InRound(result, q) /\ InRound(result, q) \subseteq Pairings
    BY <1>7, <1>12 DEF InRound, Pairings
  <2>. QED
    BY <1>12, <2>1 DEF OverIsDecided, RoundComplete
<1>20. DealOpen'
  <2>. SUFFICES ASSUME tick'.step = "insert" PROVE DealOpen'
    BY DEF DealOpen
  <2>1. tick'.round = r /\ tick'.todo = rest
    BY <1>15
  <2>2. \A e, f \in Entries : Row(r, e) = Row(r, f) => e = f
    BY DEF Row, Entries
  <2>3. \A i \in 1..n - 1 : todo[i + 1] \in Entries /\ todo[i + 1] # pair
    BY <1>3, <1>5, <1>6, <1>7
  <2>4. \A i \in 1..n - 1 : Row(r, rest[i]) \notin Pairings'
    BY <1>5, <1>7, <1>12, <2>2, <2>3
  <2>5. \A i, j \in 1..n - 1 : i # j => i + 1 # j + 1
    OBVIOUS
  <2>6. \A i, j \in 1..n - 1 : i # j => rest[i] # rest[j]
    BY <1>5, <1>7, <2>5
  <2>. QED
    BY <1>1, <1>5, <1>7, <2>1, <2>4, <2>6 DEF DealOpen
<1>. QED
  BY <1>1, <1>18, <1>19, <1>20 DEF FieldInv


-----------------------------------------------------------------------------
LEMMA FieldInit == Init => FieldInv
<1>. SUFFICES ASSUME Init PROVE FieldInv
  OBVIOUS
<1>1. DOMAIN result = {} /\ tick.step # "insert" /\ creator = Idle
  BY DEF Init, Idle
<1>2. \A r \in Rounds : RoundRows(r) = {} /\ round_status[r] # "completed"
  BY <1>1 DEF Init, RoundRows, ToInsert, InRound
<1>. QED
  BY <1>1, <1>2 DEF FieldInv, OverIsDecided, DealOpen, RoundsDealt

LEMMA FieldStep ==
    ASSUME Undisturbed, EventInv, EventInv', FieldInv, [Next]_vars
    PROVE  FieldInv'
<1>. creator = Idle
  BY DEF FieldInv
<1>1. CASE UNCHANGED vars
  <2>1. /\ UNCHANGED <<format, entered, creator, result, round_status, game, tick>> /\ Pairings' = Pairings
    BY <1>1 DEF vars, eventVars, roundVars, tableVars, Pairings
  <2>2. \A g \in DOMAIN game : tick.step = "insert" /\ g.round = tick.round => game[g].step = "playing"
    BY DEF FieldInv, DealOpen
  <2>. QED
    BY <2>1, <2>2, StepKeepsField
<1>2. ASSUME NEW p \in Players, Join(p) \/ Leave(p) PROVE FieldInv'
  BY <1>2, EntryKeepsField
<1>3. CASE \/ \E p \in Players, r \in Rounds : CheckIn(p, r) \/ CheckOut(p, r)
           \/ \E open \in BOOLEAN : SetRegistration(open)
           \/ Time
  <2>1. /\ UNCHANGED <<format, entered, creator, result, round_status, game, tick>> /\ Pairings' = Pairings
    BY <1>3 DEF CheckIn, CheckOut, SetRegistration, Time, eventVars, roundVars, tableVars, Pairings
  <2>2. \A g \in DOMAIN game : tick.step = "insert" /\ g.round = tick.round => game[g].step = "playing"
    BY DEF FieldInv, DealOpen
  <2>. QED
    BY <2>1, <2>2, StepKeepsField
<1>4. ASSUME NEW pr \in Pairings, Play(pr) PROVE FieldInv'
  BY <1>4, GameKeepsField
<1>5. CASE Correction
  <2>1. ~OverrideWrite /\ ~OverrideAdvance
    BY DEF OverrideWrite, OverrideAdvance, Idle
  <2>2. \A pr, res : ~OverrideCheck(pr, res)
    BY NothingFails DEF OverrideCheck
  <2>. QED
    BY <1>5, <2>1, <2>2 DEF Correction
<1>6. CASE Maintenance
  BY <1>6, PassKeepsField, PreviewKeepsField, DealKeepsField, InsertKeepsField DEF Maintenance
<1>. QED
  BY <1>1, <1>2, <1>3, <1>4, <1>5, <1>6 DEF Next

(* A pair that draws meets once more and draws twice at most.              *)
LEMMA DrawsAreReplayed == EventInv /\ FieldInv => DrawsReplayed
<1>. SUFFICES ASSUME EventInv, FieldInv, format = "winners_advance", NEW pr \in Pairings, result[pr] = Draw
              PROVE  CASE DrawsOf(result, pr.round, Pair(pr)) > 2 -> FALSE
                       [] DrawsOf(result, pr.round, Pair(pr)) = 1 /\ InRound(result, pr.round + 1) # {} /\ ~At("insert") ->
                            Row(pr.round + 1, <<pr.black, pr.white>>) \in Pairings
                       [] OTHER -> TRUE
  BY DEF DrawsReplayed
<1>. TypeOK /\ RoundsDealt /\ IsFiniteSet(Pairings)
  BY DEF EventInv, FieldInv, LocalStates
<1>a. PICK r \in Rounds : r = pr.round
  BY DEF TypeOK, PairingRows
<1>b. PICK m : m = Pair(pr)
  OBVIOUS
<1>1. r = pr.round /\ m = Pair(pr)
  BY <1>a, <1>b
<1>. r \in Nat
  BY DEF Rounds
<1>2. pr \in InRound(result, r) /\ pr.black # NoBlack /\ pr.white # NoBlack /\ m = {pr.white, pr.black}
  BY <1>1, EntryAssumption DEF InRound, Pairings, TypeOK, PairingRows, Draw, Pair, NoBlack
<1>3. WellDealt(r, RoundRows(r)) /\ pr \in RoundRows(r) /\ InRound(result, r) \subseteq RoundRows(r)
  BY <1>2 DEF RoundRows, RoundsDealt
<1>4. PICK A, B : /\ A = {p \in DOMAIN result : p.round <= r - 1 /\ result[p] = Draw /\ Pair(p) = m}
                  /\ B = {p \in DOMAIN result : p.round <= r /\ result[p] = Draw /\ Pair(p) = m}
  OBVIOUS
<1>5. IsFiniteSet(A) /\ Cardinality(A) \in Nat /\ A \subseteq Pairings
  BY <1>4, FS_Subset, FS_CardinalityType DEF Pairings
<1>6. DrawsOf(result, r - 1, m) = Cardinality(A) /\ DrawsOf(result, r, m) = Cardinality(B)
  BY <1>4 DEF DrawsOf
<1>7. ~(Cardinality(A) >= 2)
  BY <1>1, <1>2, <1>3, <1>6 DEF WellDealt, DrawCap
<1>8. B = A \cup {pr}
  <2>1. \A p \in DOMAIN result : p.round \in Int /\ (p.round = r => p \in InRound(result, r))
    BY DEF TypeOK, PairingRows, Pairings, Rounds, InRound
  <2>2. \A p \in InRound(result, r) : Pair(p) = m => p = pr
    <3>1. \A p \in InRound(result, r) : p # pr => Pair(p) \cap m \subseteq {NoBlack}
      BY <1>1, <1>3 DEF WellDealt, SeatedOnce
    <3>. QED
      BY <1>2, <3>1
  <2>3. pr \in B
    BY <1>1, <1>4 DEF Pairings
  <2>4. \A p \in DOMAIN result : p.round <= r <=> p.round <= r - 1 \/ p.round = r
    BY <2>1
  <2>. QED
    BY <1>4, <2>1, <2>2, <2>3, <2>4
<1>9. Cardinality(B) \in Nat /\ Cardinality(B) <= 2
  <2>1. Cardinality(B) = IF pr \in A THEN Cardinality(A) ELSE Cardinality(A) + 1
    BY <1>5, <1>8, FS_AddElement
  <2>2. PICK k \in Nat : k = Cardinality(A)
    BY <1>5
  <2>. QED
    BY <1>7, <2>1, <2>2
<1>10. ASSUME DrawsOf(result, r, m) = 1, InRound(result, r + 1) # {}, ~At("insert")
       PROVE  Row(r + 1, <<pr.black, pr.white>>) \in Pairings
  <2>1. PICK k \in Rounds : k = r + 1
    <3>1. PICK p : p \in InRound(result, r + 1)
      BY <1>10
    <3>2. p.round \in Rounds /\ p.round = r + 1
      BY <3>1 DEF InRound, Pairings, TypeOK, PairingRows
    <3>. QED
      BY <3>2
  <2>2. RoundRows(k) = InRound(result, k)
    BY <1>10 DEF RoundRows, ToInsert, At
  <2>3. WellDealt(k, InRound(result, k))
    BY <1>10, <2>1, <2>2 DEF RoundsDealt
  <2>4. k > 1 /\ k - 1 = r
    BY <2>1 DEF Rounds
  <2>5. pr \in DrawnOnce(k)
    <3>1. pr \in InRound(result, k - 1) /\ DrawsOf(result, k - 1, Pair(pr)) = 1
      BY <1>1, <1>2, <1>10, <2>4
    <3>2. ~DrawCap(1)
      BY DEF DrawCap
    <3>. QED
      BY <3>1, <3>2 DEF DrawnOnce
  <2>6. Row(k, <<pr.black, pr.white>>) \in InRound(result, k)
    BY <2>3, <2>4, <2>5 DEF WellDealt
  <2>. QED
    BY <2>1, <2>6 DEF InRound, Pairings
<1>11. PICK D \in Nat : D = DrawsOf(result, r, m)
  BY <1>6, <1>9
<1>12. D <= 2
  BY <1>6, <1>9, <1>11
<1>13. D = 1 /\ InRound(result, r + 1) # {} /\ ~At("insert") => Row(r + 1, <<pr.black, pr.white>>) \in Pairings
  BY <1>10, <1>11
<1>14. CASE D = 1 /\ InRound(result, r + 1) # {} /\ ~At("insert")
  BY <1>1, <1>11, <1>12, <1>13, <1>14
<1>15. CASE ~(D = 1 /\ InRound(result, r + 1) # {} /\ ~At("insert"))
  BY <1>1, <1>11, <1>12, <1>15
<1>. QED
  BY <1>14, <1>15

(* Every round pairs exactly the players it must, nobody twice, nobody     *)
(* left out and a drawn pair once more with colours reversed, for every    *)
(* field, schedule, format and rating and whatever rounds draws add, while *)
(* no statement fails, nothing is corrected and games outlast the pass     *)
(* that pairs them (generate_round_pairings,                               *)
(* src/tournament/tournament_manager.cpp; swiss.cpp).                      *)
THEOREM FieldStaysPaired == Undisturbed => (Spec => []FieldIsPaired)
<1>. SUFFICES ASSUME Undisturbed PROVE Spec => []FieldIsPaired
  OBVIOUS
<1>1. Init => FieldInv
  BY FieldInit
<1>2. EventInv /\ EventInv' /\ FieldInv /\ [Next]_vars => FieldInv'
  BY FieldStep
<1>3. EventInv /\ FieldInv => FieldIsPaired
  <2>. SUFFICES ASSUME EventInv, FieldInv PROVE FieldIsPaired
    OBVIOUS
  <2>1. \A p \in Pairings : p.round \in Rounds /\ p \in RoundRows(p.round)
    BY DEF EventInv, TypeOK, PairingRows, RoundRows, InRound, Pairings
  <2>2. OnePairingPerRound
    <3>1. \A p \in Pairings : WellDealt(p.round, RoundRows(p.round))
      BY <2>1 DEF FieldInv, RoundsDealt
    <3>. QED
      BY <2>1, <3>1 DEF OnePairingPerRound, WellDealt, SeatedOnce
  <2>3. WholeFieldPaired
    <3>1. \A r \in Rounds : ~At("insert") => RoundRows(r) = InRound(result, r)
      BY DEF RoundRows, ToInsert, At
    <3>. QED
      BY <3>1 DEF WholeFieldPaired, FieldInv, RoundsDealt, WellDealt, SeatedIn
  <2>. QED
    BY <2>2, <2>3, DrawsAreReplayed DEF FieldIsPaired
<1>. QED
  BY <1>1, <1>2, <1>3, EventHolds, PTL DEF Spec

=============================================================================

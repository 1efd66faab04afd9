------------------------- MODULE MatchmakingProofs -------------------------
(***************************************************************************)
(* The quick-play queue for any set of connections, ratings, time          *)
(* controls and fence: the trees, the reverse index and the cached size    *)
(* agree, and a sweep pairs neighbours who accept each other, and leaves   *)
(* no two such neighbours waiting.                                         *)
(***************************************************************************)
EXTENDS Matchmaking, FiniteSetTheorems, WellFoundedInduction, NaturalsInduction, TLAPS

EntrySet == [fd : Seekers, elo : Elos, enqueue_time : Nat]

(* A bucket: in rating order, nobody twice. *)
InOrder(s) == \A i, j \in 1..Len(s) : i < j => s[i].elo <= s[j].elo
EachOnce(s) == \A i, j \in 1..Len(s) : s[i].fd = s[j].fd => i = j
Bucket(s) == s \in Seq(EntrySet) /\ InOrder(s) /\ EachOnce(s)
Fds(s) == {s[i].fd : i \in 1..Len(s)}

-----------------------------------------------------------------------------
(* Buckets *)

(* A set of numbers has a least one. *)
LEMMA LeastOne == ASSUME NEW S \in SUBSET Nat, S # {} PROVE \E n \in S : \A k \in S : n <= k
<1>1. PICK R : R = {ss \in Nat \X Nat : ss[1] < ss[2]} /\ IsWellFoundedOn(R, Nat)
  BY NatLessThanWellFounded DEF OpToRel
<1>2. \E t \in S : \A y \in S : ~(<<y, t>> \in R)
  BY <1>1, WFMin, Zenon
<1>3. PICK t \in S : \A y \in S : ~(<<y, t>> \in R)
  BY <1>2
<1>4. ASSUME NEW y \in S PROVE t <= y
  <2>1. <<y, t>> \in Nat \X Nat /\ ~(<<y, t>> \in R)
    BY <1>3
  <2>2. ~(y < t)
    BY <1>1, <2>1
  <2>. QED
    BY <2>2
<1>. QED
  BY <1>4

(* An entry of a bucket is an entry. *)
LEMMA EntryOf ==
    ASSUME NEW s \in Seq(EntrySet), NEW i \in 1..Len(s)
    PROVE  s[i] \in EntrySet /\ s[i].fd \in Seekers /\ s[i].elo \in Nat
           /\ s[i].elo \in Elos /\ s[i].enqueue_time \in Nat /\ s[i] # NoEntry
<1>1. s[i] \in EntrySet
  OBVIOUS
<1>2. s[i].fd \in Seekers /\ s[i].elo \in Elos /\ s[i].enqueue_time \in Nat
  BY <1>1 DEF EntrySet
<1>3. s[i].elo \in Nat
  BY <1>2, RangeAssumption
<1>4. NoEntry.fd = NotQueued
  BY DEF NoEntry
<1>5. NotQueued \notin Seekers
  BY SeekersAssumption
<1>. QED
  BY <1>1, <1>2, <1>3, <1>4, <1>5

(* A bucket has as many entries as it has players. *)
LEMMA PlayersCounted ==
    ASSUME NEW s, Bucket(s)
    PROVE  IsFiniteSet(Fds(s)) /\ Cardinality(Fds(s)) = Len(s)
<1>. DEFINE f == [i \in 1..Len(s) |-> s[i].fd]
<1>1. Len(s) \in Nat
  BY DEF Bucket
<1>2. f \in Bijection(1..Len(s), Fds(s))
  BY DEF Bucket, EachOnce, Fds, Bijection, Injection, Surjection, IsInjective
<1>3. ExistsBijection(1..Len(s), Fds(s))
  BY <1>2 DEF ExistsBijection
<1>. QED
  BY <1>1, <1>3, FS_CountingElements, FS_NatBijection

(* multimap::insert puts an entry behind those rated no higher and before  *)
(* those rated higher.                                                     *)
LEMMA PositionSplits ==
    ASSUME NEW s, Bucket(s), NEW elo \in Nat
    PROVE  \E k \in 0..Len(s) : /\ InsertPosition(s, elo) = k + 1
                                /\ \A i \in 1..Len(s) : i <= k => s[i].elo <= elo
                                /\ \A i \in 1..Len(s) : k < i => elo < s[i].elo
<1>0. Len(s) \in Nat /\ \A i \in 1..Len(s) : s[i].elo \in Nat
  BY EntryOf DEF Bucket
<1>. DEFINE Bounds == {n \in 0..Len(s) : \A i \in 1..Len(s) : n < i => elo < s[i].elo}
<1>1. Bounds \in SUBSET Nat /\ Len(s) \in Bounds
  BY <1>0
<1>2. PICK k \in Bounds : \A n \in Bounds : k <= n
  <2>. HIDE DEF Bounds
  <2>. QED
    BY <1>1, LeastOne
<1>3. ASSUME NEW i \in 1..Len(s), i <= k PROVE s[i].elo <= elo
  <2>0. k \in 0..Len(s) /\ k - 1 \in 0..Len(s) /\ ~(k <= k - 1)
    BY <1>0, <1>3
  <2>1. k - 1 \notin Bounds
    <3>. HIDE DEF Bounds
    <3>. QED
      BY <1>2, <2>0
  <2>2. PICK j \in 1..Len(s) : k - 1 < j /\ ~(elo < s[j].elo)
    BY <2>0, <2>1
  <2>3. j = k
    BY <1>0, <1>2, <2>2
  <2>4. s[i].elo <= s[k].elo
    BY <1>0, <1>3, <2>3 DEF Bucket, InOrder
  <2>. QED
    BY <1>0, <2>2, <2>3, <2>4
<1>4. {i \in DOMAIN s : s[i].elo <= elo} = 1..k
  <2>1. DOMAIN s = 1..Len(s)
    BY DEF Bucket
  <2>. QED
    BY <1>0, <1>2, <1>3, <2>1
<1>5. Cardinality(1..k) = k
  BY <1>0, <1>2, FS_Interval
<1>. QED
  BY <1>2, <1>3, <1>4, <1>5 DEF InsertPosition

JoinOf(S, u, v, t) == /\ t \in Seq(S) /\ Len(t) = Len(u) + Len(v)
                      /\ \A i \in 1..Len(u) : t[i] = u[i]
                      /\ \A i \in 1..Len(v) : t[Len(u) + i] = v[i]

(* What \o is, element by element. *)
LEMMA Joins == ASSUME NEW S PROVE \A u, v \in Seq(S) : JoinOf(S, u, v, u \o v)
BY DEF JoinOf

(* What SubSeq is, element by element. *)
LEMMA Cuts ==
    ASSUME NEW S, NEW s \in Seq(S), NEW a \in 1..(Len(s) + 1), NEW b \in 0..Len(s), a <= b + 1
    PROVE  /\ SubSeq(s, a, b) \in Seq(S) /\ Len(SubSeq(s, a, b)) = b - a + 1
           /\ \A i \in 1..(b - a + 1) : SubSeq(s, a, b)[i] = s[a + i - 1]
OBVIOUS

(* An insertion keeps a bucket in order and adds one player. *)
LEMMA Inserted ==
    ASSUME NEW s, Bucket(s), NEW e \in EntrySet, e.fd \notin Fds(s),
           NEW t, t = InsertAt(s, InsertPosition(s, e.elo), e)
    PROVE  /\ Bucket(t) /\ Fds(t) = Fds(s) \cup {e.fd}
           /\ \A i \in 1..Len(t) : t[i] = e \/ \E j \in 1..Len(s) : t[i] = s[j]
<1>0. Len(s) \in Nat /\ e.elo \in Nat /\ \A i \in 1..Len(s) : s[i].elo \in Nat /\ s[i] \in EntrySet
  <2>1. s \in Seq(EntrySet) /\ Len(s) \in Nat
    BY DEF Bucket
  <2>2. e.elo \in Nat
    BY RangeAssumption DEF EntrySet
  <2>. QED
    BY <2>1, <2>2, EntryOf
<1>1. PICK k \in 0..Len(s) : /\ InsertPosition(s, e.elo) = k + 1
                             /\ \A i \in 1..Len(s) : i <= k => s[i].elo <= e.elo
                             /\ \A i \in 1..Len(s) : k < i => e.elo < s[i].elo
  BY <1>0, PositionSplits
<1>2. /\ t \in Seq(EntrySet) /\ Len(t) = Len(s) + 1
      /\ \A i \in 1..Len(t) :
            /\ i <= k => t[i] = s[i] /\ i \in 1..Len(s)
            /\ i = k + 1 => t[i] = e
            /\ i > k + 1 => t[i] = s[i - 1] /\ i - 1 \in 1..Len(s)
  <2>0. s \in Seq(EntrySet) /\ k \in Nat /\ k <= Len(s)
    BY <1>0 DEF Bucket
  <2>1. PICK u : u = SubSeq(s, 1, k)
    OBVIOUS
  <2>2. PICK v : v = SubSeq(s, k + 1, Len(s))
    OBVIOUS
  <2>3. PICK x : x = u \o <<e>>
    OBVIOUS
  <2>4. t = x \o v
    <3>2. PICK n : n = InsertPosition(s, e.elo)
      OBVIOUS
    <3>3. n = k + 1 /\ n - 1 = k
      BY <1>1, <3>2
    <3>4. t = SubSeq(s, 1, n - 1) \o <<e>> \o SubSeq(s, n, Len(s))
      BY <3>2, Zenon DEF InsertAt
    <3>5. t = SubSeq(s, 1, k) \o <<e>> \o SubSeq(s, k + 1, Len(s))
      BY <3>3, <3>4, Zenon
    <3>. QED
      BY <2>1, <2>2, <2>3, <3>5, Zenon
  <2>5. u \in Seq(EntrySet) /\ Len(u) = k /\ \A i \in 1..k : u[i] = s[i]
    BY <2>0, <2>1
  <2>6. v \in Seq(EntrySet) /\ Len(v) = Len(s) - k /\ \A i \in 1..(Len(s) - k) : v[i] = s[k + i]
    <3>1. k + 1 \in 1..(Len(s) + 1) /\ Len(s) \in 0..Len(s) /\ k + 1 <= Len(s) + 1
      BY <1>0, <2>0
    <3>2. \A i \in 1..(Len(s) - k) : k + 1 + i - 1 = k + i
      BY <1>0, <2>0
    <3>3. Len(s) - (k + 1) + 1 = Len(s) - k
      BY <1>0, <2>0
    <3>4. /\ SubSeq(s, k + 1, Len(s)) \in Seq(EntrySet)
          /\ Len(SubSeq(s, k + 1, Len(s))) = Len(s) - (k + 1) + 1
          /\ \A i \in 1..(Len(s) - (k + 1) + 1) : SubSeq(s, k + 1, Len(s))[i] = s[k + 1 + i - 1]
      BY <2>0, <3>1, Cuts
    <3>. QED
      BY <2>2, <3>2, <3>3, <3>4
  <2>7. x \in Seq(EntrySet) /\ Len(x) = k + 1 /\ x[k + 1] = e /\ \A i \in 1..k : x[i] = s[i]
    BY <2>3, <2>5
  <2>8. /\ t \in Seq(EntrySet) /\ Len(t) = k + 1 + (Len(s) - k)
        /\ \A i \in 1..(k + 1) : t[i] = x[i]
        /\ \A i \in 1..(Len(s) - k) : t[k + 1 + i] = v[i]
    <3>1. JoinOf(EntrySet, x, v, t)
      BY <2>4, <2>6, <2>7, Joins, Zenon
    <3>. QED
      BY <2>6, <2>7, <3>1, Zenon DEF JoinOf
  <2>9. ASSUME NEW i \in 1..Len(t)
        PROVE  /\ i <= k => t[i] = s[i] /\ i \in 1..Len(s)
               /\ i = k + 1 => t[i] = e
               /\ i > k + 1 => t[i] = s[i - 1] /\ i - 1 \in 1..Len(s)
    <3>1. CASE i <= k
      BY <2>0, <2>7, <2>8, <3>1
    <3>2. CASE i = k + 1
      BY <2>0, <2>7, <2>8, <3>2
    <3>3. CASE i > k + 1
      <4>1. PICK j \in 1..(Len(s) - k) : i = k + 1 + j
        <5>1. i - (k + 1) \in 1..(Len(s) - k) /\ i = k + 1 + (i - (k + 1))
          BY <1>0, <2>0, <2>8, <3>3
        <5>. QED
          BY <5>1
      <4>2. t[i] = v[j] /\ v[j] = s[k + j]
        BY <2>6, <2>8, <4>1
      <4>3. k + j = i - 1 /\ i - 1 \in 1..Len(s)
        BY <1>0, <2>0, <4>1
      <4>. QED
        BY <2>0, <3>3, <4>2, <4>3
    <3>. QED
      BY <2>0, <3>1, <3>2, <3>3
  <2>10. Len(t) = Len(s) + 1
    BY <1>0, <2>0, <2>8
  <2>. QED
    BY <2>8, <2>9, <2>10
<1>3. InOrder(t)
  <2>. SUFFICES ASSUME NEW i \in 1..Len(t), NEW j \in 1..Len(t), i < j
                PROVE  t[i].elo <= t[j].elo
    BY DEF InOrder
  <2>1. \A a, b \in 1..Len(s) : a < b => s[a].elo <= s[b].elo
    BY DEF Bucket, InOrder
  <2>2. CASE i <= k /\ j <= k
    BY <1>0, <1>2, <2>1, <2>2
  <2>3. CASE i <= k /\ j = k + 1
    BY <1>0, <1>1, <1>2, <2>3
  <2>4. CASE i <= k /\ j > k + 1
    <3>1. t[i] = s[i] /\ i \in 1..Len(s) /\ t[j] = s[j - 1] /\ j - 1 \in 1..Len(s) /\ i <= j - 1
      BY <1>0, <1>2, <2>4
    <3>2. i < j - 1 \/ i = j - 1
      BY <3>1
    <3>. QED
      BY <1>0, <2>1, <3>1, <3>2
  <2>5. CASE i = k + 1
    <3>1. t[i] = e /\ t[j] = s[j - 1] /\ j - 1 \in 1..Len(s) /\ k < j - 1
      BY <1>0, <1>2, <2>5
    <3>2. e.elo < s[j - 1].elo
      BY <1>1, <3>1
    <3>. QED
      BY <1>0, <3>1, <3>2
  <2>6. CASE i > k + 1
    <3>1. t[i] = s[i - 1] /\ t[j] = s[j - 1] /\ i - 1 \in 1..Len(s) /\ j - 1 \in 1..Len(s) /\ i - 1 < j - 1
      BY <1>0, <1>2, <2>6
    <3>. QED
      BY <2>1, <3>1
  <2>. QED
    BY <2>2, <2>3, <2>4, <2>5, <2>6
<1>4. EachOnce(t)
  <2>. SUFFICES ASSUME NEW i \in 1..Len(t), NEW j \in 1..Len(t), t[i].fd = t[j].fd
                PROVE  i = j
    BY DEF EachOnce
  <2>1. \A a, b \in 1..Len(s) : s[a].fd = s[b].fd => a = b
    BY DEF Bucket, EachOnce
  <2>2. \A a \in 1..Len(s) : s[a].fd # e.fd
    BY DEF Fds
  <2>. DEFINE from(n) == IF n <= k THEN n ELSE n - 1
  <2>3. \A n \in 1..Len(t) : n # k + 1 => from(n) \in 1..Len(s) /\ t[n] = s[from(n)]
    BY <1>0, <1>2
  <2>4. t[k + 1] = e
    BY <1>0, <1>2
  <2>5. CASE i = k + 1 \/ j = k + 1
    BY <2>2, <2>3, <2>4, <2>5
  <2>6. CASE i # k + 1 /\ j # k + 1
    <3>1. from(i) = from(j)
      BY <2>1, <2>3, <2>6
    <3>. QED
      BY <2>6, <3>1
  <2>. QED
    BY <2>5, <2>6
<1>5. Fds(t) = Fds(s) \cup {e.fd}
  <2>1. ASSUME NEW a \in 1..Len(s) PROVE s[a].fd \in Fds(t)
    <3>1. CASE a <= k
      BY <1>0, <1>2, <3>1 DEF Fds
    <3>2. CASE a > k
      <4>1. a + 1 \in 1..Len(t) /\ t[a + 1] = s[a]
        BY <1>0, <1>2, <3>2
      <4>. QED
        BY <4>1 DEF Fds
    <3>. QED
      BY <3>1, <3>2
  <2>2. e.fd \in Fds(t)
    <3>1. k + 1 \in 1..Len(t) /\ t[k + 1] = e
      BY <1>0, <1>2
    <3>. QED
      BY <3>1 DEF Fds
  <2>3. \A i \in 1..Len(t) : t[i].fd \in Fds(s) \cup {e.fd}
    <3>1. ASSUME NEW i \in 1..Len(t) PROVE t[i].fd \in Fds(s) \cup {e.fd}
      <4>1. t[i] = e \/ \E j \in 1..Len(s) : t[i] = s[j]
        <5>1. CASE i <= k
          BY <1>2, <5>1
        <5>2. CASE i = k + 1
          BY <1>2, <5>2
        <5>3. CASE i > k + 1
          BY <1>2, <5>3
        <5>. QED
          BY <1>0, <1>2, <5>1, <5>2, <5>3
      <4>. QED
        BY <4>1 DEF Fds
    <3>. QED
      BY <3>1
  <2>. QED
    BY <2>1, <2>2, <2>3 DEF Fds
<1>6. \A i \in 1..Len(t) : t[i] = e \/ \E j \in 1..Len(s) : t[i] = s[j]
  BY <1>0, <1>2
<1>. QED
  BY <1>2, <1>3, <1>4, <1>5, <1>6 DEF Bucket

(* A removal keeps a bucket in order and takes one player away. *)
LEMMA Removed ==
    ASSUME NEW s, Bucket(s), NEW p \in 1..Len(s), NEW t, t = RemoveAt(s, p)
    PROVE  /\ Bucket(t) /\ Fds(t) = Fds(s) \ {s[p].fd}
           /\ \A i \in 1..Len(t) : \E j \in 1..Len(s) : t[i] = s[j]
<1>0. s \in Seq(EntrySet) /\ Len(s) \in Nat
  BY DEF Bucket
<1>. DEFINE at(n) == IF n < p THEN n ELSE n + 1
<1>1. /\ t \in Seq(EntrySet) /\ Len(t) = Len(s) - 1
      /\ \A i \in 1..Len(t) : t[i] = s[at(i)] /\ at(i) \in 1..Len(s) /\ at(i) # p
  <2>1. PICK u : u = SubSeq(s, 1, p - 1)
    OBVIOUS
  <2>2. PICK v : v = SubSeq(s, p + 1, Len(s))
    OBVIOUS
  <2>3. t = u \o v
    BY <2>1, <2>2 DEF RemoveAt
  <2>4. u \in Seq(EntrySet) /\ Len(u) = p - 1 /\ \A i \in 1..(p - 1) : u[i] = s[i]
    BY <1>0, <2>1
  <2>5. v \in Seq(EntrySet) /\ Len(v) = Len(s) - p /\ \A i \in 1..(Len(s) - p) : v[i] = s[p + i]
    <3>1. p + 1 \in 1..(Len(s) + 1) /\ Len(s) \in 0..Len(s) /\ p + 1 <= Len(s) + 1
      BY <1>0
    <3>2. \A i \in 1..(Len(s) - p) : p + 1 + i - 1 = p + i
      BY <1>0
    <3>3. Len(s) - (p + 1) + 1 = Len(s) - p
      BY <1>0
    <3>4. /\ SubSeq(s, p + 1, Len(s)) \in Seq(EntrySet)
          /\ Len(SubSeq(s, p + 1, Len(s))) = Len(s) - (p + 1) + 1
          /\ \A i \in 1..(Len(s) - (p + 1) + 1) : SubSeq(s, p + 1, Len(s))[i] = s[p + 1 + i - 1]
      BY <1>0, <3>1, Cuts
    <3>. QED
      BY <2>2, <3>2, <3>3, <3>4
  <2>6. /\ t \in Seq(EntrySet) /\ Len(t) = p - 1 + (Len(s) - p)
        /\ \A i \in 1..(p - 1) : t[i] = u[i]
        /\ \A i \in 1..(Len(s) - p) : t[p - 1 + i] = v[i]
    <3>1. JoinOf(EntrySet, u, v, t)
      BY <2>3, <2>4, <2>5, Joins, Zenon
    <3>. QED
      BY <2>4, <2>5, <3>1, Zenon DEF JoinOf
  <2>7. Len(t) = Len(s) - 1
    BY <1>0, <2>6
  <2>8. ASSUME NEW i \in 1..Len(t) PROVE t[i] = s[at(i)] /\ at(i) \in 1..Len(s) /\ at(i) # p
    <3>1. CASE i < p
      <4>1. i \in 1..(p - 1) /\ i \in 1..Len(s) /\ i # p
        BY <1>0, <2>7, <3>1
      <4>. QED
        BY <2>4, <2>6, <3>1, <4>1
    <3>2. CASE i >= p
      <4>1. i - (p - 1) \in 1..(Len(s) - p) /\ p + (i - (p - 1)) = i + 1 /\ p - 1 + (i - (p - 1)) = i
        BY <1>0, <2>7, <3>2
      <4>2. PICK j : j = i - (p - 1)
        OBVIOUS
      <4>3. t[i] = v[j] /\ v[j] = s[i + 1]
        BY <2>5, <2>6, <4>1, <4>2
      <4>4. at(i) = i + 1 /\ i + 1 \in 1..Len(s) /\ i + 1 # p
        BY <1>0, <2>7, <3>2
      <4>. QED
        BY <4>3, <4>4
    <3>. QED
      BY <3>1, <3>2
  <2>. QED
    BY <2>6, <2>7, <2>8
<1>2. \A i, j \in 1..Len(t) : (i < j => at(i) < at(j)) /\ (at(i) = at(j) => i = j)
  BY <1>0, <1>1
<1>3. \A a \in 1..Len(s) : a # p => \E i \in 1..Len(t) : at(i) = a
  <2>1. ASSUME NEW a \in 1..Len(s), a # p PROVE \E i \in 1..Len(t) : at(i) = a
    <3>1. CASE a < p
      BY <1>0, <1>1, <3>1
    <3>2. CASE a > p
      <4>1. a - 1 \in 1..Len(t) /\ at(a - 1) = a
        BY <1>0, <1>1, <3>2
      <4>. QED
        BY <4>1
    <3>. QED
      BY <2>1, <3>1, <3>2
  <2>. QED
    BY <2>1
<1>. HIDE DEF at
<1>4. InOrder(t) /\ EachOnce(t)
  <2>1. \A a, b \in 1..Len(s) : (a < b => s[a].elo <= s[b].elo) /\ (s[a].fd = s[b].fd => a = b)
    BY DEF Bucket, InOrder, EachOnce
  <2>2. ASSUME NEW i \in 1..Len(t), NEW j \in 1..Len(t)
        PROVE  (i < j => t[i].elo <= t[j].elo) /\ (t[i].fd = t[j].fd => i = j)
    <3>1. PICK a \in 1..Len(s) : a = at(i) /\ t[i] = s[a]
      BY <1>1
    <3>2. PICK b \in 1..Len(s) : b = at(j) /\ t[j] = s[b]
      BY <1>1
    <3>3. (i < j => a < b) /\ (a = b => i = j)
      BY <1>2, <3>1, <3>2
    <3>. QED
      BY <2>1, <3>1, <3>2, <3>3
  <2>. QED
    BY <2>2 DEF InOrder, EachOnce
<1>5. Fds(t) = Fds(s) \ {s[p].fd}
  <2>1. \A i \in 1..Len(t) : t[i].fd \in Fds(s) /\ t[i].fd # s[p].fd
    BY <1>1 DEF Fds, Bucket, EachOnce
  <2>2. \A a \in 1..Len(s) : s[a].fd # s[p].fd => s[a].fd \in Fds(t)
    <3>1. ASSUME NEW a \in 1..Len(s), s[a].fd # s[p].fd PROVE s[a].fd \in Fds(t)
      <4>1. PICK i \in 1..Len(t) : at(i) = a
        BY <1>3, <3>1
      <4>2. t[i] = s[a]
        BY <1>1, <4>1
      <4>. QED
        BY <4>2 DEF Fds
    <3>. QED
      BY <3>1
  <2>. QED
    BY <2>1, <2>2 DEF Fds
<1>. QED
  BY <1>1, <1>4, <1>5 DEF Bucket

-----------------------------------------------------------------------------
(* The sweep *)

AppendOf(S, s, e, t) == /\ t \in Seq(S) /\ Len(t) = Len(s) + 1 /\ t[Len(t)] = e
                        /\ \A i \in 1..Len(s) : t[i] = s[i]

(* What Append is, element by element. *)
LEMMA Appends == ASSUME NEW S PROVE \A s \in Seq(S), e \in S : AppendOf(S, s, e, Append(s, e))
BY DEF AppendOf

Paired(w, e) == \E p \in 1..Len(w.pairs) : e = w.pairs[p][1] \/ e = w.pairs[p][2]
Passed(w, e) == \E k \in 1..Len(w.passed) : w.passed[k] = e

(* How many entries the sweep is done with after n steps: all of them, or  *)
(* all but the one under the iterator.                                     *)
Behind(w, n) == IF w.it = NoEntry THEN n ELSE n - 1

(* The sweep of bucket b after n steps. *)
SweepTypes(w) == /\ w = [it |-> w.it, passed |-> w.passed, pairs |-> w.pairs]
                 /\ w.it \in EntrySet \cup {NoEntry}
                 /\ w.passed \in Seq(EntrySet) /\ w.pairs \in Seq(EntrySet \X EntrySet)
SweepPassed(w, b, n) ==
    /\ InOrder(w.passed) /\ EachOnce(w.passed)
    /\ \A k \in 1..Len(w.passed) : \E i \in 1..Behind(w, n) : w.passed[k] = b[i]
SweepPairs(w, b, n) ==
    \A p \in 1..Len(w.pairs) : \E j \in 1..(Behind(w, n) - 1) :
        w.pairs[p] = <<b[j], b[j + 1]>> /\ Compatible(b[j], b[j + 1])
SweepSplits(w, b, n) == \A i \in 1..Behind(w, n) : Passed(w, b[i]) <=> ~Paired(w, b[i])
SweepThorough(w, b, n) ==
    /\ \A i \in 1..(n - 1) : Compatible(b[i], b[i + 1]) => Paired(w, b[i]) \/ Paired(w, b[i + 1])
    /\ w.it = NoEntry /\ n > 0 => Paired(w, b[n])
SweptTo(w, b, n) == /\ SweepTypes(w)
                    /\ w.it # NoEntry => n > 0 /\ w.it = b[n]
                    /\ SweepPassed(w, b, n) /\ SweepPairs(w, b, n)
                    /\ SweepSplits(w, b, n) /\ SweepThorough(w, b, n)

(* The iterator moves on to an entry: nobody is decided. *)
LEMMA SweepTakes ==
    ASSUME NEW b, Bucket(b), NEW n \in 1..Len(b), NEW w, SweptTo(w, b, n - 1), w.it = NoEntry,
           NEW v, v = [it |-> b[n], passed |-> w.passed, pairs |-> w.pairs]
    PROVE  SweptTo(v, b, n)
<1>0. n \in Nat /\ Len(b) \in Nat /\ b[n] \in EntrySet /\ b[n] # NoEntry
  BY EntryOf DEF Bucket
<1>1. v.it = b[n] /\ v.passed = w.passed /\ v.pairs = w.pairs /\ v.it # NoEntry
  BY <1>0
<1>2. Behind(v, n) = n - 1 /\ Behind(w, n - 1) = n - 1
  BY <1>1 DEF Behind
<1>3. \A e : (Paired(v, e) <=> Paired(w, e)) /\ (Passed(v, e) <=> Passed(w, e))
  BY <1>1 DEF Paired, Passed
<1>4. SweepTypes(v)
  BY <1>0, <1>1 DEF SweptTo, SweepTypes
<1>5. SweepPassed(v, b, n) /\ SweepPairs(v, b, n)
  BY <1>1, <1>2, Zenon DEF SweptTo, SweepPassed, SweepPairs
<1>6. SweepSplits(v, b, n)
  BY <1>2, <1>3, Zenon DEF SweptTo, SweepSplits
<1>7. SweepThorough(v, b, n)
  <2>1. \A i \in 1..(n - 1 - 1) : Compatible(b[i], b[i + 1]) => Paired(v, b[i]) \/ Paired(v, b[i + 1])
    BY <1>3 DEF SweptTo, SweepThorough
  <2>2. n - 1 > 0 => Paired(v, b[n - 1])
    BY <1>3 DEF SweptTo, SweepThorough
  <2>3. ASSUME NEW i \in 1..(n - 1), Compatible(b[i], b[i + 1])
        PROVE  Paired(v, b[i]) \/ Paired(v, b[i + 1])
    <3>1. CASE i = n - 1
      BY <1>0, <2>2, <3>1
    <3>2. CASE i # n - 1
      <4>1. i \in 1..(n - 1 - 1)
        BY <1>0, <3>2
      <4>. QED
        BY <2>1, <2>3, <4>1
    <3>. QED
      BY <3>1, <3>2
  <2>. QED
    BY <1>1, <2>3 DEF SweepThorough
<1>. QED
  BY <1>0, <1>1, <1>4, <1>5, <1>6, <1>7 DEF SweptTo

(* A pair is matched, and both entries are erased. *)
LEMMA SweepMatches ==
    ASSUME NEW b, Bucket(b), NEW n \in 1..Len(b), NEW w, SweptTo(w, b, n - 1), w.it # NoEntry,
           Compatible(w.it, b[n]),
           NEW v, v = [it |-> NoEntry, passed |-> w.passed, pairs |-> Append(w.pairs, <<w.it, b[n]>>)]
    PROVE  SweptTo(v, b, n)
<1>0. n \in Nat /\ Len(b) \in Nat /\ b \in Seq(EntrySet) /\ \A i \in 1..Len(b) : b[i] \in EntrySet
  BY EntryOf DEF Bucket
<1>1. v.it = NoEntry /\ v.passed = w.passed /\ v.pairs = Append(w.pairs, <<w.it, b[n]>>)
  OBVIOUS
<1>2. n - 1 \in 1..Len(b) /\ n - 1 > 0 /\ w.it = b[n - 1] /\ w.it \in EntrySet
  BY <1>0 DEF SweptTo, SweepTypes
<1>3. Behind(v, n) = n /\ Behind(w, n - 1) = n - 2
  BY <1>1, <1>0 DEF Behind
<1>4. PICK m \in Nat : /\ m = Len(w.pairs) /\ Len(v.pairs) = m + 1 /\ v.pairs \in Seq(EntrySet \X EntrySet)
                       /\ v.pairs[m + 1] = <<b[n - 1], b[n]>>
                       /\ \A p \in 1..m : v.pairs[p] = w.pairs[p]
  <2>1. AppendOf(EntrySet \X EntrySet, w.pairs, <<w.it, b[n]>>, v.pairs)
    <3>1. w.pairs \in Seq(EntrySet \X EntrySet) /\ <<w.it, b[n]>> \in EntrySet \X EntrySet
      BY <1>0, <1>2 DEF SweptTo, SweepTypes
    <3>. QED
      BY <1>1, <3>1, Appends, Zenon
  <2>2. Len(w.pairs) \in Nat
    BY DEF SweptTo, SweepTypes
  <2>. QED
    BY <1>2, <2>1, <2>2, Zenon DEF AppendOf
<1>5. \A e : Paired(v, e) <=> Paired(w, e) \/ e = b[n - 1] \/ e = b[n]
  <2>1. ASSUME NEW e, Paired(v, e) PROVE Paired(w, e) \/ e = b[n - 1] \/ e = b[n]
    <3>1. PICK p \in 1..(m + 1) : e = v.pairs[p][1] \/ e = v.pairs[p][2]
      BY <1>4, <2>1, Zenon DEF Paired
    <3>2. CASE p \in 1..m
      BY <1>4, <3>1, <3>2, Zenon DEF Paired
    <3>3. CASE p = m + 1
      BY <1>4, <3>1, <3>3
    <3>. QED
      BY <3>2, <3>3
  <2>2. ASSUME NEW e, Paired(w, e) PROVE Paired(v, e)
    <3>1. PICK p \in 1..m : e = w.pairs[p][1] \/ e = w.pairs[p][2]
      BY <1>4, <2>2, Zenon DEF Paired
    <3>2. p \in 1..(m + 1)
      OBVIOUS
    <3>. QED
      BY <1>4, <3>1, <3>2, Zenon DEF Paired
  <2>3. Paired(v, b[n - 1]) /\ Paired(v, b[n])
    <3>1. m + 1 \in 1..(m + 1) /\ v.pairs[m + 1][1] = b[n - 1] /\ v.pairs[m + 1][2] = b[n]
      BY <1>4
    <3>. QED
      BY <1>4, <3>1, Zenon DEF Paired
  <2>. QED
    BY <2>1, <2>2, <2>3
<1>6. SweepTypes(v)
  <2>1. w.passed \in Seq(EntrySet)
    BY DEF SweptTo, SweepTypes
  <2>2. v = [it |-> v.it, passed |-> v.passed, pairs |-> v.pairs]
    BY <1>1, Zenon
  <2>. QED
    BY <1>1, <1>4, <2>1, <2>2, Zenon DEF SweepTypes
<1>7. SweepPassed(v, b, n)
  <2>1. \A i \in 1..(n - 2) : i \in 1..n
    BY <1>0
  <2>. QED
    BY <1>1, <1>3, <2>1, Zenon DEF SweptTo, SweepPassed
<1>8. SweepPairs(v, b, n)
  <2>. SUFFICES ASSUME NEW p \in 1..(m + 1)
                PROVE  \E j \in 1..(n - 1) : v.pairs[p] = <<b[j], b[j + 1]>> /\ Compatible(b[j], b[j + 1])
    BY <1>3, <1>4, Zenon DEF SweepPairs
  <2>1. CASE p \in 1..m
    <3>1. PICK j \in 1..(n - 2 - 1) : w.pairs[p] = <<b[j], b[j + 1]>> /\ Compatible(b[j], b[j + 1])
      BY <1>3, <1>4, <2>1, Zenon DEF SweptTo, SweepPairs
    <3>2. j \in 1..(n - 1)
      BY <1>0
    <3>. QED
      BY <1>4, <2>1, <3>1, <3>2, Zenon
  <2>2. CASE p = m + 1
    <3>1. PICK j \in 1..(n - 1) : j = n - 1 /\ j + 1 = n
      BY <1>0, <1>2
    <3>2. v.pairs[p] = <<b[n - 1], b[n]>> /\ Compatible(b[n - 1], b[n])
      BY <1>2, <1>4, <2>2, Zenon
    <3>3. v.pairs[p] = <<b[j], b[j + 1]>> /\ Compatible(b[j], b[j + 1])
      BY <3>1, <3>2, Zenon
    <3>. QED
      BY <3>1, <3>3
  <2>3. p \in 1..m \/ p = m + 1
    OBVIOUS
  <2>. QED
    BY <2>1, <2>2, <2>3
<1>9. SweepSplits(v, b, n)
  <2>. SUFFICES ASSUME NEW i \in 1..n PROVE Passed(v, b[i]) <=> ~Paired(v, b[i])
    BY <1>3, Zenon DEF SweepSplits
  <2>1. Passed(v, b[i]) <=> Passed(w, b[i])
    BY <1>1, Zenon DEF Passed
  <2>2. \A j, k \in 1..Len(b) : b[j] = b[k] => j = k
    BY DEF Bucket, EachOnce
  <2>3. CASE i \in 1..(n - 2)
    <3>1. b[i] # b[n - 1] /\ b[i] # b[n]
      BY <1>0, <1>2, <2>2, <2>3
    <3>2. Passed(w, b[i]) <=> ~Paired(w, b[i])
      BY <1>3, <2>3, Zenon DEF SweptTo, SweepSplits
    <3>. QED
      BY <1>5, <2>1, <3>1, <3>2
  <2>4. CASE i \notin 1..(n - 2)
    <3>1. i = n - 1 \/ i = n
      BY <1>0, <2>4
    <3>2. Paired(v, b[i])
      BY <1>5, <3>1
    <3>3. ASSUME Passed(w, b[i]) PROVE FALSE
      <4>1. PICK j \in 1..(n - 2) : b[i] = b[j]
        BY <1>3, <3>3, Zenon DEF Passed, SweptTo, SweepPassed
      <4>. QED
        BY <1>0, <1>2, <2>2, <3>1, <4>1
    <3>. QED
      BY <2>1, <3>2, <3>3
  <2>. QED
    BY <2>3, <2>4
<1>10. SweepThorough(v, b, n)
  <2>1. \A i \in 1..(n - 1 - 1) : Compatible(b[i], b[i + 1]) => Paired(w, b[i]) \/ Paired(w, b[i + 1])
    BY DEF SweptTo, SweepThorough
  <2>2. ASSUME NEW i \in 1..(n - 1), Compatible(b[i], b[i + 1])
        PROVE  Paired(v, b[i]) \/ Paired(v, b[i + 1])
    <3>1. i = n - 1 \/ i \in 1..(n - 1 - 1)
      BY <1>0
    <3>. QED
      BY <1>5, <2>1, <2>2, <3>1
  <2>. QED
    BY <1>5, <2>2 DEF SweepThorough
<1>. QED
  BY <1>1, <1>6, <1>7, <1>8, <1>9, <1>10 DEF SweptTo

(* A pair is not matched: the iterator leaves the first of them behind. *)
LEMMA SweepPasses ==
    ASSUME NEW b, Bucket(b), NEW n \in 1..Len(b), NEW w, SweptTo(w, b, n - 1), w.it # NoEntry,
           ~Compatible(w.it, b[n]),
           NEW v, v = [it |-> b[n], passed |-> Append(w.passed, w.it), pairs |-> w.pairs]
    PROVE  SweptTo(v, b, n)
<1>0. n \in Nat /\ Len(b) \in Nat /\ b \in Seq(EntrySet)
      /\ \A i \in 1..Len(b) : b[i] \in EntrySet /\ b[i] # NoEntry
  BY EntryOf DEF Bucket
<1>1. v.it = b[n] /\ v.passed = Append(w.passed, w.it) /\ v.pairs = w.pairs /\ v.it # NoEntry
  BY <1>0
<1>2. n - 1 \in 1..Len(b) /\ n - 1 > 0 /\ w.it = b[n - 1] /\ w.it \in EntrySet
  BY <1>0 DEF SweptTo, SweepTypes
<1>3. Behind(v, n) = n - 1 /\ Behind(w, n - 1) = n - 2
  BY <1>1, <1>0 DEF Behind
<1>4. PICK m \in Nat : /\ m = Len(w.passed) /\ Len(v.passed) = m + 1 /\ v.passed \in Seq(EntrySet)
                       /\ v.passed[m + 1] = b[n - 1]
                       /\ \A k \in 1..m : v.passed[k] = w.passed[k]
  <2>1. AppendOf(EntrySet, w.passed, w.it, v.passed)
    <3>1. w.passed \in Seq(EntrySet)
      BY DEF SweptTo, SweepTypes
    <3>. QED
      BY <1>1, <1>2, <3>1, Appends, Zenon
  <2>2. Len(w.passed) \in Nat
    BY DEF SweptTo, SweepTypes
  <2>. QED
    BY <1>2, <2>1, <2>2, Zenon DEF AppendOf
<1>5. \A e : (Paired(v, e) <=> Paired(w, e)) /\ (Passed(v, e) <=> Passed(w, e) \/ e = b[n - 1])
  <2>1. \A e : Paired(v, e) <=> Paired(w, e)
    BY <1>1, Zenon DEF Paired
  <2>2. ASSUME NEW e, Passed(v, e) PROVE Passed(w, e) \/ e = b[n - 1]
    <3>1. PICK k \in 1..(m + 1) : v.passed[k] = e
      BY <1>4, <2>2, Zenon DEF Passed
    <3>2. k \in 1..m \/ k = m + 1
      OBVIOUS
    <3>. QED
      BY <1>4, <3>1, <3>2, Zenon DEF Passed
  <2>3. ASSUME NEW e, Passed(w, e) PROVE Passed(v, e)
    <3>1. PICK k \in 1..m : w.passed[k] = e
      BY <1>4, <2>3, Zenon DEF Passed
    <3>2. k \in 1..(m + 1)
      OBVIOUS
    <3>. QED
      BY <1>4, <3>1, <3>2, Zenon DEF Passed
  <2>4. Passed(v, b[n - 1])
    <3>1. m + 1 \in 1..(m + 1)
      OBVIOUS
    <3>. QED
      BY <1>4, <3>1, Zenon DEF Passed
  <2>. QED
    BY <2>1, <2>2, <2>3, <2>4
<1>6. SweepTypes(v)
  <2>1. w.pairs \in Seq(EntrySet \X EntrySet)
    BY DEF SweptTo, SweepTypes
  <2>2. v = [it |-> v.it, passed |-> v.passed, pairs |-> v.pairs]
    BY <1>1, Zenon
  <2>. QED
    BY <1>0, <1>1, <1>4, <2>1, <2>2 DEF SweepTypes
<1>7. ASSUME NEW k \in 1..m PROVE \E i \in 1..(n - 2) : v.passed[k] = b[i]
  BY <1>3, <1>4, Zenon DEF SweptTo, SweepPassed
<1>8. SweepPassed(v, b, n)
  <2>1. \A k \in 1..(m + 1) : \E i \in 1..(n - 1) : v.passed[k] = b[i]
    <3>1. ASSUME NEW k \in 1..(m + 1) PROVE \E i \in 1..(n - 1) : v.passed[k] = b[i]
      <4>1. CASE k \in 1..m
        <5>1. PICK i \in 1..(n - 2) : v.passed[k] = b[i]
          BY <1>7, <4>1
        <5>2. i \in 1..(n - 1)
          BY <1>0
        <5>. QED
          BY <5>1, <5>2
      <4>2. CASE k = m + 1
        <5>1. n - 1 \in 1..(n - 1)
          BY <1>0, <1>2
        <5>2. v.passed[k] = b[n - 1]
          BY <1>4, <4>2, Zenon
        <5>. QED
          BY <5>1, <5>2, Zenon
      <4>3. k \in 1..m \/ k = m + 1
        OBVIOUS
      <4>. QED
        BY <4>1, <4>2, <4>3
    <3>. QED
      BY <3>1
  <2>2. ASSUME NEW j \in 1..(m + 1), NEW k \in 1..(m + 1)
        PROVE  /\ j < k => v.passed[j].elo <= v.passed[k].elo
               /\ v.passed[j].fd = v.passed[k].fd => j = k
    <3>1. CASE j \in 1..m /\ k \in 1..m
      <4>1. v.passed[j] = w.passed[j] /\ v.passed[k] = w.passed[k] /\ j \in 1..Len(w.passed) /\ k \in 1..Len(w.passed)
        BY <1>4, <3>1
      <4>. QED
        BY <4>1, Zenon DEF SweptTo, SweepPassed, InOrder, EachOnce
    <3>2. CASE j \in 1..m /\ k = m + 1
      <4>1. PICK i \in 1..(n - 2) : v.passed[j] = b[i]
        BY <1>7, <3>2
      <4>2. i \in 1..Len(b) /\ i < n - 1 /\ v.passed[k] = b[n - 1]
        BY <1>0, <1>4, <3>2
      <4>3. b[i].elo <= b[n - 1].elo /\ b[i].fd # b[n - 1].fd
        BY <1>2, <4>2 DEF Bucket, InOrder, EachOnce
      <4>. QED
        BY <4>1, <4>2, <4>3, Zenon
    <3>3. CASE j = m + 1 /\ k \in 1..m
      <4>1. PICK i \in 1..(n - 2) : v.passed[k] = b[i]
        BY <1>7, <3>3
      <4>2. i \in 1..Len(b) /\ i < n - 1 /\ v.passed[j] = b[n - 1]
        BY <1>0, <1>4, <3>3
      <4>3. b[i].fd # b[n - 1].fd
        BY <1>2, <4>2 DEF Bucket, EachOnce
      <4>4. ~(j < k)
        BY <3>3
      <4>. QED
        BY <4>1, <4>2, <4>3, <4>4, Zenon
    <3>4. CASE j = m + 1 /\ k = m + 1
      BY <3>4
    <3>5. (j \in 1..m \/ j = m + 1) /\ (k \in 1..m \/ k = m + 1)
      OBVIOUS
    <3>. QED
      BY <3>1, <3>2, <3>3, <3>4, <3>5
  <2>3. InOrder(v.passed) /\ EachOnce(v.passed)
    BY <1>4, <2>2 DEF InOrder, EachOnce
  <2>4. \A k \in 1..Len(v.passed) : \E i \in 1..Behind(v, n) : v.passed[k] = b[i]
    <3>1. Len(v.passed) = m + 1 /\ Behind(v, n) = n - 1
      BY <1>3, <1>4
    <3>. QED
      BY <2>1, <3>1
  <2>. QED
    BY <2>3, <2>4 DEF SweepPassed
<1>9. SweepPairs(v, b, n)
  <2>1. \A j \in 1..(n - 2 - 1) : j \in 1..(n - 1 - 1)
    BY <1>0
  <2>. QED
    BY <1>1, <1>3, <2>1, Zenon DEF SweptTo, SweepPairs
<1>10. SweepSplits(v, b, n)
  <2>. SUFFICES ASSUME NEW i \in 1..(n - 1) PROVE Passed(v, b[i]) <=> ~Paired(v, b[i])
    BY <1>3, Zenon DEF SweepSplits
  <2>2. \A j, k \in 1..Len(b) : b[j] = b[k] => j = k
    BY DEF Bucket, EachOnce
  <2>3. CASE i \in 1..(n - 2)
    <3>1. b[i] # b[n - 1]
      BY <1>0, <1>2, <2>2, <2>3
    <3>2. Passed(w, b[i]) <=> ~Paired(w, b[i])
      BY <1>3, <2>3, Zenon DEF SweptTo, SweepSplits
    <3>. QED
      BY <1>5, <3>1, <3>2
  <2>4. CASE i = n - 1
    <3>1. ASSUME Paired(w, b[n - 1]) PROVE FALSE
      <4>1. PICK p \in 1..Len(w.pairs) : b[n - 1] = w.pairs[p][1] \/ b[n - 1] = w.pairs[p][2]
        BY <3>1, Zenon DEF Paired
      <4>2. PICK j \in 1..(n - 2 - 1) : w.pairs[p] = <<b[j], b[j + 1]>>
        BY <1>3, Zenon DEF SweptTo, SweepPairs
      <4>3. b[n - 1] = b[j] \/ b[n - 1] = b[j + 1]
        BY <4>1, <4>2
      <4>4. j \in 1..Len(b) /\ j + 1 \in 1..Len(b) /\ j # n - 1 /\ j + 1 # n - 1
        BY <1>0
      <4>. QED
        BY <1>2, <2>2, <4>3, <4>4
    <3>. QED
      BY <1>5, <2>4, <3>1
  <2>5. i \in 1..(n - 2) \/ i = n - 1
    BY <1>0
  <2>. QED
    BY <2>3, <2>4, <2>5
<1>11. SweepThorough(v, b, n)
  <2>1. \A i \in 1..(n - 1 - 1) : Compatible(b[i], b[i + 1]) => Paired(w, b[i]) \/ Paired(w, b[i + 1])
    BY DEF SweptTo, SweepThorough
  <2>2. ASSUME NEW i \in 1..(n - 1), Compatible(b[i], b[i + 1])
        PROVE  Paired(v, b[i]) \/ Paired(v, b[i + 1])
    <3>1. (i = n - 1 /\ i + 1 = n) \/ i \in 1..(n - 1 - 1)
      BY <1>0
    <3>2. ~Compatible(b[n - 1], b[n])
      BY <1>2, Zenon
    <3>. QED
      BY <1>5, <2>1, <2>2, <3>1, <3>2
  <2>. QED
    BY <1>1, <2>2 DEF SweepThorough
<1>. QED
  BY <1>0, <1>1, <1>6, <1>8, <1>9, <1>10, <1>11 DEF SweptTo

(* One turn of try_match's loop: the entry pairs with the one before it,   *)
(* or waits in its place.                                                  *)
LEMMA SweepSteps ==
    ASSUME NEW b, Bucket(b), NEW n \in 1..Len(b), NEW w, SweptTo(w, b, n - 1)
    PROVE  SweptTo(Walk(w, b[n]), b, n)
<1>1. w = [it |-> w.it, passed |-> w.passed, pairs |-> w.pairs]
  BY DEF SweptTo, SweepTypes
<1>2. CASE w.it = NoEntry
  <2>1. Walk(w, b[n]) = [it |-> b[n], passed |-> w.passed, pairs |-> w.pairs]
    BY <1>1, <1>2 DEF Walk
  <2>. QED
    BY <1>2, <2>1, SweepTakes
<1>3. CASE w.it # NoEntry /\ Compatible(w.it, b[n])
  <2>1. Walk(w, b[n]) = [it |-> NoEntry, passed |-> w.passed, pairs |-> Append(w.pairs, <<w.it, b[n]>>)]
    BY <1>3 DEF Walk
  <2>. QED
    BY <1>3, <2>1, SweepMatches
<1>4. CASE w.it # NoEntry /\ ~Compatible(w.it, b[n])
  <2>1. Walk(w, b[n]) = [it |-> b[n], passed |-> Append(w.passed, w.it), pairs |-> w.pairs]
    BY <1>4 DEF Walk
  <2>. QED
    BY <1>4, <2>1, SweepPasses
<1>. QED
  BY <1>2, <1>3, <1>4

(* Before the first turn nothing is paired and nobody waits. *)
LEMMA SweepStarts == ASSUME NEW b, Bucket(b) PROVE SweptTo(SweepBegins, b, 0)
<1>1. SweepBegins.it = NoEntry /\ SweepBegins.passed = <<>> /\ SweepBegins.pairs = <<>>
  BY DEF SweepBegins
<1>2. Behind(SweepBegins, 0) = 0 /\ Len(SweepBegins.passed) = 0 /\ Len(SweepBegins.pairs) = 0
  BY <1>1 DEF Behind
<1>3. 1..0 = {} /\ 1..(0 - 1) = {}
  OBVIOUS
<1>4. SweepTypes(SweepBegins)
  BY <1>1 DEF SweepTypes, SweepBegins
<1>. QED
  BY <1>1, <1>2, <1>3, <1>4 DEF SweptTo, SweepPassed, SweepPairs, SweepSplits, SweepThorough, InOrder, EachOnce

(* The recursive function of a sweep exists, so it is what its equation    *)
(* says.                                                                   *)
LEMMA SweepExists ==
    ASSUME NEW b, NEW N \in Nat
    PROVE  \E w : w = [n \in 0..N |-> IF n = 0 THEN SweepBegins ELSE Walk(w[n - 1], b[n])]
<1>. DEFINE walks(w, N_1) == w = [n \in 0..N_1 |-> IF n = 0 THEN SweepBegins ELSE Walk(w[n - 1], b[n])]
            Bad == {m \in Nat : ~\E w : walks(w, m)}
<1>1. 0 \notin Bad
  <2>1. PICK w : w = [n \in 0..0 |-> SweepBegins]
    OBVIOUS
  <2>2. walks(w, 0)
    BY <2>1
  <2>. QED
    BY <2>2
<1>2. ASSUME NEW m \in Nat, m \notin Bad PROVE m + 1 \notin Bad
  <2>1. PICK w : walks(w, m)
    BY <1>2
  <2>2. PICK u : u = [n \in 0..(m + 1) |-> IF n <= m THEN w[n] ELSE Walk(w[m], b[m + 1])]
    OBVIOUS
  <2>3. ASSUME NEW n \in 0..(m + 1) PROVE u[n] = IF n = 0 THEN SweepBegins ELSE Walk(u[n - 1], b[n])
    <3>1. CASE n = 0
      BY <2>1, <2>2, <3>1
    <3>2. CASE n # 0 /\ n <= m
      <4>1. n \in 0..m /\ n - 1 \in 0..(m + 1) /\ n - 1 <= m
        BY <3>2
      <4>2. u[n] = w[n] /\ u[n - 1] = w[n - 1] /\ w[n] = Walk(w[n - 1], b[n])
        BY <2>1, <2>2, <3>2, <4>1
      <4>. QED
        BY <3>2, <4>2
    <3>3. CASE n = m + 1
      <4>1. n - 1 = m /\ n # 0 /\ ~(n <= m) /\ m \in 0..(m + 1) /\ m <= m
        BY <3>3
      <4>2. u[n] = Walk(w[m], b[m + 1]) /\ u[m] = w[m]
        BY <2>2, <3>3, <4>1
      <4>. QED
        BY <3>3, <4>1, <4>2
    <3>. QED
      BY <3>1, <3>2, <3>3
  <2>4. walks(u, m + 1)
    BY <2>2, <2>3
  <2>. QED
    BY <2>4
<1>3. Bad = {}
  <2>. SUFFICES ASSUME Bad # {} PROVE FALSE
    OBVIOUS
  <2>1. Bad \in SUBSET Nat
    OBVIOUS
  <2>. HIDE DEF Bad
  <2>2. PICK m \in Bad : \A k \in Bad : m <= k
    BY <2>1, LeastOne
  <2>3. m \in Nat /\ m # 0
    BY <1>1, <2>1, <2>2
  <2>4. m - 1 \in Nat /\ m - 1 + 1 = m /\ ~(m <= m - 1)
    BY <2>3
  <2>. QED
    BY <1>2, <2>2, <2>4
<1>. QED
  BY <1>3

(* The loop over a whole bucket. *)
LEMMA SweepIsWalk ==
    ASSUME NEW b, Bucket(b)
    PROVE  SweptTo(Sweep(b), b, Len(b))
<1>0. Len(b) \in Nat
  BY DEF Bucket
<1>. DEFINE w == CHOOSE w : w = [n \in 0..Len(b) |-> IF n = 0 THEN SweepBegins ELSE Walk(w[n - 1], b[n])]
<1>1. w = [n \in 0..Len(b) |-> IF n = 0 THEN SweepBegins ELSE Walk(w[n - 1], b[n])]
  BY <1>0, SweepExists
<1>2. Sweep(b) = w[Len(b)]
  BY Zenon DEF Sweep
<1>. HIDE DEF w
<1>. DEFINE Bad == {n \in 0..Len(b) : ~SweptTo(w[n], b, n)}
<1>3. w[0] = SweepBegins /\ \A n \in 1..Len(b) : w[n] = Walk(w[n - 1], b[n])
  BY <1>0, <1>1
<1>4. Bad = {}
  <2>. SUFFICES ASSUME Bad # {} PROVE FALSE
    OBVIOUS
  <2>1. Bad \in SUBSET Nat
    OBVIOUS
  <2>2. PICK m \in Bad : \A k \in Bad : m <= k
    <3>. HIDE DEF Bad
    <3>. QED
      BY <2>1, LeastOne
  <2>3. m # 0
    BY <1>3, SweepStarts
  <2>4. m \in 1..Len(b) /\ m - 1 \in 0..Len(b) /\ ~(m <= m - 1)
    BY <1>0, <2>3
  <2>5. m - 1 \notin Bad
    <3>. HIDE DEF Bad
    <3>. QED
      BY <2>2, <2>4
  <2>6. SweptTo(w[m - 1], b, m - 1)
    BY <2>4, <2>5
  <2>7. SweptTo(w[m], b, m)
    BY <1>3, <2>4, <2>6, SweepSteps
  <2>. QED
    BY <2>7
<1>5. Len(b) \in 0..Len(b)
  BY <1>0
<1>. QED
  BY <1>2, <1>4, <1>5

(* What try_match leaves of a bucket, and which pairs it makes of it. *)
Stays(s, e) == \E k \in 1..Len(s) : s[k] = e
SweptWell(w, b) ==
    /\ Bucket(Waiting(w))
    /\ \A k \in 1..Len(Waiting(w)) : \E i \in 1..Len(b) : Waiting(w)[k] = b[i]
    /\ \A i \in 1..Len(b) : Stays(Waiting(w), b[i]) <=> ~Paired(w, b[i])
    /\ w.pairs \in Seq(EntrySet \X EntrySet)
    /\ \A p \in 1..Len(w.pairs) : \E j \in 1..(Len(b) - 1) :
           w.pairs[p] = <<b[j], b[j + 1]>> /\ Compatible(b[j], b[j + 1])
    /\ \A i \in 1..(Len(b) - 1) : Compatible(b[i], b[i + 1]) => Paired(w, b[i]) \/ Paired(w, b[i + 1])

(* What a sweep of one tree leaves and returns. *)
LEMMA SweepResult == ASSUME NEW b, Bucket(b) PROVE SweptWell(Sweep(b), b)
<1>. DEFINE n == Len(b)
<1>0. n \in Nat /\ \A i \in 1..n : b[i] \in EntrySet
  BY EntryOf DEF Bucket
<1>1. PICK w : w = Sweep(b) /\ SweptTo(w, b, n)
  BY SweepIsWalk
<1>2. \A i \in 1..(n - 1) : Compatible(b[i], b[i + 1]) => Paired(w, b[i]) \/ Paired(w, b[i + 1])
  BY <1>1 DEF SweptTo, SweepThorough
<1>3. w.passed \in Seq(EntrySet) /\ w.pairs \in Seq(EntrySet \X EntrySet) /\ Len(w.passed) \in Nat
  BY <1>1 DEF SweptTo, SweepTypes
<1>4. CASE w.it = NoEntry
  <2>1. Behind(w, n) = n /\ Waiting(w) = w.passed
    BY <1>4 DEF Behind, Waiting
  <2>2. Bucket(w.passed) /\ \A k \in 1..Len(w.passed) : \E i \in 1..n : w.passed[k] = b[i]
    BY <1>1, <1>3, <2>1 DEF Bucket, SweptTo, SweepPassed
  <2>3. \A p \in 1..Len(w.pairs) : \E j \in 1..(n - 1) :
           w.pairs[p] = <<b[j], b[j + 1]>> /\ Compatible(b[j], b[j + 1])
    BY <1>1, <2>1, Zenon DEF SweptTo, SweepPairs
  <2>4. \A i \in 1..n : Stays(w.passed, b[i]) <=> ~Paired(w, b[i])
    BY <1>1, <2>1, Zenon DEF SweptTo, SweepSplits, Passed, Stays
  <2>. QED
    BY <1>1, <1>2, <1>3, <2>1, <2>2, <2>3, <2>4, Zenon DEF SweptWell
<1>5. CASE w.it # NoEntry
  <2>1. Behind(w, n) = n - 1 /\ Waiting(w) = Append(w.passed, w.it) /\ n \in 1..n /\ w.it = b[n]
    BY <1>0, <1>1, <1>5 DEF Behind, Waiting, SweptTo
  <2>2. PICK s : s = Waiting(w)
    OBVIOUS
  <2>3. AppendOf(EntrySet, w.passed, b[n], s)
    BY <1>0, <1>3, <2>1, <2>2, Appends, Zenon
  <2>4. PICK m \in Nat : /\ m = Len(w.passed) /\ s \in Seq(EntrySet) /\ Len(s) = m + 1 /\ s[m + 1] = b[n]
                         /\ \A k \in 1..m : s[k] = w.passed[k]
    BY <1>3, <2>3, Zenon DEF AppendOf
  <2>5. \A i, j \in 1..n : (i < j => b[i].elo <= b[j].elo) /\ (b[i].fd = b[j].fd => i = j)
    BY DEF Bucket, InOrder, EachOnce
  <2>6. ASSUME NEW k \in 1..m PROVE \E i \in 1..n : i < n /\ s[k] = b[i]
    <3>1. PICK i \in 1..(n - 1) : w.passed[k] = b[i]
      BY <1>1, <2>1, <2>4, Zenon DEF SweptTo, SweepPassed
    <3>2. i \in 1..n /\ i < n
      BY <1>0
    <3>. QED
      BY <2>4, <3>1, <3>2
  <2>7. \A k \in 1..(m + 1) : k \in 1..m \/ k = m + 1
    OBVIOUS
  <2>8. \A k \in 1..(m + 1) : \E i \in 1..n : s[k] = b[i]
    BY <2>1, <2>4, <2>6, <2>7
  <2>9. ASSUME NEW j \in 1..(m + 1), NEW k \in 1..(m + 1)
        PROVE  (j < k => s[j].elo <= s[k].elo) /\ (s[j].fd = s[k].fd => j = k)
    <3>1. CASE j \in 1..m /\ k \in 1..m
      <4>1. s[j] = w.passed[j] /\ s[k] = w.passed[k] /\ j \in 1..Len(w.passed) /\ k \in 1..Len(w.passed)
        BY <2>4, <3>1
      <4>. QED
        BY <1>1, <4>1, Zenon DEF SweptTo, SweepPassed, InOrder, EachOnce
    <3>2. CASE j \in 1..m /\ k = m + 1
      <4>1. PICK i \in 1..n : i < n /\ s[j] = b[i]
        BY <2>6, <3>2
      <4>2. b[i].elo <= b[n].elo /\ b[i].fd # b[n].fd
        BY <1>0, <2>1, <2>5, <4>1
      <4>3. s[k] = b[n]
        BY <2>4, <3>2, Zenon
      <4>. QED
        BY <4>1, <4>2, <4>3, Zenon
    <3>3. CASE j = m + 1 /\ k \in 1..m
      <4>1. PICK i \in 1..n : i < n /\ s[k] = b[i]
        BY <2>6, <3>3
      <4>2. s[j] = b[n] /\ b[i].fd # b[n].fd /\ ~(j < k)
        BY <1>0, <2>1, <2>4, <2>5, <3>3, <4>1
      <4>. QED
        BY <4>1, <4>2, Zenon
    <3>4. CASE j = m + 1 /\ k = m + 1
      BY <3>4
    <3>. QED
      BY <2>7, <3>1, <3>2, <3>3, <3>4
  <2>10. Bucket(s)
    BY <2>4, <2>9 DEF Bucket, InOrder, EachOnce
  <2>11. ASSUME NEW i \in 1..n PROVE Stays(s, b[i]) <=> ~Paired(w, b[i])
    <3>1. CASE i < n
      <4>1. i \in 1..(n - 1)
        BY <1>0, <3>1
      <4>2. Passed(w, b[i]) <=> ~Paired(w, b[i])
        BY <1>1, <2>1, <4>1, Zenon DEF SweptTo, SweepSplits
      <4>3. ASSUME Passed(w, b[i]) PROVE Stays(s, b[i])
        <5>1. PICK k \in 1..m : w.passed[k] = b[i]
          BY <2>4, <4>3, Zenon DEF Passed
        <5>2. k \in 1..(m + 1)
          OBVIOUS
        <5>. QED
          BY <2>4, <5>1, <5>2, Zenon DEF Stays
      <4>4. ASSUME Stays(s, b[i]) PROVE Passed(w, b[i])
        <5>1. PICK k \in 1..(m + 1) : s[k] = b[i]
          BY <2>4, <4>4, Zenon DEF Stays
        <5>2. ASSUME k = m + 1 PROVE FALSE
          <6>1. b[i] = b[n]
            BY <2>4, <5>1, <5>2, Zenon
          <6>2. i = n
            BY <2>1, <2>5, <6>1, Zenon
          <6>. QED
            BY <1>0, <3>1, <6>2
        <5>3. k \in 1..m
          BY <5>2
        <5>. QED
          BY <2>4, <5>1, <5>3, Zenon DEF Passed
      <4>. QED
        BY <4>2, <4>3, <4>4
    <3>2. CASE i = n
      <4>1. m + 1 \in 1..(m + 1)
        OBVIOUS
      <4>2. Stays(s, b[n])
        BY <2>4, <4>1, Zenon DEF Stays
      <4>3. ASSUME Paired(w, b[n]) PROVE FALSE
        <5>1. PICK p \in 1..Len(w.pairs) : b[n] = w.pairs[p][1] \/ b[n] = w.pairs[p][2]
          BY <4>3, Zenon DEF Paired
        <5>2. PICK j \in 1..(n - 1 - 1) : w.pairs[p] = <<b[j], b[j + 1]>>
          BY <1>1, <2>1, Zenon DEF SweptTo, SweepPairs
        <5>3. b[n] = b[j] \/ b[n] = b[j + 1]
          BY <5>1, <5>2
        <5>4. j \in 1..n /\ j + 1 \in 1..n /\ j # n /\ j + 1 # n
          BY <1>0
        <5>. QED
          BY <2>1, <2>5, <5>3, <5>4
      <4>. QED
        BY <3>2, <4>2, <4>3
    <3>3. i < n \/ i = n
      BY <1>0
    <3>. QED
      BY <3>1, <3>2, <3>3
  <2>12. ASSUME NEW p \in 1..Len(w.pairs)
         PROVE  \E j \in 1..(n - 1) : w.pairs[p] = <<b[j], b[j + 1]>> /\ Compatible(b[j], b[j + 1])
    <3>1. PICK j \in 1..(n - 1 - 1) : w.pairs[p] = <<b[j], b[j + 1]>> /\ Compatible(b[j], b[j + 1])
      BY <1>1, <2>1, Zenon DEF SweptTo, SweepPairs
    <3>2. j \in 1..(n - 1)
      BY <1>0
    <3>. QED
      BY <3>1, <3>2, Zenon
  <2>13. \A k \in 1..Len(s) : \E i \in 1..n : s[k] = b[i]
    BY <2>4, <2>8
  <2>. QED
    BY <1>1, <1>2, <1>3, <2>2, <2>10, <2>11, <2>12, <2>13, Zenon DEF SweptWell
<1>. QED
  BY <1>4, <1>5

(* The players of the pairs have left the bucket, the others have not. *)
LEMMA SweepPlayers ==
    ASSUME NEW b, Bucket(b), NEW w, w = Sweep(b)
    PROVE  /\ PlayersOf(w.pairs) \subseteq Fds(b)
           /\ Fds(Waiting(w)) = Fds(b) \ PlayersOf(w.pairs)
<1>0. Len(b) \in Nat /\ \A i, j \in 1..Len(b) : b[i].fd = b[j].fd => i = j
  BY DEF Bucket, EachOnce
<1>1. SweptWell(w, b)
  BY SweepResult
<1>2. w.pairs \in Seq(EntrySet \X EntrySet)
  BY <1>1, Zenon DEF SweptWell
<1>3. ToSet(w.pairs) = {w.pairs[p] : p \in 1..Len(w.pairs)}
  BY <1>2 DEF ToSet
<1>4. \A f : f \in PlayersOf(w.pairs) <=> \E p \in 1..Len(w.pairs) : f = w.pairs[p][1].fd \/ f = w.pairs[p][2].fd
  <2>1. \A f : f \in PlayersOf(w.pairs) <=> \E q \in ToSet(w.pairs) : f \in {q[1].fd, q[2].fd}
    BY Zenon DEF PlayersOf
  <2>2. \A q : q \in ToSet(w.pairs) <=> \E p \in 1..Len(w.pairs) : q = w.pairs[p]
    BY <1>3
  <2>3. ASSUME NEW f, f \in PlayersOf(w.pairs)
        PROVE  \E p \in 1..Len(w.pairs) : f = w.pairs[p][1].fd \/ f = w.pairs[p][2].fd
    <3>1. PICK q \in ToSet(w.pairs) : f = q[1].fd \/ f = q[2].fd
      BY <2>1, <2>3
    <3>2. PICK p \in 1..Len(w.pairs) : q = w.pairs[p]
      BY <2>2
    <3>. QED
      BY <3>1, <3>2, Zenon
  <2>4. ASSUME NEW p \in 1..Len(w.pairs)
        PROVE  w.pairs[p][1].fd \in PlayersOf(w.pairs) /\ w.pairs[p][2].fd \in PlayersOf(w.pairs)
    <3>1. w.pairs[p] \in ToSet(w.pairs)
      BY <2>2
    <3>2. PICK q \in ToSet(w.pairs) : q = w.pairs[p]
      BY <3>1
    <3>. QED
      BY <2>1, <3>2
  <2>. QED
    BY <2>3, <2>4
<1>5. ASSUME NEW p \in 1..Len(w.pairs)
      PROVE  \E i, j \in 1..Len(b) : w.pairs[p][1] = b[i] /\ w.pairs[p][2] = b[j]
  <2>1. PICK j \in 1..(Len(b) - 1) : w.pairs[p] = <<b[j], b[j + 1]>>
    BY <1>1, Zenon DEF SweptWell
  <2>2. j \in 1..Len(b) /\ j + 1 \in 1..Len(b)
    BY <1>0
  <2>3. w.pairs[p][1] = b[j] /\ w.pairs[p][2] = b[j + 1]
    BY <2>1
  <2>. QED
    BY <2>2, <2>3
<1>6. ASSUME NEW i \in 1..Len(b) PROVE b[i].fd \in PlayersOf(w.pairs) <=> Paired(w, b[i])
  <2>1. ASSUME b[i].fd \in PlayersOf(w.pairs) PROVE Paired(w, b[i])
    <3>1. PICK p \in 1..Len(w.pairs) : b[i].fd = w.pairs[p][1].fd \/ b[i].fd = w.pairs[p][2].fd
      BY <1>4, <2>1, Zenon
    <3>2. PICK j, k \in 1..Len(b) : w.pairs[p][1] = b[j] /\ w.pairs[p][2] = b[k]
      BY <1>5, Zenon
    <3>3. i = j \/ i = k
      BY <1>0, <3>1, <3>2, Zenon
    <3>. QED
      BY <3>2, <3>3, Zenon DEF Paired
  <2>2. ASSUME Paired(w, b[i]) PROVE b[i].fd \in PlayersOf(w.pairs)
    BY <1>4, <2>2, Zenon DEF Paired
  <2>. QED
    BY <2>1, <2>2
<1>7. PlayersOf(w.pairs) \subseteq Fds(b)
  <2>1. ASSUME NEW f \in PlayersOf(w.pairs) PROVE f \in Fds(b)
    <3>1. PICK p \in 1..Len(w.pairs) : f = w.pairs[p][1].fd \/ f = w.pairs[p][2].fd
      BY <1>4, <2>1, Zenon
    <3>2. PICK j, k \in 1..Len(b) : w.pairs[p][1] = b[j] /\ w.pairs[p][2] = b[k]
      BY <1>5, Zenon
    <3>3. f = b[j].fd \/ f = b[k].fd
      BY <3>1, <3>2, Zenon
    <3>. QED
      BY <3>3 DEF Fds
  <2>. QED
    BY <2>1
<1>8. PICK s : s = Waiting(w)
  OBVIOUS
<1>9. /\ \A k \in 1..Len(s) : \E i \in 1..Len(b) : s[k] = b[i]
      /\ \A i \in 1..Len(b) : Stays(s, b[i]) <=> ~Paired(w, b[i])
  BY <1>1, <1>8, Zenon DEF SweptWell
<1>10. Fds(s) = Fds(b) \ PlayersOf(w.pairs)
  <2>1. ASSUME NEW k \in 1..Len(s) PROVE s[k].fd \in Fds(b) \ PlayersOf(w.pairs)
    <3>1. PICK i \in 1..Len(b) : s[k] = b[i]
      BY <1>9
    <3>2. Stays(s, b[i])
      BY <3>1 DEF Stays
    <3>. QED
      BY <1>6, <1>9, <3>1, <3>2 DEF Fds
  <2>2. ASSUME NEW i \in 1..Len(b), b[i].fd \notin PlayersOf(w.pairs) PROVE b[i].fd \in Fds(s)
    <3>1. PICK k \in 1..Len(s) : s[k] = b[i]
      BY <1>6, <1>9, <2>2 DEF Stays
    <3>. QED
      BY <3>1 DEF Fds
  <2>. QED
    BY <2>1, <2>2 DEF Fds
<1>. QED
  BY <1>7, <1>8, <1>10

-----------------------------------------------------------------------------
(* The inductive invariant: every bucket is in order and holds exactly the *)
(* connections whose index points to it.                                   *)
Queued == {f \in Seekers : fd_index_[f] # NotQueued}
IndexedBy(tc) == {f \in Seekers : fd_index_[f] = tc}
BucketsInv ==
    /\ buckets_ \in [TimeControls -> Seq(EntrySet)]
    /\ \A tc \in TimeControls :
          /\ Bucket(buckets_[tc])
          /\ Fds(buckets_[tc]) = IndexedBy(tc)
          /\ \A i \in 1..Len(buckets_[tc]) : buckets_[tc][i].enqueue_time <= now
IndexInv ==
    /\ fd_index_ \in [Seekers -> TimeControls \cup {NotQueued}]
    /\ total_size_ = Cardinality(Queued)
    /\ pending \subseteq Seekers /\ seated \subseteq Seekers
    /\ \A f \in seated : fd_index_[f] = NotQueued
    /\ now \in 0..MaxTime
QueueInv == BucketsInv /\ IndexInv

(* The players in the queue are counted. *)
LEMMA QueuedFinite == IsFiniteSet(Queued) /\ Cardinality(Queued) \in Nat /\ Cardinality(Queued) <= Cardinality(Seekers)
                      /\ Cardinality(Seekers) \in Nat
<1>1. IsFiniteSet(Seekers) /\ Queued \in SUBSET Seekers
  BY SeekersAssumption DEF Queued
<1>. QED
  BY <1>1, FS_Subset, FS_CardinalityType

(* No time control stands for not being queued. *)
LEMMA NoControlIsNone == \A tc \in TimeControls : tc # NotQueued
BY SeekersAssumption

(* The queue starts empty. *)
LEMMA QueueStarts == MatchInit => QueueInv
<1>. SUFFICES ASSUME MatchInit PROVE QueueInv
  OBVIOUS
<1>1. now \in 0..MaxTime /\ now \in Nat
  BY RangeAssumption DEF MatchInit
<1>2. ASSUME NEW tc \in TimeControls PROVE Bucket(buckets_[tc]) /\ Fds(buckets_[tc]) = IndexedBy(tc)
                                           /\ Len(buckets_[tc]) = 0
  <2>1. buckets_[tc] = <<>>
    BY DEF MatchInit
  <2>2. IndexedBy(tc) = {}
    BY NoControlIsNone DEF MatchInit, IndexedBy
  <2>. QED
    BY <2>1, <2>2 DEF Bucket, InOrder, EachOnce, Fds
<1>3. BucketsInv
  <2>1. buckets_ \in [TimeControls -> Seq(EntrySet)]
    BY DEF MatchInit
  <2>. QED
    BY <1>2, <2>1 DEF BucketsInv
<1>4. Queued = {}
  BY DEF MatchInit, Queued
<1>5. IndexInv
  BY <1>1, <1>4, FS_EmptySet DEF MatchInit, IndexInv
<1>. QED
  BY <1>3, <1>5 DEF QueueInv

(* add() erases an old entry of the connection and inserts the new one. *)
LEMMA QuickPlayKeeps ==
    ASSUME QueueInv, NEW f \in Seekers, NEW elo \in Elos, NEW tc \in TimeControls, QuickPlay(f, elo, tc)
    PROVE  QueueInv'
<1>. DEFINE e == [fd |-> f, elo |-> elo, enqueue_time |-> now]
            b == buckets_[tc]
<1>0. now \in Nat /\ now' = now
  BY RangeAssumption DEF QueueInv, IndexInv, QuickPlay
<1>1. e \in EntrySet /\ e.fd = f /\ e.elo = elo /\ e.enqueue_time = now
  BY <1>0 DEF EntrySet
<1>2. Bucket(b) /\ f \notin Fds(b)
  BY NoControlIsNone DEF QueueInv, BucketsInv, IndexedBy, QuickPlay
<1>3. PICK t : t = InsertAt(b, InsertPosition(b, elo), e)
  OBVIOUS
<1>4. buckets_' = [buckets_ EXCEPT ![tc] = t]
  BY <1>3, Zenon DEF QuickPlay
<1>. HIDE DEF e
<1>5. /\ Bucket(t) /\ Fds(t) = Fds(b) \cup {f}
      /\ \A i \in 1..Len(t) : t[i] = e \/ \E j \in 1..Len(b) : t[i] = b[j]
  <2>1. t = InsertAt(b, InsertPosition(b, e.elo), e) /\ e.fd \notin Fds(b)
    BY <1>1, <1>2, <1>3, Zenon
  <2>2. /\ Bucket(t) /\ Fds(t) = Fds(b) \cup {e.fd}
        /\ \A i \in 1..Len(t) : t[i] = e \/ \E j \in 1..Len(b) : t[i] = b[j]
    <3>. HIDE DEF b
    <3>1. Bucket(b) /\ e \in EntrySet /\ e.fd \notin Fds(b)
      BY <1>1, <1>2, <2>1
    <3>. QED
      BY <2>1, <3>1, Inserted
  <2>. QED
    BY <1>1, <2>2
<1>6. fd_index_' = [fd_index_ EXCEPT ![f] = tc]
  BY DEF QuickPlay
<1>7. BucketsInv'
  <2>1. buckets_' \in [TimeControls -> Seq(EntrySet)] /\ buckets_'[tc] = t
        /\ \A d \in TimeControls : d # tc => buckets_'[d] = buckets_[d]
    BY <1>4, <1>5 DEF QueueInv, BucketsInv, Bucket
  <2>2. IndexedBy(tc)' = IndexedBy(tc) \cup {f}
    BY <1>6 DEF IndexedBy, QueueInv, IndexInv
  <2>3. \A d \in TimeControls : d # tc => IndexedBy(d)' = IndexedBy(d)
    BY <1>6, NoControlIsNone DEF IndexedBy, QueueInv, IndexInv, QuickPlay
  <2>4. \A i \in 1..Len(t) : t[i].enqueue_time <= now
    <3>1. \A j \in 1..Len(b) : b[j].enqueue_time <= now
      BY DEF QueueInv, BucketsInv
    <3>. QED
      BY <1>0, <1>1, <1>5, <3>1
  <2>5. ASSUME NEW d \in TimeControls
        PROVE  /\ Bucket(buckets_'[d]) /\ Fds(buckets_'[d]) = IndexedBy(d)'
               /\ \A i \in 1..Len(buckets_'[d]) : buckets_'[d][i].enqueue_time <= now'
    <3>1. CASE d = tc
      BY <1>0, <1>5, <2>1, <2>2, <2>4, <3>1 DEF QueueInv, BucketsInv
    <3>2. CASE d # tc
      BY <1>0, <2>1, <2>3, <3>2 DEF QueueInv, BucketsInv
    <3>. QED
      BY <3>1, <3>2
  <2>. QED
    BY <2>1, <2>5 DEF BucketsInv, Fds, Bucket, InOrder, EachOnce
<1>8. IndexInv'
  <2>1. Queued' = Queued \cup {f} /\ f \notin Queued
    BY <1>6, NoControlIsNone DEF Queued, QueueInv, IndexInv, QuickPlay
  <2>2. Cardinality(Queued \cup {f}) = Cardinality(Queued) + 1
    BY <2>1, QueuedFinite, FS_AddElement
  <2>3. fd_index_' \in [Seekers -> TimeControls \cup {NotQueued}]
    BY <1>6 DEF QueueInv, IndexInv
  <2>4. \A g \in seated' : fd_index_'[g] = NotQueued
    BY <1>6 DEF QueueInv, IndexInv, QuickPlay
  <2>. QED
    BY <2>1, <2>2, <2>3, <2>4 DEF QueueInv, IndexInv, QuickPlay
<1>. QED
  BY <1>7, <1>8 DEF QueueInv

(* remove() erases the entry the index leads to. *)
LEMMA LeaveQueueKeeps == ASSUME QueueInv, NEW f \in Seekers, LeaveQueue(f) PROVE QueueInv'
<1>1. PICK tc \in TimeControls : tc = fd_index_[f]
  BY DEF QueueInv, IndexInv, LeaveQueue
<1>2. PICK b : b = buckets_[tc]
  OBVIOUS
<1>0. Bucket(b) /\ f \in Fds(b)
  BY <1>1, <1>2 DEF QueueInv, BucketsInv, IndexedBy
<1>3. PICK p \in 1..Len(b) : p = PositionOf(b, f) /\ b[p].fd = f
  <2>1. \E i \in DOMAIN b : b[i].fd = f
    BY <1>0 DEF Fds, Bucket
  <2>2. PositionOf(b, f) \in DOMAIN b /\ b[PositionOf(b, f)].fd = f
    BY <2>1 DEF PositionOf
  <2>3. DOMAIN b = 1..Len(b)
    BY <1>0 DEF Bucket
  <2>. QED
    BY <2>2, <2>3
<1>4. PICK t : t = RemoveAt(b, p)
  OBVIOUS
<1>5. buckets_' = [buckets_ EXCEPT ![tc] = t]
  BY <1>1, <1>2, <1>3, <1>4 DEF LeaveQueue
<1>6. /\ Bucket(t) /\ Fds(t) = Fds(b) \ {f}
      /\ \A i \in 1..Len(t) : \E j \in 1..Len(b) : t[i] = b[j]
  BY <1>0, <1>3, <1>4, Removed
<1>7. fd_index_' = [fd_index_ EXCEPT ![f] = NotQueued] /\ now' = now
  BY DEF LeaveQueue
<1>8. BucketsInv'
  <2>1. buckets_' \in [TimeControls -> Seq(EntrySet)] /\ buckets_'[tc] = t
        /\ \A d \in TimeControls : d # tc => buckets_'[d] = buckets_[d]
    BY <1>5, <1>6 DEF QueueInv, BucketsInv, Bucket
  <2>2. IndexedBy(tc)' = IndexedBy(tc) \ {f}
    BY <1>7, NoControlIsNone DEF IndexedBy, QueueInv, IndexInv
  <2>3. \A d \in TimeControls : d # tc => IndexedBy(d)' = IndexedBy(d)
    BY <1>1, <1>7, NoControlIsNone DEF IndexedBy, QueueInv, IndexInv
  <2>4. \A i \in 1..Len(t) : t[i].enqueue_time <= now
    BY <1>2, <1>6 DEF QueueInv, BucketsInv
  <2>5. ASSUME NEW d \in TimeControls
        PROVE  /\ Bucket(buckets_'[d]) /\ Fds(buckets_'[d]) = IndexedBy(d)'
               /\ \A i \in 1..Len(buckets_'[d]) : buckets_'[d][i].enqueue_time <= now'
    <3>1. CASE d = tc
      BY <1>2, <1>6, <1>7, <2>1, <2>2, <2>4, <3>1 DEF QueueInv, BucketsInv
    <3>2. CASE d # tc
      BY <1>7, <2>1, <2>3, <3>2 DEF QueueInv, BucketsInv
    <3>. QED
      BY <3>1, <3>2
  <2>. QED
    BY <2>1, <2>5 DEF BucketsInv, Fds, Bucket, InOrder, EachOnce
<1>9. IndexInv'
  <2>1. Queued' = Queued \ {f} /\ f \in Queued
    BY <1>7 DEF Queued, QueueInv, IndexInv, LeaveQueue
  <2>2. Cardinality(Queued \ {f}) = Cardinality(Queued) - 1
    BY <2>1, QueuedFinite, FS_RemoveElement
  <2>3. fd_index_' \in [Seekers -> TimeControls \cup {NotQueued}]
    BY <1>7 DEF QueueInv, IndexInv
  <2>4. \A g \in seated' : fd_index_'[g] = NotQueued
    BY <1>7 DEF QueueInv, IndexInv, LeaveQueue
  <2>. QED
    BY <2>1, <2>2, <2>3, <2>4 DEF QueueInv, IndexInv, LeaveQueue
<1>. QED
  BY <1>8, <1>9 DEF QueueInv

(* A player in the pairs of a sweep is one its bucket's index names. *)
Swept(tc) == Sweep(buckets_[tc])
Matched == UNION {PlayersOf(Swept(tc).pairs) : tc \in TimeControls}

(* Those a sweep pairs were queued, each in the tree the index names. *)
LEMMA MatchedPlayers ==
    ASSUME QueueInv
    PROVE  /\ Matched \subseteq Queued
           /\ \A tc \in TimeControls : PlayersOf(Swept(tc).pairs) = IndexedBy(tc) \cap Matched
<1>1. ASSUME NEW tc \in TimeControls
      PROVE  PlayersOf(Swept(tc).pairs) \subseteq IndexedBy(tc) /\ PlayersOf(Swept(tc).pairs) \subseteq Matched
  <2>1. Bucket(buckets_[tc]) /\ Fds(buckets_[tc]) = IndexedBy(tc)
    BY DEF QueueInv, BucketsInv
  <2>. QED
    BY <2>1, SweepPlayers DEF Swept, Matched
<1>2. \A c, d \in TimeControls : c # d => IndexedBy(c) \cap IndexedBy(d) = {}
  BY DEF IndexedBy
<1>3. \A tc \in TimeControls : IndexedBy(tc) \subseteq Queued
  BY NoControlIsNone DEF IndexedBy, Queued
<1>4. \A f \in Matched : \E tc \in TimeControls : f \in PlayersOf(Swept(tc).pairs)
  BY DEF Matched
<1>. HIDE DEF Matched
<1>. QED
  BY <1>1, <1>2, <1>3, <1>4

(* What one pass of try_match over all trees assigns. *)
LEMMA TryMatchDoes ==
    ASSUME NEW f, TryMatch(f)
    PROVE  /\ pending' = pending \ {f} /\ now' = now
           /\ buckets_' = [tc \in TimeControls |-> Waiting(Swept(tc))]
           /\ fd_index_' = [g \in Seekers |-> IF g \in Matched THEN NotQueued ELSE fd_index_[g]]
           /\ total_size_' = total_size_ - Cardinality(Matched)
           /\ seated' = seated \cup Matched
           /\ results' = UNION {ToSet(Swept(tc).pairs) : tc \in TimeControls}
<1>. DEFINE w == [tc \in TimeControls |-> Sweep(buckets_[tc])]
<1>1. \A tc \in TimeControls : w[tc] = Swept(tc)
  BY DEF Swept
<1>2. UNION {PlayersOf(w[tc].pairs) : tc \in TimeControls} = Matched
  BY <1>1, Zenon DEF Matched
<1>3. UNION {ToSet(w[tc].pairs) : tc \in TimeControls} = UNION {ToSet(Swept(tc).pairs) : tc \in TimeControls}
  BY <1>1, Zenon
<1>4. [tc \in TimeControls |-> Waiting(w[tc])] = [tc \in TimeControls |-> Waiting(Swept(tc))]
  BY <1>1, Zenon
<1>. QED
  BY <1>2, <1>3, <1>4, Zenon DEF TryMatch

(* A pass takes those it pairs out of trees, index and count alike. *)
LEMMA TryMatchKeeps == ASSUME QueueInv, NEW f \in Seekers, TryMatch(f) PROVE QueueInv'
<1>1. /\ pending' = pending \ {f} /\ now' = now
      /\ buckets_' = [tc \in TimeControls |-> Waiting(Swept(tc))]
      /\ fd_index_' = [g \in Seekers |-> IF g \in Matched THEN NotQueued ELSE fd_index_[g]]
      /\ total_size_' = total_size_ - Cardinality(Matched)
      /\ seated' = seated \cup Matched
  BY TryMatchDoes
<1>2. /\ Matched \subseteq Queued
      /\ \A tc \in TimeControls : PlayersOf(Swept(tc).pairs) = IndexedBy(tc) \cap Matched
  BY MatchedPlayers
<1>3. BucketsInv'
  <2>1. ASSUME NEW tc \in TimeControls
        PROVE  /\ Bucket(buckets_'[tc]) /\ Fds(buckets_'[tc]) = IndexedBy(tc)'
               /\ \A i \in 1..Len(buckets_'[tc]) : buckets_'[tc][i].enqueue_time <= now'
    <3>1. PICK b : b = buckets_[tc]
      OBVIOUS
    <3>2. PICK s : s = buckets_'[tc] /\ s = Waiting(Sweep(b))
      BY <1>1, <3>1 DEF Swept
    <3>3. Bucket(b) /\ Fds(b) = IndexedBy(tc) /\ \A i \in 1..Len(b) : b[i].enqueue_time <= now
      BY <3>1 DEF QueueInv, BucketsInv
    <3>4. SweptWell(Sweep(b), b)
      BY <3>3, SweepResult
    <3>5. Bucket(s) /\ \A k \in 1..Len(s) : \E i \in 1..Len(b) : s[k] = b[i]
      BY <3>2, <3>4, Zenon DEF SweptWell
    <3>6. Fds(s) = Fds(b) \ PlayersOf(Sweep(b).pairs)
      BY <3>2, <3>3, SweepPlayers
    <3>7. Fds(s) = IndexedBy(tc) \ Matched
      BY <1>2, <3>1, <3>3, <3>6 DEF Swept
    <3>8. IndexedBy(tc)' = IndexedBy(tc) \ Matched
      BY <1>1, NoControlIsNone DEF IndexedBy
    <3>9. \A k \in 1..Len(s) : s[k].enqueue_time <= now'
      BY <1>1, <3>3, <3>5
    <3>. QED
      BY <3>2, <3>5, <3>7, <3>8, <3>9, Zenon
  <2>2. buckets_' \in [TimeControls -> Seq(EntrySet)]
    BY <1>1, <2>1 DEF Bucket
  <2>. QED
    BY <2>1, <2>2 DEF BucketsInv, Fds, Bucket, InOrder, EachOnce
<1>4. IndexInv'
  <2>1. Queued' = Queued \ Matched
    BY <1>1 DEF Queued
  <2>2. IsFiniteSet(Matched) /\ Cardinality(Queued \ Matched) = Cardinality(Queued) - Cardinality(Matched)
    <3>1. IsFiniteSet(Matched) /\ IsFiniteSet(Queued \ Matched)
      <4>1. Matched \in SUBSET Queued /\ (Queued \ Matched) \in SUBSET Queued /\ IsFiniteSet(Queued)
        BY <1>2, QueuedFinite
      <4>2. \A T \in SUBSET Queued : IsFiniteSet(T)
        BY <4>1, FS_Subset
      <4>. QED
        BY <4>1, <4>2, Zenon
    <3>2. Queued = (Queued \ Matched) \cup Matched /\ (Queued \ Matched) \cap Matched = {}
      BY <1>2
    <3>3. PICK rest : rest = Queued \ Matched
      OBVIOUS
    <3>4. Cardinality(rest \cup Matched) = Cardinality(rest) + Cardinality(Matched) - Cardinality(rest \cap Matched)
      BY <3>1, <3>3, FS_Union
    <3>5. Cardinality(rest) \in Nat /\ Cardinality(Matched) \in Nat /\ Cardinality(rest \cap Matched) = 0
      BY <3>1, <3>2, <3>3, FS_CardinalityType, FS_EmptySet
    <3>6. rest \cup Matched = Queued
      BY <3>2, <3>3, Zenon
    <3>7. Cardinality(Queued) = Cardinality(rest) + Cardinality(Matched) - Cardinality(rest \cap Matched)
      BY <3>4, <3>6, Zenon
    <3>8. Cardinality(rest) = Cardinality(Queued) - Cardinality(Matched)
      <4>1. PICK x, y, z \in Nat : x = Cardinality(rest) /\ y = Cardinality(Matched) /\ z = Cardinality(Queued)
        BY <3>5, QueuedFinite
      <4>2. z = x + y - 0
        BY <3>5, <3>7, <4>1, Zenon
      <4>3. x = z - y
        BY <4>2
      <4>. QED
        BY <4>1, <4>3, Zenon
    <3>. QED
      BY <3>1, <3>3, <3>8, Zenon
  <2>3. Matched \subseteq Seekers
    BY <1>2 DEF Queued
  <2>4. fd_index_' \in [Seekers -> TimeControls \cup {NotQueued}]
    BY <1>1 DEF QueueInv, IndexInv
  <2>5. \A g \in seated' : fd_index_'[g] = NotQueued
    BY <1>1, <2>3 DEF QueueInv, IndexInv
  <2>6. total_size_' = Cardinality(Queued')
    BY <1>1, <2>1, <2>2 DEF QueueInv, IndexInv
  <2>. QED
    BY <1>1, <2>3, <2>4, <2>5, <2>6 DEF QueueInv, IndexInv
<1>. QED
  BY <1>3, <1>4 DEF QueueInv

(* Every step keeps the trees, the index and the count together. *)
LEMMA QueueInvStep == ASSUME QueueInv, [MatchNext]_matchVars PROVE QueueInv'
<1>1. ASSUME NEW f \in Seekers, Leave(f) PROVE QueueInv'
  BY <1>1 DEF Leave, QueueInv, BucketsInv, IndexInv, IndexedBy, Queued, Fds, Bucket, InOrder, EachOnce
<1>2. CASE Wait
  <2>1. now' = now + 1 /\ now' \in 0..MaxTime /\ now \in Nat
    BY <1>2, RangeAssumption DEF Wait, QueueInv, IndexInv
  <2>2. UNCHANGED <<buckets_, fd_index_, total_size_, pending, seated>>
    BY <1>2 DEF Wait
  <2>3. IndexInv'
    BY <2>1, <2>2 DEF QueueInv, IndexInv, Queued
  <2>4. ASSUME NEW tc \in TimeControls, NEW i \in 1..Len(buckets_[tc])
        PROVE  buckets_[tc][i].enqueue_time <= now'
    <3>1. buckets_[tc][i].enqueue_time \in Nat /\ buckets_[tc][i].enqueue_time <= now
      BY EntryOf DEF QueueInv, BucketsInv
    <3>. QED
      BY <2>1, <3>1
  <2>5. BucketsInv'
    BY <2>2, <2>4 DEF QueueInv, BucketsInv, IndexedBy, Fds, Bucket, InOrder, EachOnce
  <2>. QED
    BY <2>3, <2>5 DEF QueueInv
<1>3. CASE UNCHANGED matchVars
  BY <1>3 DEF matchVars, QueueInv, BucketsInv, IndexInv, IndexedBy, Queued, Fds, Bucket, InOrder, EachOnce
<1>. QED
  BY <1>1, <1>2, <1>3, QuickPlayKeeps, LeaveQueueKeeps, TryMatchKeeps DEF MatchNext

(* The queue's invariant, for every behaviour. *)
LEMMA QueueAlways == MatchSpec => []QueueInv
<1>1. QueueInv /\ [MatchNext]_matchVars => QueueInv'
  BY QueueInvStep
<1>. QED
  BY QueueStarts, <1>1, PTL DEF MatchSpec

-----------------------------------------------------------------------------
(* What the invariant says of the tables *)

(* The entries and players of a tree, as the properties name them. *)
LEMMA SeekersAreFds ==
    ASSUME QueueInv, NEW tc \in TimeControls
    PROVE  /\ Entries(tc) = {buckets_[tc][i] : i \in 1..Len(buckets_[tc])}
           /\ SeekersIn(tc) = Fds(buckets_[tc])
<1>1. buckets_[tc] \in Seq(EntrySet)
  BY DEF QueueInv, BucketsInv
<1>2. Entries(tc) = {buckets_[tc][i] : i \in 1..Len(buckets_[tc])}
  BY <1>1 DEF Entries, ToSet
<1>. QED
  BY <1>2 DEF SeekersIn, Fds

(* The invariant gives the type invariant. *)
LEMMA QueueTypes == QueueInv => TypeOK
<1>. SUFFICES ASSUME QueueInv PROVE TypeOK
  OBVIOUS
<1>1. ASSUME NEW tc \in TimeControls
      PROVE  buckets_[tc] \in Seq([fd: Seekers, elo: Elos, enqueue_time: 0..now])
  <2>1. PICK b : b = buckets_[tc]
    OBVIOUS
  <2>2. b \in Seq(EntrySet) /\ \A i \in 1..Len(b) : b[i].enqueue_time <= now
    BY <2>1 DEF QueueInv, BucketsInv
  <2>3. now \in Nat
    BY RangeAssumption DEF QueueInv, IndexInv
  <2>4. ASSUME NEW i \in 1..Len(b) PROVE b[i] \in [fd: Seekers, elo: Elos, enqueue_time: 0..now]
    <3>1. b[i] \in EntrySet /\ b[i].enqueue_time <= now
      BY <2>2
    <3>2. b[i].enqueue_time \in 0..now
      BY <2>3, <3>1 DEF EntrySet
    <3>. QED
      BY <3>1, <3>2 DEF EntrySet
  <2>5. b \in Seq([fd: Seekers, elo: Elos, enqueue_time: 0..now])
    <3>1. PICK S : S = [fd: Seekers, elo: Elos, enqueue_time: 0..now]
      OBVIOUS
    <3>2. b = [i \in 1..Len(b) |-> b[i]] /\ Len(b) \in Nat /\ \A i \in 1..Len(b) : b[i] \in S
      BY <2>2, <2>4, <3>1
    <3>3. b \in Seq(S)
      BY <3>2
    <3>. QED
      BY <3>1, <3>3, Zenon
  <2>. QED
    BY <2>1, <2>5, Zenon
<1>2. total_size_ \in 0..Cardinality(Seekers)
  BY QueuedFinite DEF QueueInv, IndexInv
<1>. QED
  BY <1>1, <1>2 DEF TypeOK, QueueInv, IndexInv

(* The invariant gives the agreement of trees, index and count. *)
LEMMA QueueIndex == QueueInv => IndexConsistent
<1>. SUFFICES ASSUME QueueInv PROVE IndexConsistent
  OBVIOUS
<1>1. ASSUME NEW tc \in TimeControls
      PROVE  /\ SeekersIn(tc) = {f \in Seekers : fd_index_[f] = tc}
             /\ Len(buckets_[tc]) = Cardinality(SeekersIn(tc))
  <2>1. Bucket(buckets_[tc]) /\ Fds(buckets_[tc]) = IndexedBy(tc)
    BY DEF QueueInv, BucketsInv
  <2>2. SeekersIn(tc) = Fds(buckets_[tc])
    BY SeekersAreFds
  <2>3. Cardinality(Fds(buckets_[tc])) = Len(buckets_[tc])
    BY <2>1, PlayersCounted
  <2>. QED
    BY <2>1, <2>2, <2>3 DEF IndexedBy
<1>. QED
  BY <1>1 DEF IndexConsistent, QueueInv, IndexInv, Queued

-----------------------------------------------------------------------------
(* What a sweep does *)

(* The fence in numbers: a range that has grown to d in steps of g, one    *)
(* every e ticks, has had the time for them.                               *)
LEMMA StepsTaken ==
    ASSUME NEW x \in Nat, NEW q \in Nat, NEW g \in Nat \ {0}, x <= q * g
    PROVE  (x + g - 1) \div g <= q /\ (x + g - 1) \div g \in Nat
<1>1. q * g \in Nat /\ (q + 1) * g = q * g + g
  OBVIOUS
<1>2. PICK y \in Nat : y = x + g - 1
  OBVIOUS
<1>3. y < (q + 1) * g
  BY <1>1, <1>2
<1>4. PICK z : z = y \div g
  OBVIOUS
<1>5. z \in Int /\ z * g <= y /\ y < (z + 1) * g /\ z >= 0
  BY <1>2, <1>4
<1>6. z * g < (q + 1) * g
  BY <1>1, <1>3, <1>5
<1>7. z <= q
  <2>. SUFFICES ASSUME z >= q + 1 PROVE FALSE
    BY <1>5
  <2>1. PICK k \in Nat : z = q + 1 + k
    <3>1. z - (q + 1) \in Nat /\ z = q + 1 + (z - (q + 1))
      BY <1>5
    <3>. QED
      BY <3>1
  <2>2. (q + 1 + k) * g = (q + 1) * g + k * g /\ k * g >= 0 /\ (q + 1) * g \in Nat /\ k * g \in Nat
    OBVIOUS
  <2>. QED
    BY <1>6, <2>1, <2>2
<1>. QED
  BY <1>2, <1>4, <1>5, <1>7

(* Whoever's range has widened to d has waited as long as d asks for. *)
LEMMA WaitedEnough ==
    ASSUME NEW t \in Nat, NEW d \in Nat, d <= BaseRange + (t \div WidenEvery) * Widening
    PROVE  t >= NeededWait(d)
<1>0. BaseRange \in Nat /\ WidenEvery \in Nat \ {0} /\ Widening \in Nat \ {0}
  BY RangeAssumption
<1>1. CASE d <= BaseRange
  BY <1>1 DEF NeededWait
<1>2. CASE d > BaseRange
  <2>1. PICK q \in Nat : q = t \div WidenEvery /\ q * WidenEvery <= t
    BY <1>0
  <2>2. PICK x \in Nat : x = d - BaseRange
    BY <1>0, <1>2
  <2>3. x <= q * Widening
    <3>1. q * Widening \in Nat
      BY <1>0
    <3>. QED
      BY <1>0, <2>1, <2>2, <3>1
  <2>4. PICK z \in Nat : z = (x + Widening - 1) \div Widening /\ z <= q
    BY <1>0, <2>3, StepsTaken
  <2>5. WidenEvery * z <= q * WidenEvery
    <3>1. PICK k \in Nat : q = z + k
      <4>1. q - z \in Nat /\ q = z + (q - z)
        BY <2>4
      <4>. QED
        BY <4>1
    <3>2. (z + k) * WidenEvery = WidenEvery * z + k * WidenEvery /\ k * WidenEvery >= 0
          /\ WidenEvery * z \in Nat /\ k * WidenEvery \in Nat
      BY <1>0
    <3>. QED
      BY <3>1, <3>2
  <2>6. WidenEvery * z \in Nat /\ q * WidenEvery \in Nat
    BY <1>0
  <2>7. NeededWait(d) = WidenEvery * z
    <3>1. ~(d <= BaseRange)
      BY <1>0, <1>2
    <3>. QED
      BY <2>2, <2>4, <3>1 DEF NeededWait
  <2>. QED
    BY <2>1, <2>5, <2>6, <2>7
<1>. QED
  BY <1>0, <1>1, <1>2

(* A pair of a sweep: two neighbours of one bucket that accept each other. *)
LEMMA PairsOfSweep ==
    ASSUME QueueInv, NEW f \in Seekers, TryMatch(f), NEW p \in results'
    PROVE  \E tc \in TimeControls : \E j \in 1..(Len(buckets_[tc]) - 1) :
              /\ p = <<buckets_[tc][j], buckets_[tc][j + 1]>>
              /\ Compatible(buckets_[tc][j], buckets_[tc][j + 1])
<1>1. PICK tc \in TimeControls : p \in ToSet(Swept(tc).pairs)
  BY TryMatchDoes
<1>2. PICK b : b = buckets_[tc]
  OBVIOUS
<1>3. SweptWell(Sweep(b), b)
  BY <1>2, SweepResult DEF QueueInv, BucketsInv
<1>4. PICK ps \in Seq(EntrySet \X EntrySet) : ps = Sweep(b).pairs
  BY <1>3, Zenon DEF SweptWell
<1>5. p \in ToSet(ps)
  BY <1>1, <1>2, <1>4 DEF Swept
<1>6. PICK k \in 1..Len(ps) : p = ps[k]
  BY <1>5 DEF ToSet
<1>7. PICK j \in 1..(Len(b) - 1) : ps[k] = <<b[j], b[j + 1]>> /\ Compatible(b[j], b[j + 1])
  BY <1>3, <1>4, Zenon DEF SweptWell
<1>8. p = <<b[j], b[j + 1]>> /\ Compatible(b[j], b[j + 1])
  BY <1>6, <1>7, Zenon
<1>. QED
  BY <1>2, <1>8

(* Only try_match reports pairs. *)
LEMMA OnlyTryMatchReports ==
    ASSUME [MatchNext]_matchVars, results' # results, NEW p \in results'
    PROVE  \E f \in Seekers : TryMatch(f)
BY DEF MatchNext, matchVars, QuickPlay, LeaveQueue, Leave, Wait

(* A pair a sweep returns: two players of one tree, new to a game, who     *)
(* have waited for their difference.                                       *)
LEMMA PairIsFair ==
    ASSUME QueueInv, [MatchNext]_matchVars, results' # results, NEW p \in results'
    PROVE  /\ p[1].fd # p[2].fd
           /\ \E tc \in TimeControls : {p[1], p[2]} \subseteq Entries(tc)
           /\ {p[1].fd, p[2].fd} \cap seated = {}
           /\ \A e \in {p[1], p[2]} : Waited(e) >= NeededWait(Diff(p[1], p[2]))
<1>1. PICK f \in Seekers : TryMatch(f)
  BY OnlyTryMatchReports
<1>2. PICK tc \in TimeControls : \E j \in 1..(Len(buckets_[tc]) - 1) :
              /\ p = <<buckets_[tc][j], buckets_[tc][j + 1]>>
              /\ Compatible(buckets_[tc][j], buckets_[tc][j + 1])
  BY <1>1, PairsOfSweep
<1>3. PICK b : b = buckets_[tc]
  OBVIOUS
<1>4. PICK j \in 1..(Len(b) - 1) : p = <<b[j], b[j + 1]>> /\ Compatible(b[j], b[j + 1])
  BY <1>2, <1>3
<1>5. /\ Bucket(b) /\ Fds(b) = IndexedBy(tc)
      /\ \A i \in 1..Len(b) : b[i].enqueue_time <= now
  BY <1>3 DEF QueueInv, BucketsInv
<1>6. Len(b) \in Nat /\ j \in 1..Len(b) /\ j + 1 \in 1..Len(b) /\ j # j + 1
  BY <1>5 DEF Bucket
<1>7. PICK x, y : x = b[j] /\ y = b[j + 1] /\ p[1] = x /\ p[2] = y
  BY <1>4
<1>8. x \in EntrySet /\ y \in EntrySet /\ x.enqueue_time <= now /\ y.enqueue_time <= now
      /\ x.elo \in Nat /\ y.elo \in Nat /\ x.enqueue_time \in Nat /\ y.enqueue_time \in Nat
  <2>1. b \in Seq(EntrySet)
    BY <1>5 DEF Bucket
  <2>. QED
    BY <1>5, <1>6, <1>7, <2>1, EntryOf
<1>9. x.fd # y.fd
  BY <1>5, <1>6, <1>7 DEF Bucket, EachOnce
<1>10. {x, y} \subseteq Entries(tc)
  BY <1>3, <1>6, <1>7, SeekersAreFds
<1>11. x.fd \in IndexedBy(tc) /\ y.fd \in IndexedBy(tc)
  BY <1>5, <1>6, <1>7 DEF Fds
<1>12. {x.fd, y.fd} \cap seated = {}
  BY <1>11, NoControlIsNone DEF IndexedBy, QueueInv, IndexInv
<1>13. now \in Nat
  BY RangeAssumption DEF QueueInv, IndexInv
<1>14. PICK d \in Nat : d = Diff(x, y)
  BY <1>8 DEF Diff
<1>15. d <= acceptable_range(x, now) /\ d <= acceptable_range(y, now)
  BY <1>4, <1>7, <1>14, Zenon DEF Compatible
<1>16. ASSUME NEW e \in {x, y} PROVE Waited(e) >= NeededWait(d)
  <2>1. PICK t \in Nat : t = now - e.enqueue_time
    BY <1>8, <1>13, <1>16
  <2>2. d <= BaseRange + (t \div WidenEvery) * Widening
    BY <1>15, <2>1 DEF acceptable_range
  <2>. QED
    BY <2>1, <2>2, WaitedEnough DEF Waited
<1>. QED
  BY <1>7, <1>9, <1>10, <1>12, <1>14, <1>16, Zenon

(* Nobody of the same tree is rated strictly between the two of a pair. *)
LEMMA NobodyIsBetween ==
    ASSUME QueueInv, [MatchNext]_matchVars, results' # results, NEW p \in results',
           NEW tc \in TimeControls, NEW c \in Entries(tc), p[1] \in Entries(tc)
    PROVE  /\ ~(p[1].elo < c.elo /\ c.elo < p[2].elo)
           /\ ~(p[2].elo < c.elo /\ c.elo < p[1].elo)
<1>1. PICK f \in Seekers : TryMatch(f)
  BY OnlyTryMatchReports
<1>2. PICK ptc \in TimeControls : \E j \in 1..(Len(buckets_[ptc]) - 1) :
              p = <<buckets_[ptc][j], buckets_[ptc][j + 1]>>
  BY <1>1, PairsOfSweep
<1>3. PICK j \in 1..(Len(buckets_[ptc]) - 1) : p = <<buckets_[ptc][j], buckets_[ptc][j + 1]>>
  BY <1>2
<1>4. \A d \in TimeControls : Bucket(buckets_[d]) /\ Fds(buckets_[d]) = IndexedBy(d)
  BY DEF QueueInv, BucketsInv
<1>5. Len(buckets_[ptc]) \in Nat /\ j \in 1..Len(buckets_[ptc]) /\ j + 1 \in 1..Len(buckets_[ptc])
  BY <1>4 DEF Bucket
<1>6. ptc = tc
  <2>1. p[1].fd \in IndexedBy(ptc)
    BY <1>3, <1>4, <1>5 DEF Fds
  <2>2. p[1].fd \in IndexedBy(tc)
    <3>1. p[1].fd \in SeekersIn(tc)
      BY DEF SeekersIn
    <3>. QED
      BY <1>4, <3>1, SeekersAreFds
  <2>. QED
    BY <2>1, <2>2 DEF IndexedBy
<1>7. PICK b : b = buckets_[tc] /\ Bucket(b) /\ Len(b) \in Nat /\ j \in 1..Len(b) /\ j + 1 \in 1..Len(b)
               /\ p[1] = b[j] /\ p[2] = b[j + 1]
  BY <1>3, <1>4, <1>5, <1>6
<1>8. PICK k \in 1..Len(b) : c = b[k]
  BY <1>7, SeekersAreFds
<1>9. \A i, n \in 1..Len(b) : i < n => b[i].elo <= b[n].elo
  BY <1>7 DEF Bucket, InOrder
<1>10. \A i \in 1..Len(b) : b[i].elo \in Nat
  BY <1>7, EntryOf DEF Bucket
<1>11. b[j].elo <= b[j + 1].elo
  BY <1>7, <1>9
<1>12. k < j \/ k = j \/ k = j + 1 \/ j + 1 < k
  BY <1>7
<1>13. b[k].elo <= b[j].elo \/ b[j + 1].elo <= b[k].elo
  BY <1>7, <1>9, <1>10, <1>12
<1>14. PICK x, y, z \in Nat : x = p[1].elo /\ y = p[2].elo /\ z = c.elo
  BY <1>7, <1>8, <1>10
<1>15. x <= y /\ (z <= x \/ y <= z)
  BY <1>7, <1>8, <1>11, <1>13, <1>14, Zenon
<1>16. ~(x < z /\ z < y) /\ ~(y < z /\ z < x)
  BY <1>15
<1>. QED
  BY <1>14, <1>16, Zenon

(* A pass leaves no two neighbours waiting who accepted each other. *)
LEMMA SweepIsThorough ==
    ASSUME QueueInv, NEW f \in Seekers, TryMatch(f), NEW tc \in TimeControls,
           NEW i \in 1..(Len(buckets_[tc]) - 1), Compatible(buckets_[tc][i], buckets_[tc][i + 1])
    PROVE  ~({buckets_[tc][i], buckets_[tc][i + 1]} \subseteq ToSet(buckets_[tc]'))
<1>1. PICK b : b = buckets_[tc]
  OBVIOUS
<1>2. Bucket(b)
  BY <1>1 DEF QueueInv, BucketsInv
<1>3. PICK s : s = buckets_'[tc] /\ s = Waiting(Sweep(b))
  BY <1>1, TryMatchDoes DEF Swept
<1>4. SweptWell(Sweep(b), b)
  BY <1>2, SweepResult
<1>5. Paired(Sweep(b), b[i]) \/ Paired(Sweep(b), b[i + 1])
  BY <1>1, <1>4, Zenon DEF SweptWell
<1>6. i \in 1..Len(b) /\ i + 1 \in 1..Len(b)
  BY <1>1, <1>2 DEF Bucket
<1>7. ~Stays(s, b[i]) \/ ~Stays(s, b[i + 1])
  BY <1>3, <1>4, <1>5, <1>6, Zenon DEF SweptWell
<1>8. s \in Seq(EntrySet)
  BY <1>3, <1>4, Zenon DEF SweptWell, Bucket
<1>9. \A e : e \in ToSet(s) => Stays(s, e)
  BY <1>8 DEF ToSet, Stays
<1>. QED
  BY <1>1, <1>3, <1>7, <1>9

-----------------------------------------------------------------------------
(* The queue's indexes agree, and try_match pairs connections of one       *)
(* bucket, neighbours in rating order who had both waited long enough and  *)
(* had no game, and leaves no two such neighbours behind: for any number   *)
(* of connections, any ratings, time controls and fence                    *)
(* (Matchmaker::enqueue, dequeue and try_match).                           *)
THEOREM QueueStaysFair == MatchSpec => QueueIsFair
<1>1. QueueInv /\ [MatchNext]_matchVars =>
        (results' # results =>
         \A p \in results' :
            /\ p[1].fd # p[2].fd
            /\ \E tc \in TimeControls : {p[1], p[2]} \subseteq Entries(tc)
            /\ {p[1].fd, p[2].fd} \cap seated = {}
            /\ \A e \in {p[1], p[2]} : Waited(e) >= NeededWait(Diff(p[1], p[2])))
  BY PairIsFair
<1>2. QueueInv /\ [MatchNext]_matchVars =>
        (results' # results =>
         \A p \in results', tc \in TimeControls : \A c \in Entries(tc) :
            p[1] \in Entries(tc) => /\ ~(p[1].elo < c.elo /\ c.elo < p[2].elo)
                                   /\ ~(p[2].elo < c.elo /\ c.elo < p[1].elo))
  BY NobodyIsBetween
<1>3. QueueInv /\ [MatchNext]_matchVars =>
        (\A f \in Seekers : TryMatch(f) =>
         \A tc \in TimeControls : \A i \in 1..(Len(buckets_[tc]) - 1) :
            Compatible(buckets_[tc][i], buckets_[tc][i + 1])
              => ~({buckets_[tc][i], buckets_[tc][i + 1]} \subseteq ToSet(buckets_[tc]')))
  BY SweepIsThorough
<1>. QED
  BY QueueAlways, QueueTypes, QueueIndex, <1>1, <1>2, <1>3, PTL
     DEF MatchSpec, QueueIsFair, MatchesFair, NobodyBetween, NoCompatibleNeighboursLeft
=============================================================================

---------------------------- MODULE Matchmaking ----------------------------
(***************************************************************************)
(* The quick-play queue: src/game/matchmaker.cpp and the quick_play and    *)
(* cancel_queue handlers of the gameplay service.                          *)
(*                                                                         *)
(* enqueue, dequeue and try_match each run under the matchmaker's mutex    *)
(* and are one action; quick_play calls enqueue and try_match one after    *)
(* the other, so other handlers run between them.  A multimap is a         *)
(* sequence sorted by rating, new entries after their equals; a bucket     *)
(* that does not exist is the empty sequence.  try_match reads the clock   *)
(* once per pair: the ticks are long against a sweep, and one reading      *)
(* stands for all of them.                                                 *)
(***************************************************************************)
EXTENDS Integers, Sequences, SequencesExt, FiniteSets

CONSTANTS Seekers,            \* connections
          Elos,           \* ratings players queue with
          TimeControls,
          BaseRange,      \* base_range of acceptable_range
          WidenEvery,     \* ticks of waiting between two widenings
          Widening,       \* points the range widens each time
          MaxTime         \* bound: ticks

ASSUME RangeAssumption == /\ Elos \subseteq Nat
                          /\ {BaseRange, MaxTime} \subseteq Nat
                          /\ {WidenEvery, Widening} \subseteq Nat \ {0}

NotQueued == "none"
ASSUME SeekersAssumption == IsFiniteSet(Seekers) /\ NotQueued \notin Seekers \cup TimeControls

VARIABLES buckets_,       \* TimeControl -> entries in rating order
          fd_index_,      \* connection -> the bucket its entry is in
          total_size_,
          pending,        \* quick_play handlers between enqueue and try_match
          seated,         \* connections a match has put into a room
          results,        \* what the try_match that just ran returned
          now

matchVars == <<buckets_, fd_index_, total_size_, pending, seated, results, now>>

MatchInit == /\ buckets_ = [tc \in TimeControls |-> <<>>]
             /\ fd_index_ = [f \in Seekers |-> NotQueued]
             /\ total_size_ = 0
             /\ pending = {} /\ seated = {} /\ results = {}
             /\ now = 0

-----------------------------------------------------------------------------
acceptable_range(e, t) ==
    BaseRange + ((t - e.enqueue_time) \div WidenEvery) * Widening

Diff(a, b) == IF a.elo < b.elo THEN b.elo - a.elo ELSE a.elo - b.elo

(* Both players must accept the difference. *)
Compatible(a, b) == /\ Diff(a, b) <= acceptable_range(a, now)
                    /\ Diff(a, b) <= acceptable_range(b, now)

(* multimap::insert: behind every entry that is rated no higher. *)
InsertPositionMutant(s, elo) == 1
InsertPosition(s, elo) == Cardinality({i \in DOMAIN s : s[i].elo <= elo}) + 1

(* quick_play: refused while queued or seated, then enqueued. *)
QuickPlay(f, elo, tc) ==
    /\ f \notin pending /\ f \notin seated
    /\ fd_index_[f] = NotQueued
    /\ LET e == [fd |-> f, elo |-> elo, enqueue_time |-> now]
           b == buckets_[tc]
       IN buckets_' = [buckets_ EXCEPT ![tc] = InsertAt(b, InsertPosition(b, elo), e)]
    /\ fd_index_' = [fd_index_ EXCEPT ![f] = tc]
    /\ total_size_' = total_size_ + 1
    /\ pending' = pending \cup {f}
    /\ results' = {}
    /\ UNCHANGED <<seated, now>>

(* dequeue erases the entry its iterator points to. *)
PositionOf(s, f) == CHOOSE i \in DOMAIN s : s[i].fd = f

(* cancel_queue, and the disconnect of a queued connection. *)
LeaveQueue(f) ==
    /\ f \notin pending
    /\ fd_index_[f] # NotQueued
    /\ buckets_' = [buckets_ EXCEPT ![fd_index_[f]] = RemoveAt(@, PositionOf(@, f))]
    /\ fd_index_' = [fd_index_ EXCEPT ![f] = NotQueued]
    /\ total_size_' = total_size_ - 1
    /\ results' = {}
    /\ UNCHANGED <<pending, seated, now>>

-----------------------------------------------------------------------------
(* The sweep of one bucket.  Its state: the entry under the iterator, the  *)
(* entries already passed over and the pairs already matched.              *)
NoEntry == [fd |-> NotQueued, elo |-> 0, enqueue_time |-> 0]
Walk(w, e) ==
    IF w.it = NoEntry THEN [w EXCEPT !.it = e]
    ELSE IF Compatible(w.it, e)
         THEN [it |-> NoEntry, passed |-> w.passed,
               pairs |-> Append(w.pairs, <<w.it, e>>)]
         ELSE [it |-> e, passed |-> Append(w.passed, w.it), pairs |-> w.pairs]

SweepBegins == [it |-> NoEntry, passed |-> <<>>, pairs |-> <<>>]
Sweep(bucket) ==
    LET walk[n \in 0..Len(bucket)] ==
            IF n = 0 THEN SweepBegins ELSE Walk(walk[n - 1], bucket[n])
    IN walk[Len(bucket)]

Waiting(w) == IF w.it = NoEntry THEN w.passed ELSE Append(w.passed, w.it)
PlayersOf(pairs) == UNION {{p[1].fd, p[2].fd} : p \in ToSet(pairs)}

(* try_match at the end of f's quick_play. *)
TryMatch(f) ==
    /\ f \in pending
    /\ pending' = pending \ {f}
    /\ LET w == [tc \in TimeControls |-> Sweep(buckets_[tc])]
           matched == UNION {PlayersOf(w[tc].pairs) : tc \in TimeControls}
       IN /\ buckets_' = [tc \in TimeControls |-> Waiting(w[tc])]
          /\ fd_index_' = [g \in Seekers |-> IF g \in matched THEN NotQueued
                                                          ELSE fd_index_[g]]
          /\ total_size_' = total_size_ - Cardinality(matched)
          /\ seated' = seated \cup matched
          /\ results' = UNION {ToSet(w[tc].pairs) : tc \in TimeControls}
    /\ UNCHANGED now

(* The game of a matched connection is over: it may queue again. *)
Leave(f) ==
    /\ f \in seated /\ f \notin pending
    /\ seated' = seated \ {f}
    /\ results' = {}
    /\ UNCHANGED <<buckets_, fd_index_, total_size_, pending, now>>

Wait == /\ now < MaxTime
        /\ now' = now + 1
        /\ results' = {}
        /\ UNCHANGED <<buckets_, fd_index_, total_size_, pending, seated>>

MatchNext == \/ \E f \in Seekers : \/ \E elo \in Elos, tc \in TimeControls : QuickPlay(f, elo, tc)
                               \/ LeaveQueue(f) \/ TryMatch(f) \/ Leave(f)
             \/ Wait

MatchSpec == MatchInit /\ [][MatchNext]_matchVars

-----------------------------------------------------------------------------
Entries(tc) == ToSet(buckets_[tc])
SeekersIn(tc) == {e.fd : e \in Entries(tc)}

(* Type correctness. *)
TypeOK == /\ \A tc \in TimeControls :
                buckets_[tc] \in Seq([fd: Seekers, elo: Elos, enqueue_time: 0..now])
          /\ fd_index_ \in [Seekers -> TimeControls \cup {NotQueued}]
          /\ total_size_ \in 0..Cardinality(Seekers)
          /\ pending \subseteq Seekers /\ seated \subseteq Seekers
          /\ now \in 0..MaxTime

(* The reverse index, the trees and the cached size agree: fd_index_ names *)
(* the one bucket that holds a connection's entry (dequeue erases through  *)
(* that iterator), nobody is queued twice, and a matched connection is in  *)
(* no bucket any more.                                                     *)
IndexConsistent ==
    /\ \A tc \in TimeControls :
          /\ SeekersIn(tc) = {f \in Seekers : fd_index_[f] = tc}
          /\ Len(buckets_[tc]) = Cardinality(SeekersIn(tc))
    /\ total_size_ = Cardinality({f \in Seekers : fd_index_[f] # NotQueued})
    /\ \A f \in seated : fd_index_[f] = NotQueued

(* A new pair of try_match comes out of one bucket, is two connections,    *)
(* neither of which had a game, and each had waited long enough to accept  *)
(* the difference: wait is measured from the own enqueue, not the other's. *)
Waited(e) == now - e.enqueue_time
NeededWait(d) == IF d <= BaseRange THEN 0
                 ELSE WidenEvery * ((d - BaseRange + Widening - 1) \div Widening)
MatchesFair ==
    [][results' # results =>
         \A p \in results' :
            /\ p[1].fd # p[2].fd
            /\ \E tc \in TimeControls : {p[1], p[2]} \subseteq Entries(tc)
            /\ {p[1].fd, p[2].fd} \cap seated = {}
            /\ \A e \in {p[1], p[2]} : Waited(e) >= NeededWait(Diff(p[1], p[2]))]_matchVars

(* Nobody is passed over: no waiting player of the bucket is rated         *)
(* strictly between the two players of a pair.  It rests on the rating     *)
(* order of the tree surviving every insert and erase.                     *)
NobodyBetween ==
    [][results' # results =>
         \A p \in results', tc \in TimeControls : \A c \in Entries(tc) :
            p[1] \in Entries(tc) => /\ ~(p[1].elo < c.elo /\ c.elo < p[2].elo)
                                   /\ ~(p[2].elo < c.elo /\ c.elo < p[1].elo)]_matchVars

(* A sweep is thorough: of two players who stood next to each other in     *)
(* rating order when try_match began and accept each other, at least one   *)
(* has left the queue for a game when it returns.                          *)
NoCompatibleNeighboursLeft ==
    [][\A f \in Seekers : TryMatch(f) =>
         \A tc \in TimeControls : \A i \in 1..(Len(buckets_[tc]) - 1) :
            Compatible(buckets_[tc][i], buckets_[tc][i + 1])
              => ~({buckets_[tc][i], buckets_[tc][i + 1]} \subseteq ToSet(buckets_[tc]'))]_matchVars

(* The queue's indexes agree, and a sweep pairs acceptable neighbours only *)
(* and all of them.                                                        *)
QueueIsFair ==
    /\ []TypeOK
    /\ []IndexConsistent
    /\ MatchesFair
    /\ NobodyBetween
    /\ NoCompatibleNeighboursLeft

=============================================================================

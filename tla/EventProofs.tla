---------------------------- MODULE EventProofs ----------------------------
(***************************************************************************)
(* Tournaments.  The public state route, for any number of requests and    *)
(* tournaments and a cache of any size: nobody is shown an event without a *)
(* change that was acknowledged to its author before he asked, and nobody  *)
(* is taken back in time.  Then the seats of one pairing, for any number   *)
(* of sockets and restarts: a newer socket is never replaced by an older   *)
(* one, room numbers are not given twice and no room outlives its pairing. *)
(* Last, two parts of src/storage that both rest on.  The read pool, for   *)
(* any number of slots, requests and outages: a slot is leased to one      *)
(* request at a time and comes back however its lease ended, and a broken  *)
(* session costs one request.  The migration runner, for any number of     *)
(* runners and mishaps: a script takes effect once.                        *)
(***************************************************************************)
EXTENDS TournamentViews, TournamentSeats, DatabasePool, Migrations, FiniteSetTheorems, TLAPS

Steps == {"idle", "create", "invalidate", "acknowledge", "lookup", "read", "store", "send"}
Holding == {"read", "store"}     \* steps a visitor takes with the cache's mutex
ViewTypes ==
    /\ changes \in [Events -> Nat]
    /\ DOMAIN state_cache_ \subseteq Events /\ IsFiniteSet(DOMAIN state_cache_)
    /\ state_cache_ \in [DOMAIN state_cache_ -> [frame : Nat, fresh : BOOLEAN]]
    /\ visitor \in [Visitors -> [step : Steps, event : Events \cup {0}, frame : Nat,
                                 floor : [acked : Nat, seen : Nat]]]
    /\ \A v \in Visitors : visitor[v].step \notin {"idle", "create"} => visitor[v].event \in Events
    /\ acked \in [Events -> Nat] /\ seen \in [Events -> Nat]

(* Whoever is between the lookup and the store has the mutex. *)
MutexHeld == /\ cacheHolder = Nobody \/ cacheHolder \in Visitors
             /\ \A v \in Visitors : visitor[v].step \in Holding <=> cacheHolder = v

(* Frames that somebody could still be given: those of the cache and the   *)
(* one about to be stored.                                                 *)
AtLeast(n, e) ==
    /\ e \in DOMAIN state_cache_ => state_cache_[e].frame >= n
    /\ \A v \in Visitors : visitor[v].step = "store" /\ visitor[v].event = e => visitor[v].frame >= n

(* Nothing shows a change that was not committed, and no row is shown that *)
(* is not there.                                                           *)
NothingInvented == \A e \in Events :
    /\ acked[e] <= changes[e] /\ seen[e] <= changes[e]
    /\ AtLeast(1, e)
    /\ e \in DOMAIN state_cache_ => state_cache_[e].frame <= changes[e]
    /\ \A v \in Visitors : visitor[v].event = e => visitor[v].frame <= changes[e]

(* What was acknowledged or is about to be, and what was sent or is about  *)
(* to be, is in every frame that can still be given.                       *)
NothingLost ==
    /\ \A e \in Events : AtLeast(acked[e], e) /\ AtLeast(seen[e], e)
    /\ \A v \in Visitors : visitor[v].step \in {"acknowledge", "send"} =>
          AtLeast(visitor[v].frame, visitor[v].event)

(* What a request may count on was so before it came in. *)
FloorsKept == \A v \in Visitors :
    LET floor == visitor[v].floor
    IN  /\ visitor[v].step \in {"lookup", "read"} =>
              floor.acked <= acked[visitor[v].event] /\ floor.seen <= seen[visitor[v].event]
        /\ visitor[v].step \in {"store", "send"} =>
              visitor[v].frame >= floor.acked /\ visitor[v].frame >= floor.seen

ViewsInv == ViewTypes /\ MutexHeld /\ NothingInvented /\ NothingLost /\ FloorsKept /\ CacheBounded

-----------------------------------------------------------------------------
(* The greater of two numbers. *)
LEMMA GreaterOfTwo ==
    ASSUME NEW a \in Nat, NEW b \in Nat
    PROVE  /\ Max({a, b}) \in {a, b}
           /\ Max({a, b}) >= a /\ Max({a, b}) >= b
<1>1. \E m \in {a, b} : \A n \in {a, b} : m >= n
  OBVIOUS
<1>. QED
  BY <1>1 DEF Max

(* A visitor record, and the record of one visitor replaced. *)
Visit == [step : Steps, event : Events \cup {0}, frame : Nat, floor : [acked : Nat, seen : Nat]]
LEMMA OneVisitor ==
    ASSUME ViewTypes, NEW v \in Visitors, NEW r \in Visit, visitor' = [visitor EXCEPT ![v] = r],
           r.step \notin {"idle", "create"} => r.event \in Events
    PROVE  /\ visitor' \in [Visitors -> Visit] /\ visitor'[v] = r
           /\ \A u \in Visitors : u # v => visitor'[u] = visitor[u]
           /\ \A u \in Visitors : visitor'[u].step \notin {"idle", "create"} => visitor'[u].event \in Events
<1>1. visitor' \in [Visitors -> Visit] /\ visitor'[v] = r /\ \A u \in Visitors : u # v => visitor'[u] = visitor[u]
  BY DEF ViewTypes, Visit
<1>. QED
  BY <1>1 DEF ViewTypes

(* The parts of a visitor that only moves on. *)
LEMMA MovedOn ==
    ASSUME ViewTypes, NEW v \in Visitors, NEW step \in Steps, Continues(v, step),
           visitor[v].step \notin {"idle", "create"}
    PROVE  \E r \in Visit : /\ visitor' = [visitor EXCEPT ![v] = r]
                            /\ r.step = step /\ r.event = visitor[v].event /\ r.event \in Events
                            /\ r.frame = visitor[v].frame /\ r.floor = visitor[v].floor
<1>1. visitor[v] \in Visit /\ visitor[v].event \in Events
  BY DEF ViewTypes, Visit
<1>2. [visitor[v] EXCEPT !.step = step] \in Visit
  BY <1>1 DEF Visit
<1>3. visitor' = [visitor EXCEPT ![v] = [visitor[v] EXCEPT !.step = step]]
  BY DEF Continues
<1>4. /\ [visitor[v] EXCEPT !.step = step].step = step
      /\ [visitor[v] EXCEPT !.step = step].event = visitor[v].event
      /\ [visitor[v] EXCEPT !.step = step].frame = visitor[v].frame
      /\ [visitor[v] EXCEPT !.step = step].floor = visitor[v].floor
  BY <1>1 DEF Visit
<1>. QED
  BY <1>1, <1>2, <1>3, <1>4

(* Somebody who has nothing is asked nothing. *)
LEMMA AtHomeIsVisit ==
    /\ AtHome \in Visit /\ AtHome.step = "idle" /\ AtHome.event = 0 /\ AtHome.frame = 0
    /\ [AtHome EXCEPT !.step = "create"] \in Visit
    /\ [AtHome EXCEPT !.step = "create"].step = "create"
    /\ [AtHome EXCEPT !.step = "create"].frame = 0
BY DEF AtHome, Visit, Steps

(* A visitor that leaves, or comes in empty-handed, takes nothing along. *)
LEMMA LeavingSound ==
    ASSUME ViewsInv, NEW v \in Visitors, NEW r \in Visit, visitor' = [visitor EXCEPT ![v] = r],
           r.step \in {"idle", "create"}, r.frame = 0, visitor[v].step \notin Holding,
           UNCHANGED <<changes, state_cache_, cacheHolder, acked, seen>>
    PROVE  ViewsInv'
<1>. USE DEF ViewsInv
<1>1. /\ visitor' \in [Visitors -> Visit] /\ visitor'[v] = r
      /\ \A u \in Visitors : u # v => visitor'[u] = visitor[u]
      /\ \A u \in Visitors : visitor'[u].step \notin {"idle", "create"} => visitor'[u].event \in Events
  BY OneVisitor
<1>2. ViewTypes'
  BY <1>1 DEF ViewTypes, Visit
<1>3. MutexHeld'
  BY <1>1 DEF MutexHeld, Holding
<1>4. \A n, e : AtLeast(n, e) => AtLeast(n, e)'
  BY <1>1 DEF AtLeast
<1>5. NothingInvented'
  BY <1>1, <1>4 DEF NothingInvented, ViewTypes
<1>6. NothingLost'
  BY <1>1, <1>4 DEF NothingLost
<1>7. FloorsKept' /\ CacheBounded'
  BY <1>1 DEF FloorsKept, CacheBounded
<1>. QED
  BY <1>2, <1>3, <1>5, <1>6, <1>7

(* The cache emptied while nobody has its mutex. *)
LEMMA EmptiedSound ==
    ASSUME ViewsInv, NEW v \in Visitors, NEW r \in Visit, visitor' = [visitor EXCEPT ![v] = r],
           cacheHolder = Nobody, state_cache_' = EmptyCache, UNCHANGED <<changes, cacheHolder, acked, seen>>,
           \/ r.step = "create" /\ r.frame = 0
           \/ /\ r.step = "acknowledge" /\ visitor[v].step = "invalidate"
              /\ r.event = visitor[v].event /\ r.frame = visitor[v].frame
    PROVE  ViewsInv'
<1>. USE DEF ViewsInv
<1>0. r.step = "acknowledge" => r.event \in Events
  BY DEF ViewTypes
<1>1. /\ visitor' \in [Visitors -> Visit] /\ visitor'[v] = r
      /\ \A u \in Visitors : u # v => visitor'[u] = visitor[u]
      /\ \A u \in Visitors : visitor'[u].step \notin {"idle", "create"} => visitor'[u].event \in Events
  BY <1>0, OneVisitor
<1>2. DOMAIN state_cache_' = {} /\ state_cache_' \in [{} -> [frame : Nat, fresh : BOOLEAN]]
  BY DEF EmptyCache
<1>3. ViewTypes'
  BY <1>1, <1>2, FS_EmptySet DEF ViewTypes, Visit
<1>4. \A u \in Visitors : visitor[u].step \notin Holding /\ visitor'[u].step \notin Holding
  BY <1>1, ViewsAssumption DEF MutexHeld, Holding, Nobody
<1>5. MutexHeld'
  BY <1>4, ViewsAssumption DEF MutexHeld, Nobody
<1>6. \A n, e : AtLeast(n, e)'
  BY <1>2, <1>4 DEF AtLeast, Holding
<1>7. NothingInvented'
  BY <1>1, <1>2, <1>6 DEF NothingInvented, ViewTypes
<1>8. NothingLost'
  BY <1>6 DEF NothingLost
<1>9. FloorsKept'
  BY <1>1 DEF FloorsKept
<1>10. CacheBounded'
  BY <1>2, FS_EmptySet, ViewsAssumption DEF CacheBounded
<1>. QED
  BY <1>3, <1>5, <1>7, <1>8, <1>9, <1>10

(* A change is committed; its author, if anybody, goes on to empty the     *)
(* cache.                                                                  *)
LEMMA CommitSound ==
    ASSUME ViewsInv, NEW e \in Events, Changed(e), UNCHANGED <<state_cache_, cacheHolder, acked, seen>>,
           \/ UNCHANGED visitor
           \/ \E v \in Visitors :
                 /\ visitor[v].step = "idle"
                 /\ visitor' = [visitor EXCEPT ![v] = [AtHome EXCEPT !.step = "invalidate", !.event = e,
                                                                     !.frame = changes[e] + 1]]
    PROVE  ViewsInv'
<1>. USE DEF ViewsInv
<1>1. /\ changes[e] \in Nat /\ changes' \in [Events -> Nat] /\ changes'[e] = changes[e] + 1
      /\ \A d \in Events : d # e => changes'[d] = changes[d]
      /\ \A d \in Events : changes'[d] >= changes[d] /\ changes[d] \in Nat
  BY DEF Changed, ViewTypes
<1>2. \A v \in Visitors : visitor[v].frame \in Nat
  BY DEF ViewTypes
<1>3. CASE UNCHANGED visitor
  <2>1. NothingInvented'
    BY <1>1, <1>2, <1>3 DEF NothingInvented, AtLeast, ViewTypes
  <2>. QED
    BY <1>1, <1>3, <2>1 DEF ViewTypes, MutexHeld, NothingLost, AtLeast, FloorsKept, CacheBounded
<1>4. ASSUME NEW v \in Visitors, visitor[v].step = "idle",
             visitor' = [visitor EXCEPT ![v] = [AtHome EXCEPT !.step = "invalidate", !.event = e,
                                                              !.frame = changes[e] + 1]]
      PROVE  ViewsInv'
  <2>. DEFINE r == [step |-> "invalidate", event |-> e, frame |-> changes[e] + 1, floor |-> AtHome.floor]
  <2>1. r \in Visit
    BY <1>1, AtHomeIsVisit DEF Visit, Steps
  <2>2. visitor' = [visitor EXCEPT ![v] = r]
    BY <1>4 DEF AtHome
  <2>3. r.step = "invalidate" /\ r.event = e /\ r.frame = changes[e] + 1
    OBVIOUS
  <2>. HIDE DEF r
  <2>4. /\ visitor' \in [Visitors -> Visit] /\ visitor'[v] = r
        /\ \A u \in Visitors : u # v => visitor'[u] = visitor[u]
        /\ \A u \in Visitors : visitor'[u].step \notin {"idle", "create"} => visitor'[u].event \in Events
    BY <2>1, <2>2, <2>3, OneVisitor
  <2>5. ViewTypes'
    BY <1>1, <2>4 DEF ViewTypes, Visit
  <2>6. MutexHeld'
    BY <1>4, <2>3, <2>4 DEF MutexHeld, Holding
  <2>7. \A n, d : AtLeast(n, d) => AtLeast(n, d)'
    BY <2>3, <2>4 DEF AtLeast
  <2>8. NothingInvented'
    <3>1. ASSUME NEW d \in Events
          PROVE  /\ acked'[d] <= changes'[d] /\ seen'[d] <= changes'[d] /\ AtLeast(1, d)'
                 /\ d \in DOMAIN state_cache_' => state_cache_'[d].frame <= changes'[d]
      BY <1>1, <2>7 DEF NothingInvented, ViewTypes
    <3>2. ASSUME NEW d \in Events, NEW u \in Visitors, visitor'[u].event = d
          PROVE  visitor'[u].frame <= changes'[d]
      BY <1>1, <1>2, <2>3, <2>4, <3>2 DEF NothingInvented
    <3>. QED
      BY <3>1, <3>2 DEF NothingInvented
  <2>9. NothingLost'
    BY <2>3, <2>4, <2>7 DEF NothingLost
  <2>10. FloorsKept' /\ CacheBounded'
    BY <2>3, <2>4 DEF FloorsKept, CacheBounded
  <2>. QED
    BY <2>5, <2>6, <2>8, <2>9, <2>10
<1>. QED
  BY <1>3, <1>4

(* A tournament is created, and its author told. *)
LEMMA InsertSound ==
    ASSUME ViewsInv, NEW e \in Events, changes[e] = 0, Changed(e), acked' = [acked EXCEPT ![e] = 1],
           NEW v \in Visitors, visitor[v].step = "create", Leaves(v),
           UNCHANGED <<state_cache_, cacheHolder, seen>>
    PROVE  ViewsInv'
<1>. USE DEF ViewsInv
<1>1. /\ changes' \in [Events -> Nat] /\ changes'[e] = 1 /\ acked' \in [Events -> Nat] /\ acked'[e] = 1
      /\ \A d \in Events : d # e => changes'[d] = changes[d] /\ acked'[d] = acked[d]
      /\ \A d \in Events : changes'[d] >= changes[d] /\ changes[d] \in Nat
  BY DEF Changed, ViewTypes
<1>2. /\ visitor' \in [Visitors -> Visit] /\ visitor'[v] = AtHome
      /\ \A u \in Visitors : u # v => visitor'[u] = visitor[u]
      /\ \A u \in Visitors : visitor'[u].step \notin {"idle", "create"} => visitor'[u].event \in Events
  BY AtHomeIsVisit, OneVisitor DEF Leaves
<1>3. ViewTypes'
  BY <1>1, <1>2 DEF ViewTypes, Visit
<1>4. MutexHeld'
  BY <1>2, AtHomeIsVisit DEF MutexHeld, Holding
<1>5. \A n, d : AtLeast(n, d) => AtLeast(n, d)'
  BY <1>2, AtHomeIsVisit DEF AtLeast
<1>6. \A u \in Visitors : visitor'[u].frame \in Nat /\ visitor[u].frame \in Nat
  BY <1>2 DEF Visit, ViewTypes
<1>7. NothingInvented'
  <2>1. ASSUME NEW d \in Events
        PROVE  /\ acked'[d] <= changes'[d] /\ seen'[d] <= changes'[d] /\ AtLeast(1, d)'
               /\ d \in DOMAIN state_cache_' => state_cache_'[d].frame <= changes'[d]
    BY <1>1, <1>5 DEF NothingInvented, ViewTypes
  <2>2. ASSUME NEW d \in Events, NEW u \in Visitors, visitor'[u].event = d
        PROVE  visitor'[u].frame <= changes'[d]
    BY <1>1, <1>2, <1>6, <2>2, AtHomeIsVisit DEF NothingInvented
  <2>. QED
    BY <2>1, <2>2 DEF NothingInvented
<1>8. NothingLost'
  <2>1. AtLeast(acked[e], e)'
    BY <1>1, <1>5 DEF NothingInvented
  <2>2. \A d \in Events : d # e => AtLeast(acked[d], d)'
    BY <1>1, <1>5 DEF NothingLost
  <2>3. \A d \in Events : AtLeast(seen[d], d)'
    BY <1>5 DEF NothingLost
  <2>4. \A u \in Visitors : visitor'[u].step \in {"acknowledge", "send"} =>
           AtLeast(visitor[u].frame, visitor[u].event)'
    BY <1>2, <1>5, AtHomeIsVisit DEF NothingLost
  <2>. QED
    BY <2>1, <2>2, <2>3, <2>4 DEF NothingLost
<1>9. FloorsKept'
  <2>1. \A d \in Events : acked'[d] >= acked[d] /\ acked[d] \in Nat
    BY <1>1 DEF ViewTypes, NothingInvented
  <2>2. \A u \in Visitors : visitor[u].floor.acked \in Nat
    BY DEF ViewTypes
  <2>3. ASSUME NEW u \in Visitors, u # v, visitor[u].step \in {"lookup", "read"}
        PROVE  visitor[u].floor.acked <= acked'[visitor[u].event]
    BY <1>1, <2>1, <2>2, <2>3 DEF FloorsKept, ViewTypes
  <2>. QED
    BY <1>2, <2>3, AtHomeIsVisit DEF FloorsKept
<1>. QED
  BY <1>3, <1>4, <1>7, <1>8, <1>9 DEF CacheBounded

(* An author is told of his change, or a visitor is sent his frame: what   *)
(* is counted on from then on is in all that can still be given.           *)
LEMMA ToldSound ==
    ASSUME ViewsInv, NEW v \in Visitors, NEW told, NEW told1,
           visitor[v].step \in {"acknowledge", "send"}, Leaves(v),
           told1 = [told EXCEPT ![visitor[v].event] = Max({@, visitor[v].frame})],
           \/ told = acked /\ acked' = told1 /\ UNCHANGED seen
           \/ told = seen /\ seen' = told1 /\ UNCHANGED acked,
           UNCHANGED <<changes, state_cache_, cacheHolder>>
    PROVE  ViewsInv'
<1>. USE DEF ViewsInv
<1>. PICK e : e = visitor[v].event
  OBVIOUS
<1>0. e \in Events /\ visitor[v].frame \in Nat /\ told \in [Events -> Nat]
  BY DEF ViewTypes
<1>1. /\ told1 \in [Events -> Nat] /\ told1[e] \in {told[e], visitor[v].frame}
      /\ told1[e] >= told[e] /\ \A d \in Events : d # e => told1[d] = told[d]
  BY <1>0, GreaterOfTwo
<1>2. /\ visitor' \in [Visitors -> Visit] /\ visitor'[v] = AtHome
      /\ \A u \in Visitors : u # v => visitor'[u] = visitor[u]
      /\ \A u \in Visitors : visitor'[u].step \notin {"idle", "create"} => visitor'[u].event \in Events
  BY AtHomeIsVisit, OneVisitor DEF Leaves
<1>3. acked' \in [Events -> Nat] /\ seen' \in [Events -> Nat]
  BY <1>1 DEF ViewTypes
<1>4. ViewTypes'
  BY <1>2, <1>3 DEF ViewTypes, Visit
<1>5. MutexHeld'
  BY <1>2, AtHomeIsVisit DEF MutexHeld, Holding
<1>6. \A n, d : AtLeast(n, d) => AtLeast(n, d)'
  BY <1>2, AtHomeIsVisit DEF AtLeast
<1>7. NothingInvented'
  <2>1. \A d \in Events : told1[d] <= changes[d]
    BY <1>0, <1>1 DEF NothingInvented
  <2>2. \A u \in Visitors, d \in Events : visitor'[u].event = d => visitor'[u].frame <= changes[d]
    BY <1>2, AtHomeIsVisit DEF NothingInvented, ViewTypes
  <2>. QED
    BY <1>6, <2>1, <2>2 DEF NothingInvented
<1>8. NothingLost'
  <2>1. \A d \in Events : AtLeast(told1[d], d)'
    <3>1. \A d \in Events : AtLeast(told[d], d)
      BY DEF NothingLost
    <3>2. AtLeast(visitor[v].frame, e)
      BY DEF NothingLost
    <3>3. \A d \in Events : AtLeast(told1[d], d)
      BY <1>1, <3>1, <3>2
    <3>. QED
      BY <1>6, <3>3
  <2>2. \A u \in Visitors : visitor'[u].step \in {"acknowledge", "send"} =>
           AtLeast(visitor[u].frame, visitor[u].event)'
    BY <1>2, <1>6, AtHomeIsVisit DEF NothingLost
  <2>. QED
    BY <1>6, <2>1, <2>2 DEF NothingLost
<1>9. FloorsKept'
  <2>1. \A d \in Events : /\ acked'[d] >= acked[d] /\ seen'[d] >= seen[d]
                          /\ {acked[d], seen[d], acked'[d], seen'[d]} \subseteq Nat
    <3>1. \A d \in Events : told1[d] >= told[d]
      BY <1>0, <1>1
    <3>2. \A d \in Events : acked[d] >= acked[d] /\ seen[d] >= seen[d]
      BY DEF ViewTypes
    <3>3. \A d \in Events : {acked[d], seen[d], acked'[d], seen'[d]} \subseteq Nat
      BY <1>3 DEF ViewTypes
    <3>4. CASE told = acked /\ acked' = told1 /\ UNCHANGED seen
      BY <3>1, <3>2, <3>3, <3>4
    <3>5. CASE told = seen /\ seen' = told1 /\ UNCHANGED acked
      BY <3>1, <3>2, <3>3, <3>5
    <3>. QED
      BY <3>4, <3>5
  <2>2. \A u \in Visitors : visitor[u].floor.acked \in Nat /\ visitor[u].floor.seen \in Nat
    BY DEF ViewTypes
  <2>3. ASSUME NEW u \in Visitors, u # v, visitor[u].step \in {"lookup", "read"}
        PROVE  /\ visitor[u].floor.acked <= acked'[visitor[u].event]
               /\ visitor[u].floor.seen <= seen'[visitor[u].event]
    <3>1. visitor[u].event \in Events
      BY <2>3 DEF ViewTypes
    <3>. QED
      BY <2>1, <2>2, <2>3, <3>1 DEF FloorsKept
  <2>. QED
    BY <1>2, <2>3, AtHomeIsVisit DEF FloorsKept
<1>. QED
  BY <1>4, <1>5, <1>7, <1>8, <1>9 DEF CacheBounded

(* A request comes in: it may count on what has been told so far. *)
LEMMA RequestSound == ASSUME ViewsInv, NEW v \in Visitors, RequestState(v) PROVE ViewsInv'
<1>. USE DEF ViewsInv
<1>1. PICK e \in Events :
         visitor' = [visitor EXCEPT ![v] = [step |-> "lookup", event |-> e, frame |-> 0,
                                            floor |-> [acked |-> acked[e], seen |-> seen[e]]]]
  BY DEF RequestState
<1>2. visitor[v].step = "idle" /\ UNCHANGED <<changes, state_cache_, cacheHolder, acked, seen>>
  BY DEF RequestState, At
<1>. DEFINE r == [step |-> "lookup", event |-> e, frame |-> 0, floor |-> [acked |-> acked[e], seen |-> seen[e]]]
<1>3. /\ r \in Visit /\ r.step = "lookup" /\ r.event = e /\ r.frame = 0
      /\ r.floor.acked = acked[e] /\ r.floor.seen = seen[e]
      /\ visitor' = [visitor EXCEPT ![v] = r]
  BY <1>1 DEF Visit, Steps, ViewTypes
<1>. HIDE DEF r
<1>4. /\ visitor' \in [Visitors -> Visit] /\ visitor'[v] = r
      /\ \A u \in Visitors : u # v => visitor'[u] = visitor[u]
      /\ \A u \in Visitors : visitor'[u].step \notin {"idle", "create"} => visitor'[u].event \in Events
  BY <1>3, OneVisitor
<1>5. ViewTypes'
  BY <1>2, <1>4 DEF ViewTypes, Visit
<1>6. MutexHeld'
  BY <1>2, <1>3, <1>4 DEF MutexHeld, Holding
<1>7. \A n, d : AtLeast(n, d) => AtLeast(n, d)'
  BY <1>2, <1>3, <1>4 DEF AtLeast
<1>8. NothingInvented'
  BY <1>2, <1>3, <1>4, <1>7 DEF NothingInvented, ViewTypes
<1>9. NothingLost'
  BY <1>2, <1>3, <1>4, <1>7 DEF NothingLost
<1>10. FloorsKept'
  <2>1. acked[e] <= acked[e] /\ seen[e] <= seen[e]
    BY DEF ViewTypes
  <2>. QED
    BY <1>2, <1>3, <1>4, <2>1 DEF FloorsKept
<1>. QED
  BY <1>2, <1>5, <1>6, <1>8, <1>9, <1>10 DEF CacheBounded

(* A visitor finds a fresh frame, or takes the mutex to read one. *)
LEMMA LookupSound == ASSUME ViewsInv, NEW v \in Visitors, Lookup(v) PROVE ViewsInv'
<1>. USE DEF ViewsInv
<1>. PICK e : e = visitor[v].event
  OBVIOUS
<1>0. /\ visitor[v].step = "lookup" /\ e \in Events /\ visitor[v] \in Visit
      /\ UNCHANGED <<changes, state_cache_, acked, seen>> /\ cacheHolder = Nobody
  BY DEF Lookup, At, ViewTypes, Visit
<1>1. \A u \in Visitors : visitor[u].step \notin Holding
  BY <1>0, ViewsAssumption DEF MutexHeld, Nobody
<1>2. CASE Cached(e) /\ visitor' = [visitor EXCEPT ![v].step = "send", ![v].frame = state_cache_[e].frame]
           /\ UNCHANGED cacheHolder
  <2>1. e \in DOMAIN state_cache_ /\ state_cache_[e].frame \in Nat
    BY <1>2 DEF Cached, ViewTypes
  <2>. DEFINE r == [[visitor[v] EXCEPT !.step = "send"] EXCEPT !.frame = state_cache_[e].frame]
  <2>2. /\ r \in Visit /\ r.step = "send" /\ r.event = e /\ r.frame = state_cache_[e].frame
        /\ r.floor = visitor[v].floor /\ visitor' = [visitor EXCEPT ![v] = r]
    <3>1. [visitor[v] EXCEPT !.step = "send"] \in Visit
      BY <1>0 DEF Visit, Steps
    <3>2. r \in Visit
      BY <2>1, <3>1 DEF Visit
    <3>3. visitor' = [visitor EXCEPT ![v] = r]
      BY <1>2 DEF ViewTypes
    <3>. QED
      BY <1>0, <3>2, <3>3 DEF Visit
  <2>. HIDE DEF r
  <2>3. /\ visitor' \in [Visitors -> Visit] /\ visitor'[v] = r
        /\ \A u \in Visitors : u # v => visitor'[u] = visitor[u]
        /\ \A u \in Visitors : visitor'[u].step \notin {"idle", "create"} => visitor'[u].event \in Events
    BY <1>0, <2>2, OneVisitor
  <2>4. ViewTypes'
    BY <1>0, <2>3 DEF ViewTypes, Visit
  <2>5. MutexHeld'
    BY <1>0, <1>2, <2>2, <2>3 DEF MutexHeld, Holding
  <2>6. \A n, d : AtLeast(n, d) => AtLeast(n, d)'
    BY <1>0, <2>2, <2>3 DEF AtLeast
  <2>7. NothingInvented'
    BY <1>0, <2>1, <2>2, <2>3, <2>6 DEF NothingInvented, ViewTypes
  <2>8. NothingLost'
    <3>1. AtLeast(r.frame, e)
      BY <1>1, <2>1, <2>2 DEF AtLeast, Holding
    <3>. QED
      BY <1>0, <2>2, <2>3, <2>6, <3>1 DEF NothingLost
  <2>9. FloorsKept'
    <3>1. state_cache_[e].frame >= acked[e] /\ state_cache_[e].frame >= seen[e]
      BY <1>0, <2>1 DEF NothingLost, AtLeast
    <3>2. visitor[v].floor.acked <= acked[e] /\ visitor[v].floor.seen <= seen[e]
      BY <1>0 DEF FloorsKept
    <3>3. {acked[e], seen[e], visitor[v].floor.acked, visitor[v].floor.seen} \subseteq Nat
      BY <1>0 DEF ViewTypes
    <3>4. r.frame >= r.floor.acked /\ r.frame >= r.floor.seen
      BY <2>1, <2>2, <3>1, <3>2, <3>3
    <3>. QED
      BY <1>0, <2>2, <2>3, <3>4 DEF FloorsKept
  <2>. QED
    BY <1>0, <2>4, <2>5, <2>7, <2>8, <2>9 DEF CacheBounded
<1>3. CASE Continues(v, "read") /\ cacheHolder' = v
  <2>1. PICK r \in Visit : /\ visitor' = [visitor EXCEPT ![v] = r]
                           /\ r.step = "read" /\ r.event = e
                           /\ r.frame = visitor[v].frame /\ r.floor = visitor[v].floor
    BY <1>0, <1>3, MovedOn DEF Steps
  <2>2. /\ visitor' \in [Visitors -> Visit] /\ visitor'[v] = r
        /\ \A u \in Visitors : u # v => visitor'[u] = visitor[u]
        /\ \A u \in Visitors : visitor'[u].step \notin {"idle", "create"} => visitor'[u].event \in Events
    BY <1>0, <2>1, OneVisitor
  <2>3. ViewTypes'
    BY <1>0, <2>2 DEF ViewTypes, Visit
  <2>4. MutexHeld'
    BY <1>1, <1>3, <2>1, <2>2 DEF MutexHeld, Holding
  <2>5. \A n, d : AtLeast(n, d) => AtLeast(n, d)'
    BY <1>0, <2>1, <2>2 DEF AtLeast
  <2>6. NothingInvented'
    BY <1>0, <2>1, <2>2, <2>5 DEF NothingInvented, ViewTypes
  <2>7. NothingLost'
    BY <1>0, <2>1, <2>2, <2>5 DEF NothingLost
  <2>8. FloorsKept'
    BY <1>0, <2>1, <2>2 DEF FloorsKept
  <2>. QED
    BY <1>0, <2>3, <2>4, <2>6, <2>7, <2>8 DEF CacheBounded
<1>. QED
  BY <1>2, <1>3 DEF Lookup

(* The snapshot read with the mutex held is as new as anything anybody was *)
(* told or shown.                                                          *)
LEMMA ReadSound == ASSUME ViewsInv, NEW v \in Visitors, ReadSnapshot(v) PROVE ViewsInv'
<1>. USE DEF ViewsInv
<1>. PICK e : e = visitor[v].event
  OBVIOUS
<1>0. /\ visitor[v].step = "read" /\ e \in Events /\ visitor[v] \in Visit /\ changes[e] \in Nat
      /\ UNCHANGED <<changes, state_cache_, acked, seen>> /\ cacheHolder = v
      /\ \A u \in Visitors : u # v => visitor[u].step \notin Holding
  BY DEF ReadSnapshot, At, ViewTypes, Visit, MutexHeld, Holding
<1>1. CASE /\ changes[e] > 0 /\ UNCHANGED cacheHolder
           /\ visitor' = [visitor EXCEPT ![v].step = "store", ![v].frame = changes[e]]
  <2>. DEFINE r == [[visitor[v] EXCEPT !.step = "store"] EXCEPT !.frame = changes[e]]
  <2>2. /\ r \in Visit /\ r.step = "store" /\ r.event = e /\ r.frame = changes[e]
        /\ r.floor = visitor[v].floor /\ visitor' = [visitor EXCEPT ![v] = r]
    <3>1. [visitor[v] EXCEPT !.step = "store"] \in Visit
      BY <1>0 DEF Visit, Steps
    <3>2. r \in Visit
      BY <1>0, <3>1 DEF Visit
    <3>3. visitor' = [visitor EXCEPT ![v] = r]
      BY <1>1 DEF ViewTypes
    <3>. QED
      BY <1>0, <3>2, <3>3 DEF Visit
  <2>. HIDE DEF r
  <2>3. /\ visitor' \in [Visitors -> Visit] /\ visitor'[v] = r
        /\ \A u \in Visitors : u # v => visitor'[u] = visitor[u]
        /\ \A u \in Visitors : visitor'[u].step \notin {"idle", "create"} => visitor'[u].event \in Events
    BY <1>0, <2>2, OneVisitor
  <2>4. ViewTypes'
    BY <1>0, <2>3 DEF ViewTypes, Visit
  <2>5. MutexHeld'
    BY <1>0, <1>1, <2>2, <2>3 DEF MutexHeld, Holding
  <2>6. \A n, d : AtLeast(n, d) /\ (d = e => changes[e] >= n) => AtLeast(n, d)'
    BY <1>0, <2>2, <2>3 DEF AtLeast
  <2>7. NothingInvented'
    <3>1. \A d \in Events : AtLeast(1, d)'
      BY <1>0, <1>1, <2>6 DEF NothingInvented
    <3>2. ASSUME NEW u \in Visitors, NEW d \in Events, visitor'[u].event = d
          PROVE  visitor'[u].frame <= changes[d]
      BY <1>0, <2>2, <2>3, <3>2 DEF NothingInvented
    <3>. QED
      BY <1>0, <3>1, <3>2 DEF NothingInvented
  <2>8. NothingLost'
    <3>1. \A d \in Events : AtLeast(acked[d], d)' /\ AtLeast(seen[d], d)'
      BY <1>0, <2>6 DEF NothingLost, NothingInvented
    <3>2. ASSUME NEW u \in Visitors, visitor'[u].step \in {"acknowledge", "send"}
          PROVE  AtLeast(visitor[u].frame, visitor[u].event)' /\ visitor'[u] = visitor[u]
      <4>1. u # v /\ visitor'[u] = visitor[u] /\ visitor[u].event \in Events
        BY <2>2, <2>3, <3>2
      <4>2. AtLeast(visitor[u].frame, visitor[u].event)
        BY <3>2, <4>1 DEF NothingLost
      <4>3. visitor[u].event = e => changes[e] >= visitor[u].frame
        BY <1>0, <4>1 DEF NothingInvented, ViewTypes
      <4>. QED
        BY <2>6, <4>1, <4>2, <4>3
    <3>. QED
      BY <3>1, <3>2 DEF NothingLost
  <2>9. FloorsKept'
    <3>1. changes[e] >= acked[e] /\ changes[e] >= seen[e]
      BY <1>0 DEF NothingInvented, ViewTypes
    <3>2. visitor[v].floor.acked <= acked[e] /\ visitor[v].floor.seen <= seen[e]
      BY <1>0 DEF FloorsKept
    <3>3. {acked[e], seen[e], visitor[v].floor.acked, visitor[v].floor.seen} \subseteq Nat
      BY <1>0 DEF ViewTypes
    <3>4. r.frame >= r.floor.acked /\ r.frame >= r.floor.seen
      BY <1>0, <2>2, <3>1, <3>2, <3>3
    <3>. QED
      BY <1>0, <2>2, <2>3, <3>4 DEF FloorsKept
  <2>. QED
    BY <1>0, <2>4, <2>5, <2>7, <2>8, <2>9 DEF CacheBounded
<1>2. CASE Leaves(v) /\ cacheHolder' = Nobody
  <2>1. /\ visitor' \in [Visitors -> Visit] /\ visitor'[v] = AtHome
        /\ \A u \in Visitors : u # v => visitor'[u] = visitor[u]
        /\ \A u \in Visitors : visitor'[u].step \notin {"idle", "create"} => visitor'[u].event \in Events
    BY <1>2, AtHomeIsVisit, OneVisitor DEF Leaves
  <2>2. ViewTypes'
    BY <1>0, <2>1 DEF ViewTypes, Visit
  <2>3. MutexHeld'
    BY <1>0, <1>2, <2>1, AtHomeIsVisit, ViewsAssumption DEF MutexHeld, Holding, Nobody
  <2>4. \A n, d : AtLeast(n, d) => AtLeast(n, d)'
    BY <1>0, <2>1, AtHomeIsVisit DEF AtLeast
  <2>5. NothingInvented'
    BY <1>0, <2>1, <2>4, AtHomeIsVisit DEF NothingInvented, ViewTypes
  <2>6. NothingLost'
    BY <1>0, <2>1, <2>4, AtHomeIsVisit DEF NothingLost
  <2>7. FloorsKept'
    BY <1>0, <2>1, AtHomeIsVisit DEF FloorsKept
  <2>. QED
    BY <1>0, <2>2, <2>3, <2>5, <2>6, <2>7 DEF CacheBounded
<1>. QED
  BY <1>1, <1>2 DEF ReadSnapshot

(* Storing a frame never grows the cache beyond its capacity. *)
LEMMA RoomSound ==
    ASSUME ViewTypes, CacheBounded, NEW e \in Events
    PROVE  /\ DOMAIN RoomForEntry \subseteq DOMAIN state_cache_
           /\ \A d \in DOMAIN RoomForEntry : RoomForEntry[d] = state_cache_[d]
           /\ IsFiniteSet(DOMAIN RoomForEntry \cup {e})
           /\ Cardinality(DOMAIN RoomForEntry \cup {e}) <= CacheCapacity
<1>1. CASE Cardinality(DOMAIN state_cache_) >= CacheCapacity
  <2>1. RoomForEntry = EmptyCache /\ DOMAIN RoomForEntry = {}
    BY <1>1 DEF RoomForEntry, EmptyCache
  <2>2. {} \cup {e} = {e} /\ IsFiniteSet({e}) /\ Cardinality({e}) = 1
    BY FS_Singleton
  <2>. QED
    BY <2>1, <2>2, ViewsAssumption
<1>2. CASE ~(Cardinality(DOMAIN state_cache_) >= CacheCapacity)
  <2>1. RoomForEntry = state_cache_
    BY <1>2 DEF RoomForEntry
  <2>2. IsFiniteSet(DOMAIN state_cache_) /\ Cardinality(DOMAIN state_cache_) \in Nat
    BY FS_CardinalityType DEF ViewTypes
  <2>3. Cardinality(DOMAIN state_cache_) + 1 <= CacheCapacity
    BY <1>2, <2>2, ViewsAssumption
  <2>4. /\ IsFiniteSet(DOMAIN state_cache_ \cup {e})
        /\ Cardinality(DOMAIN state_cache_ \cup {e}) <= Cardinality(DOMAIN state_cache_) + 1
    <3>1. PICK S : S = DOMAIN state_cache_
      OBVIOUS
    <3>2. /\ IsFiniteSet(S \cup {e})
          /\ Cardinality(S \cup {e}) = IF e \in S THEN Cardinality(S) ELSE Cardinality(S) + 1
      BY <2>2, <3>1, FS_AddElement
    <3>. QED
      BY <2>2, <3>1, <3>2
  <2>5. Cardinality(DOMAIN state_cache_ \cup {e}) \in Nat
    BY <2>4, FS_CardinalityType
  <2>. QED
    BY <2>1, <2>2, <2>3, <2>4, <2>5, ViewsAssumption
<1>. QED
  BY <1>1, <1>2

(* The frame that was read goes into the cache and out to the visitor. *)
LEMMA StoreSound == ASSUME ViewsInv, NEW v \in Visitors, StoreFrame(v) PROVE ViewsInv'
<1>. USE DEF ViewsInv
<1>. PICK e, n : e = visitor[v].event /\ n = visitor[v].frame
  OBVIOUS
<1>0. /\ visitor[v].step = "store" /\ e \in Events /\ visitor[v] \in Visit /\ n \in Nat
      /\ UNCHANGED <<changes, acked, seen>> /\ cacheHolder = v /\ cacheHolder' = Nobody
      /\ \A u \in Visitors : u # v => visitor[u].step \notin Holding
      /\ Continues(v, "send")
  BY DEF StoreFrame, At, ViewTypes, Visit, MutexHeld, Holding
<1>1. PICK r \in Visit : /\ visitor' = [visitor EXCEPT ![v] = r]
                         /\ r.step = "send" /\ r.event = e
                         /\ r.frame = n /\ r.floor = visitor[v].floor
  BY <1>0, MovedOn DEF Steps
<1>2. /\ visitor' \in [Visitors -> Visit] /\ visitor'[v] = r
      /\ \A u \in Visitors : u # v => visitor'[u] = visitor[u]
      /\ \A u \in Visitors : visitor'[u].step \notin {"idle", "create"} => visitor'[u].event \in Events
  BY <1>0, <1>1, OneVisitor
<1>3. state_cache_' = [d \in DOMAIN RoomForEntry \cup {e} |->
                          IF d = e THEN [frame |-> n, fresh |-> TRUE] ELSE RoomForEntry[d]]
  BY DEF StoreFrame
<1>4. /\ DOMAIN state_cache_' = DOMAIN RoomForEntry \cup {e}
      /\ IsFiniteSet(DOMAIN state_cache_') /\ Cardinality(DOMAIN state_cache_') <= CacheCapacity
      /\ DOMAIN state_cache_' \subseteq DOMAIN state_cache_ \cup {e}
      /\ state_cache_'[e] = [frame |-> n, fresh |-> TRUE]
      /\ \A d \in DOMAIN state_cache_' : d # e => d \in DOMAIN state_cache_ /\ state_cache_'[d] = state_cache_[d]
  BY <1>0, <1>3, RoomSound
<1>5. state_cache_' \in [DOMAIN state_cache_' -> [frame : Nat, fresh : BOOLEAN]]
  BY <1>0, <1>3, <1>4 DEF ViewTypes
<1>6. ViewTypes'
  BY <1>0, <1>2, <1>4, <1>5 DEF ViewTypes, Visit
<1>7. MutexHeld'
  BY <1>0, <1>1, <1>2, ViewsAssumption DEF MutexHeld, Holding, Nobody
<1>8. \A m, d : AtLeast(m, d) /\ (d = e => n >= m) => AtLeast(m, d)'
  BY <1>0, <1>1, <1>2, <1>4 DEF AtLeast
<1>9. \A m \in Nat : AtLeast(m, e) => n >= m
  BY <1>0 DEF AtLeast
<1>10. NothingInvented'
  <2>1. \A d \in Events : AtLeast(1, d)'
    BY <1>8, <1>9 DEF NothingInvented
  <2>2. ASSUME NEW u \in Visitors, NEW d \in Events, visitor'[u].event = d
        PROVE  visitor'[u].frame <= changes[d]
    BY <1>0, <1>1, <1>2, <2>2 DEF NothingInvented
  <2>3. n <= changes[e]
    BY <1>0 DEF NothingInvented
  <2>4. ASSUME NEW d \in Events, d \in DOMAIN state_cache_' PROVE state_cache_'[d].frame <= changes[d]
    BY <1>4, <2>3, <2>4 DEF NothingInvented
  <2>. QED
    BY <1>0, <2>1, <2>2, <2>4 DEF NothingInvented
<1>11. NothingLost'
  <2>1. \A d \in Events : AtLeast(acked[d], d)' /\ AtLeast(seen[d], d)'
    BY <1>0, <1>8, <1>9 DEF NothingLost, ViewTypes
  <2>2. ASSUME NEW u \in Visitors, u # v, visitor'[u].step \in {"acknowledge", "send"}
        PROVE  AtLeast(visitor[u].frame, visitor[u].event)' /\ visitor'[u] = visitor[u]
    <3>1. visitor'[u] = visitor[u] /\ visitor[u].frame \in Nat
      BY <1>2, <2>2 DEF ViewTypes
    <3>2. AtLeast(visitor[u].frame, visitor[u].event)
      BY <2>2, <3>1 DEF NothingLost
    <3>. QED
      BY <1>8, <1>9, <3>1, <3>2
  <2>3. AtLeast(n, e)'
    <3>1. n >= n
      BY <1>0
    <3>. QED
      BY <1>0, <1>1, <1>2, <1>4, <3>1 DEF AtLeast, Holding
  <2>. QED
    BY <1>1, <1>2, <2>1, <2>2, <2>3 DEF NothingLost
<1>12. FloorsKept'
  BY <1>0, <1>1, <1>2 DEF FloorsKept
<1>13. CacheBounded'
  BY <1>4 DEF CacheBounded
<1>. QED
  BY <1>6, <1>7, <1>10, <1>11, <1>12, <1>13

(* An entry that runs out keeps its frame. *)
LEMMA ExpirySound == ViewsInv /\ EntryExpires => ViewsInv'
<1>. SUFFICES ASSUME ViewsInv, EntryExpires PROVE ViewsInv'
  OBVIOUS
<1>. USE DEF ViewsInv
<1>1. PICK e \in DOMAIN state_cache_ : state_cache_' = [state_cache_ EXCEPT ![e].fresh = FALSE]
  BY DEF EntryExpires
<1>2. UNCHANGED <<changes, cacheHolder, visitor, acked, seen>>
  BY DEF EntryExpires
<1>3. /\ DOMAIN state_cache_' = DOMAIN state_cache_
      /\ state_cache_' \in [DOMAIN state_cache_ -> [frame : Nat, fresh : BOOLEAN]]
      /\ \A d \in DOMAIN state_cache_ : state_cache_'[d].frame = state_cache_[d].frame
  BY <1>1 DEF ViewTypes
<1>4. ViewTypes'
  BY <1>2, <1>3 DEF ViewTypes
<1>5. \A n, d : AtLeast(n, d) => AtLeast(n, d)'
  BY <1>2, <1>3 DEF AtLeast
<1>6. NothingInvented' /\ NothingLost'
  BY <1>2, <1>3, <1>5 DEF NothingInvented, NothingLost
<1>. QED
  BY <1>2, <1>3, <1>4, <1>6 DEF MutexHeld, FloorsKept, CacheBounded

(* Every step keeps the invariant. *)
LEMMA ViewsSteps == ViewsInv /\ [ViewsNext]_viewVars => ViewsInv'
<1>. SUFFICES ASSUME ViewsInv, [ViewsNext]_viewVars PROVE ViewsInv'
  OBVIOUS
<1>0. ViewTypes
  BY DEF ViewsInv
<1>1. ASSUME NEW v \in Visitors, create_tournament(v) PROVE ViewsInv'
  BY <1>1, AtHomeIsVisit, EmptiedSound DEF create_tournament
<1>2. ASSUME NEW v \in Visitors, InsertTournament(v) PROVE ViewsInv'
  <2>1. ASSUME NEW e \in Events, changes[e] = 0, Changed(e), acked' = [acked EXCEPT ![e] = 1]
        PROVE  ViewsInv'
    BY <1>2, <2>1, InsertSound DEF InsertTournament, At
  <2>2. CASE UNCHANGED <<changes, acked>>
    BY <1>2, <2>2, AtHomeIsVisit, LeavingSound DEF InsertTournament, At, Leaves, Holding
  <2>. QED
    BY <1>2, <2>1, <2>2 DEF InsertTournament
<1>3. ASSUME NEW v \in Visitors, Change(v) PROVE ViewsInv'
  BY <1>3, CommitSound DEF Change, At
<1>4. ASSUME NEW v \in Visitors, invalidate_state_cache(v) PROVE ViewsInv'
  <2>1. visitor[v].step = "invalidate" /\ Continues(v, "acknowledge")
    BY <1>4 DEF invalidate_state_cache, At
  <2>2. PICK r \in Visit : /\ visitor' = [visitor EXCEPT ![v] = r]
                           /\ r.step = "acknowledge" /\ r.event = visitor[v].event
                           /\ r.frame = visitor[v].frame
    BY <1>0, <2>1, MovedOn DEF Steps
  <2>. QED
    BY <1>4, <2>1, <2>2, EmptiedSound DEF invalidate_state_cache
<1>5. ASSUME NEW v \in Visitors, Acknowledge(v) PROVE ViewsInv'
  BY <1>5, ToldSound DEF Acknowledge, At
<1>6. ASSUME NEW v \in Visitors, SendState(v) PROVE ViewsInv'
  BY <1>6, ToldSound DEF SendState, At
<1>7. CASE BackgroundChange
  BY <1>7, CommitSound DEF BackgroundChange
<1>8. CASE UNCHANGED viewVars
  BY <1>8 DEF viewVars, ViewsInv, ViewTypes, MutexHeld, NothingInvented, NothingLost, AtLeast, FloorsKept,
     CacheBounded
<1>. QED
  BY <1>1, <1>2, <1>3, <1>4, <1>5, <1>6, <1>7, <1>8, RequestSound, LookupSound, ReadSound, StoreSound,
     ExpirySound DEF ViewsNext

(* tournament_service.cpp: the state route shows every change that was     *)
(* acknowledged before the request, never an older frame than one already  *)
(* sent, and its cache stays within its capacity, for any number of        *)
(* requests and tournaments.                                               *)
THEOREM ViewsStayCurrent == ViewsSpec => []ViewsAreCurrent
<1>1. ViewsInit => ViewsInv
  <2>. SUFFICES ASSUME ViewsInit PROVE ViewsInv
    OBVIOUS
  <2>1. /\ changes = [e \in Events |-> 0] /\ acked = [e \in Events |-> 0] /\ seen = [e \in Events |-> 0]
        /\ DOMAIN state_cache_ = {} /\ state_cache_ \in [{} -> [frame : Nat, fresh : BOOLEAN]]
        /\ cacheHolder = Nobody /\ visitor = [v \in Visitors |-> AtHome]
    BY DEF ViewsInit, EmptyCache
  <2>2. ViewTypes
    BY <2>1, AtHomeIsVisit, FS_EmptySet DEF ViewTypes, Visit
  <2>3. \A v \in Visitors : visitor[v].step = "idle" /\ visitor[v].frame = 0
    BY <2>1, AtHomeIsVisit
  <2>4. MutexHeld /\ FloorsKept /\ NothingLost
    BY <2>1, <2>3, ViewsAssumption DEF MutexHeld, Holding, Nobody, FloorsKept, NothingLost, AtLeast
  <2>5. NothingInvented
    BY <2>1, <2>3 DEF NothingInvented, AtLeast
  <2>6. CacheBounded
    BY <2>1, FS_EmptySet, ViewsAssumption DEF CacheBounded
  <2>. QED
    BY <2>2, <2>4, <2>5, <2>6 DEF ViewsInv
<1>2. ViewsInv => ViewsAreCurrent
  BY DEF ViewsInv, FloorsKept, ViewsAreCurrent, AcknowledgedIsVisible, FramesMoveForward, Answering
<1>. QED
  BY <1>1, <1>2, ViewsSteps, PTL DEF ViewsSpec

-----------------------------------------------------------------------------
(* The seats of a pairing.  Rooms, pending seats and the steps of those    *)
(* who make the room.                                                      *)
PendingSeat == [fd : Lines \cup {0}, gen : Nat]
SeatOf == [fd : Lines \cup {0}, gen : Nat, connected : BOOLEAN, checked_in : BOOLEAN]
Shell == [id : Nat, state : {"WAITING", "IN_PROGRESS", "FINISHED"}, open : BOOLEAN, seat : [Sides -> SeatOf]]
PassSteps == {"idle", "ensure", "materialise", "shells", "judge", "copy", "erase"}
SeatTypes ==
    /\ line \in [Lines -> [player : Sides, gen : Nat]]
    /\ sockets_made \in Nat /\ round_live \in BOOLEAN /\ decided \in BOOLEAN
    /\ game_id \in Nat /\ next_id_ \in Nat
    /\ pending_seats_ \in [Sides -> PendingSeat]
    /\ shells \in Seq(Shell) /\ pairing_room \in {0} \cup DOMAIN shells
    /\ pass \in [step : PassSteps, late : BOOLEAN, copy : [Sides -> PendingSeat]]
    /\ owner \in [by : Lines \cup {Pass, -1}, step : {"none", "create", "record", "open"}]
    /\ history \in [issued : SUBSET Nat, reissued : BOOLEAN, swept : BOOLEAN]

(* Every number recorded is at most the one on the row, and a room about   *)
(* to be recorded has a greater one, unless the pairing is decided and the *)
(* room may be gone.                                                       *)
NumbersAscend ==
    /\ RoomNumbersFresh
    /\ \A n \in history.issued : n <= game_id
    /\ owner.step = "record" /\ ~decided => pairing_room # 0 /\ shells[pairing_room].id > game_id

(* Only a pass that waits for its rooms has the mutex. *)
PassWaits == owner.by = Pass => pass.step = "materialise"

(* A pass that found the pairing decided: when it has had the mutex, no    *)
(* room is being made; when it has looked at the rooms, none waits.        *)
Settled == decided /\ owner.step \in {"none", "create"}
NoneWaits == pairing_room = 0 \/ shells[pairing_room].state # "WAITING"
DecidedIsSettled ==
    /\ pass.late => decided
    /\ history.swept \/ (pass.late /\ pass.step \in {"materialise", "shells", "judge", "copy", "erase"}) => Settled
    /\ history.swept \/ (pass.late /\ pass.step \in {"copy", "erase"}) => NoneWaits

SeatsInv == SeatTypes /\ NumbersAscend /\ PassWaits /\ DecidedIsSettled

-----------------------------------------------------------------------------
(* What GameRoom does to a room keeps its number and never puts a started  *)
(* one back to waiting.                                                    *)
RoomKept(r, s) == s \in Shell /\ s.id = r.id /\ (s.state = "WAITING" => r.state = "WAITING")

LEMMA RoomKeptOn ==
    ASSUME NEW r, NEW s, NEW t, RoomKept(r, s), RoomKept(s, t)
    PROVE  RoomKept(r, t)
  BY DEF RoomKept

LEMMA StartKeeps == ASSUME NEW r \in Shell PROVE RoomKept(r, StartIfReady(r))
<1>1. [r EXCEPT !.state = "IN_PROGRESS"] \in Shell
  BY DEF Shell
<1>. QED
  BY <1>1 DEF RoomKept, StartIfReady, Shell

LEMMA BoundKeeps ==
    ASSUME NEW r \in Shell, NEW p \in Sides, NEW fd \in Lines \cup {0}, NEW gen \in Nat, NEW replace \in BOOLEAN
    PROVE  RoomKept(r, Bound(r, p, fd, gen, replace))
<1>1. PICK seat : seat = [r.seat[p] EXCEPT !.fd = fd, !.gen = gen, !.connected = TRUE]
  OBVIOUS
<1>2. seat \in SeatOf
  BY <1>1 DEF Shell, SeatOf
<1>3. PICK s : s = [r EXCEPT !.seat[p] = seat]
  OBVIOUS
<1>4. RoomKept(r, s)
  BY <1>2, <1>3 DEF RoomKept, Shell
<1>5. Bound(r, p, fd, gen, replace) \in {r, StartIfReady(s)}
  BY <1>1, <1>3 DEF Bound
<1>. QED
  BY <1>4, <1>5, StartKeeps, RoomKeptOn DEF RoomKept

LEMMA AllowedKeeps == ASSUME NEW r \in Shell, NEW ps PROVE RoomKept(r, Allowed(r, ps))
<1>1. PICK seat : seat = [p \in Sides |-> [r.seat[p] EXCEPT !.checked_in = @ \/ p \in ps]]
  OBVIOUS
<1>2. ASSUME NEW p \in Sides PROVE [r.seat[p] EXCEPT !.checked_in = @ \/ p \in ps] \in SeatOf
  <2>1. (r.seat[p].checked_in \/ p \in ps) \in BOOLEAN
    OBVIOUS
  <2>. QED
    BY <2>1 DEF Shell, SeatOf
<1>3. seat \in [Sides -> SeatOf]
  BY <1>1, <1>2
<1>. QED
  BY <1>1, <1>3 DEF RoomKept, Shell, Allowed

LEMMA BindPendingKeeps ==
    ASSUME pending_seats_ \in [Sides -> PendingSeat], NEW r \in Shell
    PROVE  RoomKept(r, BindPending(r))
<1>. DEFINE bind(room, p) == IF pending_seats_[p] = None THEN room
                             ELSE Bound(room, p, pending_seats_[p].fd, pending_seats_[p].gen, FALSE)
<1>1. ASSUME NEW s \in Shell, NEW p \in Sides PROVE RoomKept(s, bind(s, p))
  <2>1. pending_seats_[p].fd \in Lines \cup {0} /\ pending_seats_[p].gen \in Nat
    BY DEF PendingSeat
  <2>. QED
    BY <2>1, BoundKeeps DEF RoomKept
<1>2. "white" \in Sides /\ "black" \in Sides
  BY DEF Sides
<1>3. BindPending(r) = bind(bind(r, "white"), "black")
  BY DEF BindPending
<1>. HIDE DEF bind
<1>4. RoomKept(r, bind(r, "white")) /\ bind(r, "white") \in Shell
  BY <1>1, <1>2 DEF RoomKept
<1>. QED
  BY <1>1, <1>2, <1>3, <1>4, RoomKeptOn

(* One room changes, or none. *)
ShellsKept == /\ shells' \in Seq(Shell) /\ DOMAIN shells' = DOMAIN shells
              /\ \A j \in DOMAIN shells : RoomKept(shells[j], shells'[j])

LEMMA ShellsRest == ASSUME SeatTypes, UNCHANGED shells PROVE ShellsKept
  BY DEF SeatTypes, ShellsKept, RoomKept

LEMMA ShellChanges ==
    ASSUME SeatTypes, NEW i, NEW s, shells' = [shells EXCEPT ![i] = s],
           i \in DOMAIN shells => RoomKept(shells[i], s)
    PROVE  ShellsKept
<1>1. shells \in Seq(Shell)
  BY DEF SeatTypes
<1>2. CASE i \in DOMAIN shells
  <2>1. s \in Shell
    BY <1>2 DEF RoomKept
  <2>2. shells' \in Seq(Shell) /\ DOMAIN shells' = DOMAIN shells
    BY <1>1, <1>2, <2>1
  <2>3. \A j \in DOMAIN shells : shells'[j] = IF j = i THEN s ELSE shells[j]
    BY <1>1, <1>2
  <2>. QED
    BY <1>1, <1>2, <2>2, <2>3 DEF ShellsKept, RoomKept
<1>3. CASE i \notin DOMAIN shells
  BY <1>1, <1>3, ShellsRest
<1>. QED
  BY <1>2, <1>3

(* Without a step of the one who makes the room, and unless the pass goes  *)
(* on, only three things matter.                                           *)
LEMMA RoomQuiet ==
    ASSUME SeatsInv, ShellsKept, UNCHANGED <<game_id, history>>,
           owner' = owner \/ (owner'.step = "create" /\ owner'.by # Pass),
           decided => decided', pairing_room' # pairing_room => pairing_room' = 0 /\ decided,
           pass' = pass
    PROVE  NumbersAscend' /\ PassWaits' /\ DecidedIsSettled'
<1>1. NumbersAscend'
  BY DEF SeatsInv, SeatTypes, NumbersAscend, RoomNumbersFresh, ShellsKept, RoomKept
<1>2. PassWaits'
  BY DEF SeatsInv, PassWaits
<1>3. NoneWaits => NoneWaits'
  BY DEF SeatsInv, SeatTypes, NoneWaits, ShellsKept, RoomKept
<1>4. Settled => Settled'
  BY DEF Settled
<1>. QED
  BY <1>1, <1>2, <1>3, <1>4 DEF SeatsInv, DecidedIsSettled

(* The steps of a connection. *)
LineSteps(f) == \/ \E p \in Sides : Connect(f, p)
                \/ CheckIn(f) \/ TakePendingSeat(f) \/ LookForRoom(f) \/ Bind(f)
                \/ DropSeat(f) \/ ForgetPending(f) \/ Withdraw(f)

LEMMA LineSound == ASSUME SeatsInv, NEW f \in Lines, LineSteps(f) PROVE SeatsInv'
<1>. USE DEF SeatsInv
<1>1. f # Pass /\ f \in Lines \cup {0}
  BY SeatsAssumption DEF Pass
<1>2. line[f].player \in Sides /\ line[f].gen \in Nat /\ None \in PendingSeat
  BY DEF SeatTypes, None, PendingSeat
<1>3. CASE \E p \in Sides : Connect(f, p)
  <2>1. PICK p \in Sides : Connect(f, p)
    BY <1>3
  <2>2. [player |-> p, gen |-> sockets_made + 1] \in [player : Sides, gen : Nat]
    BY DEF SeatTypes
  <2>3. SeatTypes'
    BY <2>1, <2>2 DEF Connect, SeatTypes, seatRows, seatMemory
  <2>. QED
    BY <2>1, <2>3, RoomQuiet, ShellsRest DEF Connect, seatRows, seatMemory
<1>4. CASE CheckIn(f)
  <2>1. SeatTypes'
    BY <1>4 DEF CheckIn, SeatTypes, seatMemory
  <2>. QED
    BY <1>4, <2>1, RoomQuiet, ShellsRest DEF CheckIn, seatMemory
<1>5. CASE TakePendingSeat(f)
  <2>1. pending_seats_' \in [Sides -> PendingSeat]
    <3>1. [fd |-> f, gen |-> line[f].gen] \in PendingSeat
      BY <1>1, <1>2 DEF PendingSeat
    <3>. QED
      BY <1>2, <1>5, <3>1 DEF TakePendingSeat, SeatTypes
  <2>2. SeatTypes'
    BY <1>5, <2>1 DEF TakePendingSeat, SeatTypes, seatBounds, seatRows
  <2>. QED
    BY <1>5, <2>2, RoomQuiet, ShellsRest DEF TakePendingSeat, seatRows
<1>6. CASE LookForRoom(f)
  <2>1. owner' = owner \/ owner' = [by |-> f, step |-> "create"]
    BY <1>6 DEF LookForRoom
  <2>2. owner' \in [by : Lines \cup {Pass, -1}, step : {"none", "create", "record", "open"}]
    BY <2>1 DEF SeatTypes
  <2>3. SeatTypes'
    BY <1>6, <2>2 DEF LookForRoom, SeatTypes, seatBounds, seatRows, seatMemory
  <2>. QED
    BY <1>1, <1>6, <2>1, <2>3, RoomQuiet, ShellsRest DEF LookForRoom, seatRows, seatMemory
<1>7. CASE Bind(f)
  <2>. DEFINE p == line[f].player
              i == Len(shells)
              admitted == IF shells[i].state = "FINISHED" THEN shells[i] ELSE Allowed(shells[i], {p})
              r == Bound(admitted, p, f, line[f].gen, TRUE)
  <2>1. i \in DOMAIN shells => RoomKept(shells[i], r)
    <3>1. SUFFICES ASSUME i \in DOMAIN shells PROVE RoomKept(shells[i], r)
      OBVIOUS
    <3>2. shells[i] \in Shell
      BY <3>1 DEF SeatTypes
    <3>3. RoomKept(shells[i], admitted) /\ admitted \in Shell
      BY <3>2, AllowedKeeps DEF RoomKept
    <3>4. PICK room : room = admitted
      OBVIOUS
    <3>. HIDE DEF admitted
    <3>5. RoomKept(room, Bound(room, p, f, line[f].gen, TRUE))
      BY <1>1, <1>2, <3>3, <3>4, BoundKeeps
    <3>. QED
      BY <3>3, <3>4, <3>5, RoomKeptOn
  <2>2. shells' = [shells EXCEPT ![i] = r]
    BY <1>7 DEF Bind
  <2>. HIDE DEF p, i, r
  <2>3. ShellsKept
    BY <2>1, <2>2, ShellChanges
  <2>4. pending_seats_' \in [Sides -> PendingSeat]
    BY <1>2, <1>7 DEF Bind, notify_room, SeatTypes
  <2>5. SeatTypes'
    BY <1>7, <2>3, <2>4 DEF Bind, SeatTypes, seatBounds, seatRows, ShellsKept
  <2>. QED
    BY <1>7, <2>3, <2>5, RoomQuiet DEF Bind, seatRows
<1>8. CASE DropSeat(f)
  <2>1. PICK seat : seat = [p \in Sides |-> IF shells[pairing_room].seat[p].fd = f
                                            THEN [shells[pairing_room].seat[p] EXCEPT !.fd = 0, !.connected = FALSE]
                                            ELSE shells[pairing_room].seat[p]]
    OBVIOUS
  <2>2. PICK r : r = [shells[pairing_room] EXCEPT !.seat = seat]
    OBVIOUS
  <2>3. ShellsKept
    <3>1. CASE pairing_room = 0
      BY <1>8, <3>1, ShellsRest DEF DropSeat
    <3>2. CASE pairing_room # 0
      <4>1. pairing_room \in DOMAIN shells /\ shells[pairing_room] \in Shell
        BY <3>2 DEF SeatTypes
      <4>2. ASSUME NEW p \in Sides PROVE seat[p] \in SeatOf
        <5>1. PICK s \in SeatOf : s = shells[pairing_room].seat[p]
          BY <4>1 DEF Shell
        <5>2. [s EXCEPT !.fd = 0, !.connected = FALSE] \in SeatOf
          BY DEF SeatOf
        <5>. QED
          BY <2>1, <5>1, <5>2
      <4>3. seat \in [Sides -> SeatOf]
        BY <2>1, <4>2
      <4>4. RoomKept(shells[pairing_room], r)
        BY <2>2, <4>1, <4>3 DEF RoomKept, Shell
      <4>5. shells' = [shells EXCEPT ![pairing_room] = r]
        BY <1>8, <2>1, <2>2, <3>2, <4>1 DEF DropSeat, SeatTypes
      <4>. QED
        BY <4>4, <4>5, ShellChanges
    <3>. QED
      BY <3>1, <3>2
  <2>4. SeatTypes'
    BY <1>8, <2>3 DEF DropSeat, SeatTypes, seatBounds, seatRows, ShellsKept
  <2>. QED
    BY <1>8, <2>3, <2>4, RoomQuiet DEF DropSeat, seatRows
<1>9. CASE ForgetPending(f)
  <2>1. pending_seats_' \in [Sides -> PendingSeat]
    BY <1>2, <1>9 DEF ForgetPending, SeatTypes
  <2>2. SeatTypes'
    BY <1>9, <2>1 DEF ForgetPending, SeatTypes, seatBounds, seatRows
  <2>. QED
    BY <1>9, <2>2, RoomQuiet, ShellsRest DEF ForgetPending, seatRows
<1>10. CASE Withdraw(f)
  <2>1. NoOne \in [player : Sides, gen : Nat]
    BY DEF NoOne, Sides
  <2>2. SeatTypes'
    BY <1>10, <2>1 DEF Withdraw, SeatTypes, seatBounds
  <2>. QED
    BY <1>10, <2>2, RoomQuiet, ShellsRest DEF Withdraw
<1>. QED
  BY <1>3, <1>4, <1>5, <1>6, <1>7, <1>8, <1>9, <1>10 DEF LineSteps

(* The steps under the mutex: a room is made, recorded, opened. *)
MutexSteps == CreateRoom \/ RecordRoom \/ OpenRoom
Passed == [pass EXCEPT !.step = "shells"]

LEMMA FinishSound ==
    ASSUME SeatsInv, Finish(owner.by), owner.step # "none"
    PROVE  /\ pass' \in [step : PassSteps, late : BOOLEAN, copy : [Sides -> PendingSeat]]
           /\ pass' = pass \/ (pass.step = "materialise" /\ pass' = Passed)
<1>1. CASE owner.by = Pass
  BY <1>1 DEF Finish, SeatsInv, SeatTypes, PassWaits, PassSteps, Passed
<1>2. CASE owner.by # Pass
  BY <1>2 DEF Finish, SeatsInv, SeatTypes
<1>. QED
  BY <1>1, <1>2

(* The end of it: nothing more than a step of the pass. *)
LEMMA Unlocks ==
    ASSUME SeatsInv, ShellsKept, UNCHANGED <<decided, history>>, game_id' = game_id, owner' = Unlocked,
           pairing_room' # pairing_room => pairing_room' = 0,
           pass' = pass \/ (pass.step = "materialise" /\ pass' = Passed)
    PROVE  NumbersAscend' /\ PassWaits' /\ DecidedIsSettled'
<1>1. NumbersAscend'
  BY DEF SeatsInv, NumbersAscend, RoomNumbersFresh, Unlocked
<1>2. PassWaits'
  BY DEF PassWaits, Unlocked, Pass
<1>3. NoneWaits => NoneWaits'
  BY DEF SeatsInv, SeatTypes, NoneWaits, ShellsKept, RoomKept
<1>4. Settled => Settled'
  BY DEF Settled, Unlocked
<1>5. pass'.late = pass.late /\ (pass' = pass \/ (pass'.step = "shells" /\ pass.step = "materialise"))
  BY DEF SeatsInv, SeatTypes, Passed
<1>. QED
  BY <1>1, <1>2, <1>3, <1>4, <1>5 DEF SeatsInv, DecidedIsSettled

LEMMA CreateSound == ASSUME SeatsInv, CreateRoom PROVE SeatsInv'
<1>. USE DEF SeatsInv
<1>1. /\ UNCHANGED <<line, seatBounds, seatRows, pending_seats_, history>> /\ owner.step = "create"
      /\ owner \in [by : Lines \cup {Pass, -1}, step : {"none", "create", "record", "open"}]
  BY DEF CreateRoom, SeatTypes
<1>2. NextId \in Nat /\ NextId > game_id /\ NextId + 1 \in Nat
  BY DEF SeatTypes, NextId, ensure_next_id_above
<1>3. CASE owner' = Unlocked /\ Finish(owner.by) /\ next_id_' = NextId /\ UNCHANGED <<shells, pairing_room>>
  <2>1. SeatTypes'
    BY <1>1, <1>2, <1>3, FinishSound DEF SeatTypes, seatBounds, seatRows, Unlocked
  <2>. QED
    BY <1>1, <1>3, <2>1, FinishSound, Unlocks, ShellsRest DEF seatRows
<1>4. CASE /\ ~decided /\ pairing_room = 0
           /\ shells' = Append(shells, [id |-> NextId, state |-> "WAITING", open |-> FALSE,
                                        seat |-> [p \in Sides |-> EmptySeat]])
           /\ pairing_room' = Len(shells) + 1
           /\ next_id_' = NextId + 1
           /\ owner' = [owner EXCEPT !.step = "record"]
           /\ UNCHANGED pass
  <2>1. PICK s : s = [id |-> NextId, state |-> "WAITING", open |-> FALSE,
                      seat |-> [p \in Sides |-> EmptySeat]]
    OBVIOUS
  <2>2. EmptySeat \in SeatOf
    BY DEF EmptySeat, SeatOf
  <2>3. s \in Shell /\ s.id = NextId
    BY <1>2, <2>1, <2>2 DEF Shell
  <2>4. /\ shells' \in Seq(Shell) /\ pairing_room' \in DOMAIN shells' /\ pairing_room' # 0
        /\ shells'[pairing_room'] = s
    BY <1>4, <2>1, <2>3 DEF SeatTypes
  <2>5. owner' \in [by : Lines \cup {Pass, -1}, step : {"none", "create", "record", "open"}]
        /\ owner'.step = "record" /\ owner'.by = owner.by
    BY <1>1, <1>4
  <2>6. SeatTypes'
    BY <1>1, <1>2, <1>4, <2>4, <2>5 DEF SeatTypes, seatBounds, seatRows
  <2>7. NumbersAscend'
    BY <1>1, <1>2, <2>3, <2>4, <2>5 DEF NumbersAscend, RoomNumbersFresh, seatRows
  <2>8. DecidedIsSettled'
    BY <1>1, <1>4 DEF DecidedIsSettled, Settled, seatRows
  <2>. QED
    BY <1>4, <2>5, <2>6, <2>7, <2>8 DEF PassWaits
<1>5. CASE /\ ~decided /\ owner' = [owner EXCEPT !.step = "open"] /\ next_id_' = NextId
           /\ UNCHANGED <<shells, pairing_room, pass>>
  <2>1. owner' \in [by : Lines \cup {Pass, -1}, step : {"none", "create", "record", "open"}]
        /\ owner'.step = "open" /\ owner'.by = owner.by
    BY <1>1, <1>5
  <2>2. SeatTypes'
    BY <1>1, <1>2, <1>5, <2>1 DEF SeatTypes, seatBounds, seatRows
  <2>3. DecidedIsSettled'
    BY <1>1, <1>5 DEF DecidedIsSettled, Settled, seatRows
  <2>. QED
    BY <1>1, <1>5, <2>1, <2>2, <2>3 DEF PassWaits, NumbersAscend, RoomNumbersFresh, seatRows
<1>. QED
  BY <1>3, <1>4, <1>5 DEF CreateRoom

LEMMA RecordSound == ASSUME SeatsInv, RecordRoom PROVE SeatsInv'
<1>. USE DEF SeatsInv
<1>1. /\ UNCHANGED <<line, sockets_made, round_live, decided, checkins, pending_seats_, shells, next_id_>>
      /\ owner.step = "record"
  BY DEF RecordRoom
<1>2. CASE /\ ~decided
           /\ game_id' = shells[pairing_room].id
           /\ owner' = [owner EXCEPT !.step = "open"]
           /\ history' = [history EXCEPT !.issued = @ \cup {shells[pairing_room].id},
                                         !.reissued = @ \/ shells[pairing_room].id \in history.issued]
           /\ UNCHANGED <<pass, pairing_room>>
  <2>1. PICK n : n = shells[pairing_room].id
    OBVIOUS
  <2>2. n \in Nat /\ n > game_id /\ pairing_room \in DOMAIN shells
    <3>1. pairing_room \in DOMAIN shells /\ shells[pairing_room] \in Shell /\ n > game_id
      BY <1>1, <1>2, <2>1 DEF NumbersAscend, SeatTypes
    <3>. QED
      BY <2>1, <3>1 DEF Shell
  <2>3. n \notin history.issued
    BY <2>2 DEF NumbersAscend, SeatTypes
  <2>4. PICK i : i = history.issued \cup {n}
    OBVIOUS
  <2>5. i \in SUBSET Nat
    BY <2>2, <2>4 DEF SeatTypes
  <2>6. history' = [history EXCEPT !.issued = i, !.reissued = FALSE]
    BY <1>2, <2>1, <2>3, <2>4 DEF NumbersAscend, RoomNumbersFresh, SeatTypes
  <2>7. /\ history' \in [issued : SUBSET Nat, reissued : BOOLEAN, swept : BOOLEAN]
        /\ history'.issued = i /\ history'.reissued = FALSE /\ history'.swept = history.swept
    BY <2>5, <2>6 DEF SeatTypes
  <2>8. /\ owner' \in [by : Lines \cup {Pass, -1}, step : {"none", "create", "record", "open"}]
        /\ owner'.step = "open" /\ owner'.by = owner.by
    BY <1>2 DEF SeatTypes
  <2>9. SeatTypes'
    BY <1>1, <1>2, <2>1, <2>2, <2>7, <2>8 DEF SeatTypes
  <2>10. NumbersAscend'
    BY <1>2, <2>1, <2>2, <2>4, <2>7, <2>8 DEF NumbersAscend, RoomNumbersFresh, SeatTypes
  <2>11. DecidedIsSettled'
    BY <1>1, <1>2, <2>7 DEF DecidedIsSettled, Settled
  <2>. QED
    BY <1>2, <2>8, <2>9, <2>10, <2>11 DEF PassWaits
<1>3. CASE pairing_room' = 0 /\ owner' = Unlocked /\ Finish(owner.by) /\ UNCHANGED <<game_id, history>>
  <2>1. SeatTypes'
    BY <1>1, <1>3, FinishSound DEF SeatTypes, Unlocked
  <2>. QED
    BY <1>1, <1>3, <2>1, FinishSound, Unlocks, ShellsRest
<1>. QED
  BY <1>2, <1>3 DEF RecordRoom

LEMMA OpenSound == ASSUME SeatsInv, OpenRoom PROVE SeatsInv'
<1>. USE DEF SeatsInv
<1>. DEFINE i == Len(shells)
            admitted == Allowed(shells[i], checkins)
            r == StartIfReady([BindPending(admitted) EXCEPT !.open = TRUE])
<1>1. i \in DOMAIN shells => RoomKept(shells[i], r)
  <2>1. SUFFICES ASSUME i \in DOMAIN shells PROVE RoomKept(shells[i], r)
    OBVIOUS
  <2>2. shells[i] \in Shell
    BY <2>1 DEF SeatTypes
  <2>3. RoomKept(shells[i], admitted) /\ admitted \in Shell
    BY <2>2, AllowedKeeps DEF RoomKept
  <2>4. PICK room : room = BindPending(admitted)
    OBVIOUS
  <2>5. RoomKept(shells[i], room) /\ room \in Shell
    BY <2>3, <2>4, BindPendingKeeps, RoomKeptOn DEF SeatTypes, RoomKept
  <2>6. PICK opened : opened = [room EXCEPT !.open = TRUE]
    OBVIOUS
  <2>7. RoomKept(room, opened) /\ opened \in Shell
    BY <2>5, <2>6 DEF RoomKept, Shell
  <2>8. r = StartIfReady(opened)
    BY <2>4, <2>6
  <2>. QED
    BY <2>5, <2>7, <2>8, StartKeeps, RoomKeptOn
<1>2. shells' = [shells EXCEPT ![i] = r]
  BY DEF OpenRoom
<1>. HIDE DEF r, i
<1>3. ShellsKept
  BY <1>1, <1>2, ShellChanges
<1>4. pending_seats_' \in [Sides -> PendingSeat]
  BY DEF OpenRoom, notify_room, SeatTypes, None, PendingSeat
<1>5. SeatTypes'
  BY <1>3, <1>4, FinishSound DEF OpenRoom, SeatTypes, seatBounds, seatRows, ShellsKept, Unlocked
<1>. QED
  BY <1>3, <1>5, FinishSound, Unlocks DEF OpenRoom, seatRows

(* The steps of the pass outside the mutex. *)
PassesOn(s) == /\ pass' \in [step : PassSteps, late : BOOLEAN, copy : [Sides -> PendingSeat]]
               /\ pass'.step = s /\ pass'.late = pass.late
LEMMA GoesOn ==
    ASSUME SeatsInv, NEW from, NEW s \in PassSteps, pass.step = from, pass' = [pass EXCEPT !.step = s]
    PROVE  PassesOn(s)
  BY DEF SeatsInv, SeatTypes, PassesOn

LEMMA PassSound ==
    ASSUME SeatsInv,
           PassEnsures \/ FindShell \/ RemoveShell \/ CopyPending
    PROVE  SeatsInv'
<1>. USE DEF SeatsInv
<1>1. CASE PassEnsures
  <2>1. PassesOn("materialise") /\ pass.step = "ensure"
    BY <1>1, GoesOn DEF PassEnsures, PassStep, PassSteps
  <2>2. owner' = [by |-> Pass, step |-> "create"] /\ owner = Unlocked
    BY <1>1 DEF PassEnsures
  <2>3. SeatTypes'
    BY <1>1, <2>1, <2>2 DEF PassEnsures, PassesOn, SeatTypes, seatBounds, seatRows, seatMemory
  <2>4. NumbersAscend' /\ PassWaits'
    BY <1>1, <2>1, <2>2 DEF PassEnsures, PassesOn, NumbersAscend, PassWaits, RoomNumbersFresh, seatRows, seatMemory
  <2>5. pass.late => Settled'
    BY <1>1, <2>2 DEF PassEnsures, DecidedIsSettled, Settled, seatRows
  <2>6. history.swept => Settled' /\ NoneWaits'
    BY <1>1, <2>2 DEF PassEnsures, DecidedIsSettled, Settled, NoneWaits, seatRows, seatMemory
  <2>. QED
    BY <1>1, <2>1, <2>3, <2>4, <2>5, <2>6 DEF PassEnsures, PassesOn, DecidedIsSettled, Settled, seatRows
<1>2. CASE FindShell
  <2>1. PICK s \in {"judge", "copy"} : pass' = [pass EXCEPT !.step = s] /\ (s = "copy" => NoneWaits)
    BY <1>2 DEF FindShell, PassStep, NoneWaits
  <2>2. PassesOn(s) /\ pass.step = "shells"
    BY <1>2, <2>1, GoesOn DEF FindShell, PassStep, PassSteps
  <2>3. SeatTypes'
    BY <1>2, <2>2 DEF FindShell, PassesOn, SeatTypes, seatBounds, seatRows, seatMemory
  <2>4. NumbersAscend' /\ PassWaits'
    BY <1>2, <2>2 DEF FindShell, PassesOn, NumbersAscend, PassWaits, RoomNumbersFresh, seatRows, seatMemory
  <2>5. DecidedIsSettled'
    BY <1>2, <2>1, <2>2 DEF FindShell, PassesOn, DecidedIsSettled, Settled, NoneWaits, seatRows, seatMemory
  <2>. QED
    BY <2>3, <2>4, <2>5
<1>3. CASE RemoveShell
  <2>1. PassesOn("copy") /\ pass.step = "judge"
    BY <1>3, GoesOn DEF RemoveShell, PassStep, PassSteps
  <2>2. pairing_room' \in {0, pairing_room} /\ (decided => pairing_room' = 0)
    BY <1>3 DEF RemoveShell
  <2>3. SeatTypes'
    BY <1>3, <2>1, <2>2 DEF RemoveShell, PassesOn, SeatTypes, seatBounds, seatRows
  <2>4. NumbersAscend' /\ PassWaits'
    BY <1>3, <2>1, <2>2 DEF RemoveShell, PassesOn, NumbersAscend, PassWaits, RoomNumbersFresh, seatRows
  <2>5. DecidedIsSettled'
    BY <1>3, <2>1, <2>2 DEF RemoveShell, PassesOn, DecidedIsSettled, Settled, NoneWaits, seatRows
  <2>. QED
    BY <2>3, <2>4, <2>5
<1>4. CASE CopyPending
  <2>1. PassesOn("erase") /\ pass.step = "copy"
    BY <1>4 DEF CopyPending, PassesOn, SeatTypes, PassSteps
  <2>2. SeatTypes'
    BY <1>4, <2>1 DEF CopyPending, PassesOn, SeatTypes, seatBounds, seatRows, seatMemory
  <2>3. NumbersAscend' /\ PassWaits'
    BY <1>4, <2>1 DEF CopyPending, PassesOn, NumbersAscend, PassWaits, RoomNumbersFresh, seatRows, seatMemory
  <2>4. DecidedIsSettled'
    BY <1>4, <2>1 DEF CopyPending, PassesOn, DecidedIsSettled, Settled, NoneWaits, seatRows, seatMemory
  <2>. QED
    BY <2>2, <2>3, <2>4
<1>. QED
  BY <1>1, <1>2, <1>3, <1>4

LEMMA IdlePassTyped ==
    /\ IdlePass \in [step : PassSteps, late : BOOLEAN, copy : [Sides -> PendingSeat]]
    /\ IdlePass.step = "idle" /\ IdlePass.late = FALSE
  BY DEF IdlePass, PassSteps, None, PendingSeat

(* A pass begins: what it finds decided was decided before it made its     *)
(* rooms.  A pass ends.                                                    *)
LEMMA TickSound == ASSUME SeatsInv, ManagerTick PROVE SeatsInv'
<1>. USE DEF SeatsInv
<1>1. /\ UNCHANGED <<line, sockets_made, game_id, seatMemory, owner, history>>
      /\ pass' = [pass EXCEPT !.step = "ensure", !.late = decided'] /\ pass.step = "idle"
      /\ (decided => decided') /\ decided' \in BOOLEAN /\ round_live' \in BOOLEAN
  BY DEF ManagerTick, seatBounds, SeatTypes
<1>2. /\ pass' \in [step : PassSteps, late : BOOLEAN, copy : [Sides -> PendingSeat]]
      /\ pass'.step = "ensure" /\ pass'.late = decided'
  BY <1>1 DEF SeatTypes, PassSteps
<1>3. SeatTypes'
  BY <1>1, <1>2 DEF SeatTypes, seatMemory
<1>4. NumbersAscend' /\ PassWaits'
  BY <1>1, <1>2 DEF NumbersAscend, PassWaits, RoomNumbersFresh, seatMemory
<1>5. DecidedIsSettled'
  BY <1>1, <1>2 DEF DecidedIsSettled, Settled, NoneWaits, seatMemory
<1>. QED
  BY <1>3, <1>4, <1>5

LEMMA EraseSound == ASSUME SeatsInv, ErasePending PROVE SeatsInv'
<1>. USE DEF SeatsInv
<1>1. /\ UNCHANGED <<line, sockets_made, seatRows, shells, pairing_room, next_id_, owner>>
      /\ pass' = IdlePass /\ pass.step = "erase"
      /\ history' = [history EXCEPT !.swept = @ \/ pass.late]
  BY DEF ErasePending, seatBounds
<1>2. PICK swept \in BOOLEAN : swept <=> history.swept \/ pass.late
  BY DEF SeatTypes
<1>3. history' = [history EXCEPT !.swept = swept]
  BY <1>1, <1>2 DEF SeatTypes
<1>4. /\ history' \in [issued : SUBSET Nat, reissued : BOOLEAN, swept : BOOLEAN]
      /\ history'.issued = history.issued /\ history'.reissued = history.reissued /\ history'.swept = swept
  BY <1>3 DEF SeatTypes
<1>5. pending_seats_' \in [Sides -> PendingSeat]
  BY DEF ErasePending, SeatTypes, None, PendingSeat
<1>6. SeatTypes'
  BY <1>1, <1>4, <1>5, IdlePassTyped DEF SeatTypes, seatRows
<1>7. NumbersAscend' /\ PassWaits'
  BY <1>1, <1>4, IdlePassTyped DEF NumbersAscend, PassWaits, RoomNumbersFresh, seatRows
<1>8. DecidedIsSettled'
  BY <1>1, <1>2, <1>4, IdlePassTyped DEF DecidedIsSettled, Settled, NoneWaits, seatRows
<1>. QED
  BY <1>6, <1>7, <1>8

LEMMA PersistedSound == ASSUME SeatsInv, GamePersisted PROVE SeatsInv'
<1>. USE DEF SeatsInv
<1>1. PICK r : r = [shells[pairing_room] EXCEPT !.state = "FINISHED"]
  OBVIOUS
<1>2. shells' = [shells EXCEPT ![pairing_room] = r] /\ pairing_room \in DOMAIN shells
  BY <1>1 DEF GamePersisted, SeatTypes
<1>3. shells[pairing_room] \in Shell
  BY <1>2 DEF SeatTypes
<1>4. RoomKept(shells[pairing_room], r)
  BY <1>1, <1>3 DEF RoomKept, Shell
<1>5. ShellsKept
  BY <1>2, <1>4, ShellChanges
<1>6. SeatTypes'
  BY <1>5 DEF GamePersisted, SeatTypes, seatBounds, ShellsKept
<1>. QED
  BY <1>5, <1>6, RoomQuiet DEF GamePersisted

LEMMA RestartSound == ASSUME SeatsInv, Restart PROVE SeatsInv'
<1>. USE DEF SeatsInv
<1>1. /\ UNCHANGED <<sockets_made, seatRows, shells, history>>
      /\ line' = [f \in Lines |-> NoOne] /\ pending_seats_' = [p \in Sides |-> None]
      /\ pairing_room' = 0 /\ next_id_' = ensure_next_id_above(1)
      /\ pass' = IdlePass /\ owner' = Unlocked
  BY DEF Restart
<1>2. next_id_' \in Nat
  BY <1>1 DEF ensure_next_id_above, SeatTypes
<1>3. SeatTypes'
  BY <1>1, <1>2, IdlePassTyped DEF SeatTypes, seatRows, NoOne, Sides, None, PendingSeat, Unlocked
<1>4. NumbersAscend' /\ PassWaits'
  BY <1>1 DEF NumbersAscend, PassWaits, RoomNumbersFresh, seatRows, Unlocked, Pass
<1>5. DecidedIsSettled'
  BY <1>1, IdlePassTyped DEF DecidedIsSettled, Settled, NoneWaits, seatRows, Unlocked
<1>. QED
  BY <1>3, <1>4, <1>5

LEMMA SeatsStep == SeatsInv /\ [SeatsNext]_seatVars => SeatsInv'
<1>. SUFFICES ASSUME SeatsInv, [SeatsNext]_seatVars PROVE SeatsInv'
  OBVIOUS
<1>1. CASE UNCHANGED seatVars
  BY <1>1 DEF seatVars, seatRows, seatMemory, SeatsInv, SeatTypes, NumbersAscend, RoomNumbersFresh, PassWaits,
     DecidedIsSettled, Settled, NoneWaits
<1>. QED
  BY <1>1, LineSound, CreateSound, RecordSound, OpenSound, TickSound, PassSound, EraseSound, PersistedSound,
     RestartSound DEF SeatsNext, LineSteps

(* A pending seat is given up or goes to a connection at least as new.     *)
LEMMA SeatsOnlyMoveForward ==
    ASSUME SeatsInv, [SeatsNext]_seatVars
    PROVE  \A p \in Sides : pending_seats_[p] # None /\ pending_seats_'[p] # None
                               => pending_seats_'[p].gen >= pending_seats_[p].gen
<1>1. /\ pending_seats_ \in [Sides -> PendingSeat]
      /\ \A p \in Sides : pending_seats_[p].gen \in Nat
  BY DEF SeatsInv, SeatTypes, PendingSeat
<1>2. \/ \A p \in Sides : pending_seats_'[p] \in {pending_seats_[p], None}
      \/ \E f \in Lines : TakePendingSeat(f)
  BY <1>1 DEF SeatsNext, seatVars, seatMemory, Connect, CheckIn, LookForRoom, Bind, DropSeat, ForgetPending,
     Withdraw, CreateRoom, RecordRoom, OpenRoom, ManagerTick, PassEnsures, FindShell, RemoveShell, CopyPending,
     ErasePending, GamePersisted, Restart, notify_room
<1>3. CASE \A p \in Sides : pending_seats_'[p] \in {pending_seats_[p], None}
  BY <1>1, <1>3
<1>4. ASSUME NEW f \in Lines, TakePendingSeat(f), NEW p \in Sides
      PROVE  pending_seats_'[p].gen >= pending_seats_[p].gen
  <2>1. line[f].gen \in Nat /\ line[f].player \in Sides
    BY DEF SeatsInv, SeatTypes
  <2>. QED
    BY <1>1, <1>4, <2>1 DEF TakePendingSeat
<1>. QED
  BY <1>2, <1>3, <1>4

(* tournament_runtime_service.cpp: through late check-ins, disconnects and *)
(* restarts a pairing never gets a number for its room that was on record  *)
(* before, has no waiting room once a pass has found it decided, and its   *)
(* pending seats only go to newer connections, for any number of           *)
(* connections and restarts.                                               *)
THEOREM PairingsKeepTheirRooms == SeatsSpec => PairingKeepsItsRoom
<1>1. SeatsInit => SeatsInv
  <2>. SUFFICES ASSUME SeatsInit PROVE SeatsInv
    OBVIOUS
  <2>1. SeatTypes
    <3>1. NoOne \in [player : Sides, gen : Nat] /\ None \in PendingSeat
      BY DEF NoOne, Sides, None, PendingSeat
    <3>2. history \in [issued : SUBSET Nat, reissued : BOOLEAN, swept : BOOLEAN]
      BY DEF SeatsInit
    <3>3. owner \in [by : Lines \cup {Pass, -1}, step : {"none", "create", "record", "open"}]
      BY DEF SeatsInit, Unlocked
    <3>4. shells \in Seq(Shell)
      BY DEF SeatsInit
    <3>. QED
      BY <3>1, <3>2, <3>3, <3>4, IdlePassTyped DEF SeatsInit, SeatTypes
  <2>2. NumbersAscend
    BY DEF SeatsInit, NumbersAscend, RoomNumbersFresh, Unlocked
  <2>. QED
    BY <2>1, <2>2, IdlePassTyped DEF SeatsInit, SeatsInv, PassWaits, DecidedIsSettled, Settled, Unlocked, Pass
<1>2. SeatsInv => RoomNumbersFresh /\ NoShellLeft
  BY DEF SeatsInv, NumbersAscend, DecidedIsSettled, NoneWaits, NoShellLeft
<1>3. SeatsInv /\ [SeatsNext]_seatVars =>
        [\A p \in Sides : pending_seats_[p] # None /\ pending_seats_'[p] # None
                             => pending_seats_'[p].gen >= pending_seats_[p].gen]_seatVars
  BY SeatsOnlyMoveForward
<1>. QED
  BY <1>1, <1>2, <1>3, SeatsStep, PTL DEF SeatsSpec, PairingKeepsItsRoom, SeatsMoveForward


-----------------------------------------------------------------------------
(***************************************************************************)
(* The read pool and the migration runner, which the tournament runtime    *)
(* reads from and starts on (src/storage).                                 *)
(***************************************************************************)
Leasing == {"query", "repair", "reset", "keep", "quarantine"}
LeaseSteps == Leasing \cup {"idle", "answer"}
Answers == {"none", "unavailable", "identity", "refused"}

PoolTypes ==
    /\ slots_ \in [Slots -> [busy : BOOLEAN, healthy : BOOLEAN, alive : BOOLEAN]]
    /\ borrower \in [Borrowers -> [step : LeaseSteps, slot : Slots \cup {0}, answer : Answers]]
    /\ failures \in [Slots -> Nat]

(* Who holds a slot, and that the slot knows. *)
Held ==
    /\ \A b \in Borrowers : borrower[b].step \in Leasing <=> borrower[b].slot # 0
    /\ \A b, c \in Borrowers : borrower[b].slot = borrower[c].slot /\ borrower[b].slot # 0 => b = c
    /\ \A b \in Borrowers : borrower[b].slot # 0 => slots_[borrower[b].slot].busy = TRUE
    /\ \A i \in Slots : slots_[i].busy = TRUE => \E b \in Borrowers : borrower[b].slot = i

(* A session on which a query has failed is dead, is on its way back to    *)
(* the pool as broken, or waits there to be connected anew.                *)
FailureSeen ==
    /\ \A i \in Slots : failures[i] = 0 \/ failures[i] = 1
    /\ \A i \in Slots : failures[i] = 1 => slots_[i].alive = FALSE
    /\ \A i \in Slots : failures[i] = 1 /\ slots_[i].busy = FALSE => slots_[i].healthy = FALSE
    /\ \A b \in Borrowers : borrower[b].slot # 0 /\ failures[borrower[b].slot] = 1
                              => borrower[b].step \in {"reset", "quarantine", "repair"}

PoolInv == PoolTypes /\ Held /\ FailureSeen

-----------------------------------------------------------------------------
(* Every pool starts with free and healthy sessions. *)
LEMMA PoolStarts == PoolInit => PoolInv
<1>. SUFFICES ASSUME PoolInit PROVE PoolInv
  OBVIOUS
<1>. USE PoolAssumption DEF PoolInit, Session, AtRest
<1>1. PoolTypes
  BY DEF PoolTypes, LeaseSteps, Answers, Leasing
<1>2. Held
  BY DEF Held, Leasing
<1>3. FailureSeen
  BY DEF FailureSeen
<1>. QED
  BY <1>1, <1>2, <1>3 DEF PoolInv

(* acquire takes a free slot. *)
LEMMA PreferredIsFree == \A i \in Preferred : i \in Slots /\ ~slots_[i].busy
BY DEF Preferred, FreeSlots

(* A step that leaves every slot with its holder keeps Held. *)
LEMMA HoldersUnmoved ==
  ASSUME PoolTypes, Held, UNCHANGED slots_,
         \A c \in Borrowers : /\ borrower'[c].slot = borrower[c].slot
                              /\ borrower'[c].step \in Leasing <=> borrower[c].step \in Leasing
  PROVE  Held'
BY DEF PoolTypes, Held

(* Every step keeps the invariant. *)
LEMMA PoolSteps == PoolInv /\ [PoolNext]_poolVars => PoolInv'
<1>. SUFFICES ASSUME PoolInv, [PoolNext]_poolVars PROVE PoolInv'
  OBVIOUS
<1>. USE PoolAssumption DEF PoolInv
<1>1. ASSUME NEW b \in Borrowers, acquire(b) PROVE PoolInv'
  <2>1. PICK i \in Preferred : /\ slots_' = [slots_ EXCEPT ![i].busy = TRUE]
                               /\ Goes(b, IF slots_[i].healthy THEN "query" ELSE "repair", i)
    BY <1>1 DEF acquire
  <2>2. i \in Slots /\ slots_[i].busy = FALSE
    BY PreferredIsFree DEF PoolTypes
  <2>3. borrower[b].step = "idle" /\ UNCHANGED failures /\ borrower[b].slot = 0
    BY <1>1 DEF acquire, Held, Leasing
  <2>4. PoolTypes'
    <3>1. slots_' \in [Slots -> [busy : BOOLEAN, healthy : BOOLEAN, alive : BOOLEAN]]
      BY <2>1, <2>2 DEF PoolTypes
    <3>2. PICK step \in {"query", "repair"} : Goes(b, step, i)
      BY <2>1
    <3>3. borrower' \in [Borrowers -> [step : LeaseSteps, slot : Slots \cup {0}, answer : Answers]]
      BY <2>2, <3>2 DEF PoolTypes, Goes, LeaseSteps, Leasing
    <3>. QED
      BY <2>3, <3>1, <3>3 DEF PoolTypes
  <2>5. Held'
    BY <2>1, <2>2, <2>3 DEF PoolTypes, Held, Goes, Leasing
  <2>6. FailureSeen'
    BY <2>1, <2>2, <2>3 DEF PoolTypes, FailureSeen, Goes
  <2>. QED
    BY <2>4, <2>5, <2>6
<1>2. ASSUME NEW b \in Borrowers, acquire_timeout(b) PROVE PoolInv'
  <2>. USE <1>2 DEF acquire_timeout, AtRest
  <2>1. PoolTypes'
    BY DEF PoolTypes, LeaseSteps, Answers
  <2>2. Held'
    BY DEF PoolTypes, Held, Leasing
  <2>3. FailureSeen'
    BY DEF PoolTypes, FailureSeen
  <2>. QED
    BY <2>1, <2>2, <2>3
<1>3. ASSUME NEW b \in Borrowers, repair(b) PROVE PoolInv'
  <2>. DEFINE i == borrower[b].slot
  <2>1. borrower[b].step = "repair" /\ i \in Slots /\ slots_[i].busy = TRUE
    BY <1>3 DEF repair, Held, Leasing, PoolTypes
  <2>2. CASE reachable /\ slots_' = [slots_ EXCEPT ![i] = Session(TRUE, TRUE, TRUE)]
             /\ failures' = [failures EXCEPT ![i] = 0] /\ Goes(b, "query", i)
    <3>1. PoolTypes'
      BY <2>1, <2>2 DEF PoolTypes, Goes, Session, LeaseSteps, Leasing
    <3>2. Held'
      BY <2>1, <2>2 DEF PoolTypes, Held, Goes, Session, Leasing
    <3>3. FailureSeen'
      BY <2>1, <2>2 DEF PoolTypes, Held, FailureSeen, Goes, Session, Leasing
    <3>. QED
      BY <3>1, <3>2, <3>3
  <2>3. CASE /\ borrower' = [borrower EXCEPT ![b] = [@ EXCEPT !.step = "reset",
                                                              !.answer = "unavailable"]]
             /\ UNCHANGED <<slots_, failures>>
    <3>1. PoolTypes'
      BY <2>1, <2>3 DEF PoolTypes, LeaseSteps, Leasing, Answers
    <3>2. \A c \in Borrowers : /\ borrower'[c].slot = borrower[c].slot
                               /\ borrower'[c].step \in Leasing <=> borrower[c].step \in Leasing
      BY <2>1, <2>3 DEF PoolTypes, Leasing
    <3>3. Held'
      BY <2>3, <3>2, HoldersUnmoved
    <3>4. FailureSeen'
      BY <2>1, <2>3 DEF PoolTypes, FailureSeen
    <3>. QED
      BY <3>1, <3>3, <3>4
  <2>. QED
    BY <1>3, <2>2, <2>3 DEF repair
<1>4. ASSUME NEW b \in Borrowers, query(b) PROVE PoolInv'
  <2>. DEFINE i == borrower[b].slot
  <2>1. borrower[b].step = "query" /\ i \in Slots /\ slots_[i].busy = TRUE /\ failures[i] = 0 /\ UNCHANGED slots_
    BY <1>4 DEF query, Held, Leasing, PoolTypes, FailureSeen
  <2>2. CASE /\ \E verdict \in {"identity", "refused"} :
                  borrower' = [borrower EXCEPT ![b].step = "reset", ![b].answer = verdict]
             /\ UNCHANGED failures
    <3>1. PICK verdict \in {"identity", "refused"} :
                  borrower' = [borrower EXCEPT ![b].step = "reset", ![b].answer = verdict]
      BY <2>2
    <3>2. PoolTypes'
      <4>1. borrower' \in [Borrowers -> [step : LeaseSteps, slot : Slots \cup {0}, answer : Answers]]
        BY <3>1 DEF PoolTypes, LeaseSteps, Leasing, Answers
      <4>. QED
        BY <2>1, <2>2, <4>1 DEF PoolTypes
    <3>3. \A c \in Borrowers : /\ borrower'[c].slot = borrower[c].slot
                               /\ borrower'[c].step \in Leasing <=> borrower[c].step \in Leasing
      BY <2>1, <3>1 DEF PoolTypes, Leasing
    <3>4. Held'
      BY <2>1, <3>3, HoldersUnmoved
    <3>5. FailureSeen'
      BY <2>1, <2>2, <3>1 DEF PoolTypes, FailureSeen
    <3>. QED
      BY <3>2, <3>4, <3>5
  <2>3. CASE /\ ~slots_[i].alive
             /\ borrower' = [borrower EXCEPT ![b].step = "reset", ![b].answer = "unavailable"]
             /\ failures' = [failures EXCEPT ![i] = @ + 1]
    <3>1. slots_[i].alive = FALSE
      BY <2>1, <2>3 DEF PoolTypes
    <3>2. PoolTypes'
      <4>1. borrower' \in [Borrowers -> [step : LeaseSteps, slot : Slots \cup {0}, answer : Answers]]
        BY <2>3 DEF PoolTypes, LeaseSteps, Leasing, Answers
      <4>2. failures' \in [Slots -> Nat]
        BY <2>1, <2>3 DEF PoolTypes
      <4>. QED
        BY <2>1, <4>1, <4>2 DEF PoolTypes
    <3>3. \A c \in Borrowers : /\ borrower'[c].slot = borrower[c].slot
                               /\ borrower'[c].step \in Leasing <=> borrower[c].step \in Leasing
      BY <2>1, <2>3 DEF PoolTypes, Leasing
    <3>4. Held'
      BY <2>1, <3>3, HoldersUnmoved
    <3>5. FailureSeen'
      BY <2>1, <2>3, <3>1 DEF PoolTypes, Held, FailureSeen, Leasing
    <3>. QED
      BY <3>2, <3>4, <3>5
  <2>. QED
    BY <1>4, <2>2, <2>3 DEF query
<1>5. ASSUME NEW b \in Borrowers, reset(b) PROVE PoolInv'
  <2>. DEFINE i == borrower[b].slot
  <2>1. borrower[b].step = "reset" /\ i \in Slots /\ UNCHANGED <<slots_, failures>>
    BY <1>5 DEF reset, Held, Leasing, PoolTypes
  <2>2. PICK back \in {"keep", "quarantine"} :
          Goes(b, back, i) /\ (slots_[i].alive = FALSE => back = "quarantine")
    BY <1>5, <2>1 DEF reset, reset_for_reuse, PoolTypes
  <2>3. PoolTypes'
    BY <2>1, <2>2 DEF PoolTypes, Goes, LeaseSteps, Leasing
  <2>4. \A c \in Borrowers : /\ borrower'[c].slot = borrower[c].slot
                             /\ borrower'[c].step \in Leasing <=> borrower[c].step \in Leasing
    BY <2>1, <2>2 DEF PoolTypes, Goes, Leasing
  <2>5. Held'
    BY <2>1, <2>4, HoldersUnmoved
  <2>6. FailureSeen'
    BY <2>1, <2>2 DEF PoolTypes, FailureSeen, Goes
  <2>. QED
    BY <2>3, <2>5, <2>6
<1>6. ASSUME NEW b \in Borrowers, release(b) PROVE PoolInv'
  <2>. DEFINE i == borrower[b].slot
  <2>1. /\ borrower[b].step \in {"keep", "quarantine"}
        /\ i \in Slots /\ slots_[i].busy = TRUE /\ UNCHANGED failures
        /\ Goes(b, "answer", 0)
    BY <1>6 DEF release, Held, Leasing, PoolTypes
  <2>2. PICK healthy \in BOOLEAN :
          /\ slots_' = [slots_ EXCEPT ![i] = Session(FALSE, healthy, @.alive)]
          /\ healthy = TRUE => borrower[b].step = "keep"
    BY <1>6 DEF release
  <2>3. PoolTypes'
    BY <2>1, <2>2 DEF PoolTypes, Goes, Session, LeaseSteps
  <2>4. Held'
    BY <2>1, <2>2 DEF PoolTypes, Held, Goes, Session, Leasing
  <2>5. FailureSeen'
    BY <2>1, <2>2 DEF PoolTypes, Held, FailureSeen, Goes, Session
  <2>. QED
    BY <2>3, <2>4, <2>5
<1>7. ASSUME NEW b \in Borrowers, answer(b) PROVE PoolInv'
  <2>. USE <1>7 DEF answer, AtRest
  <2>1. PoolTypes'
    BY DEF PoolTypes, LeaseSteps, Answers
  <2>2. Held'
    BY DEF PoolTypes, Held, Leasing
  <2>3. FailureSeen'
    BY DEF PoolTypes, FailureSeen
  <2>. QED
    BY <2>1, <2>2, <2>3
<1>8. CASE Outage
  <2>1. PICK dead \in SUBSET Slots :
          slots_' = [i \in Slots |-> IF i \in dead THEN [slots_[i] EXCEPT !.alive = FALSE] ELSE slots_[i]]
    BY <1>8 DEF Outage
  <2>2. UNCHANGED <<borrower, failures>>
    BY <1>8 DEF Outage
  <2>3. PoolTypes'
    BY <2>1, <2>2 DEF PoolTypes
  <2>4. Held'
    BY <2>1, <2>2 DEF PoolTypes, Held
  <2>5. FailureSeen'
    BY <2>1, <2>2 DEF PoolTypes, FailureSeen
  <2>. QED
    BY <2>3, <2>4, <2>5
<1>9. CASE Recovery \/ UNCHANGED poolVars
  BY <1>9 DEF Recovery, poolVars, PoolTypes, Held, FailureSeen
<1>. QED
  BY <1>1, <1>2, <1>3, <1>4, <1>5, <1>6, <1>7, <1>8, <1>9 DEF PoolNext

-----------------------------------------------------------------------------
(* database_pool.h:66: a slot is busy exactly while one request holds it.  *)
THEOREM PoolLeasesExact == PoolSpec => []LeasesExact
<1>1. PoolInv => LeasesExact
  <2>. SUFFICES ASSUME PoolInv, NEW i \in Slots
                PROVE  Cardinality(Holders(i)) = IF slots_[i].busy THEN 1 ELSE 0
    BY DEF LeasesExact
  <2>. USE PoolAssumption DEF PoolInv
  <2>1. CASE slots_[i].busy = TRUE
    <3>1. PICK b \in Borrowers : borrower[b].slot = i
      BY <2>1 DEF Held
    <3>2. Holders(i) = {b}
      BY <3>1 DEF Held, Holders
    <3>. QED
      BY <2>1, <3>2, FS_Singleton
  <2>2. CASE slots_[i].busy = FALSE
    <3>1. Holders(i) = {}
      BY <2>2 DEF Held, Holders
    <3>. QED
      BY <2>2, <3>1, FS_EmptySet
  <2>. QED
    BY <2>1, <2>2 DEF PoolTypes
<1>. QED
  BY PoolStarts, PoolSteps, <1>1, PTL DEF PoolSpec

(* database_pool.h:83 and database.cpp:85: a session that died fails one   *)
(* query and is connected anew before the next.                            *)
THEOREM PoolOneFailurePerBreak == PoolSpec => []OneFailurePerBreak
<1>1. PoolInv => OneFailurePerBreak
  BY DEF PoolInv, FailureSeen, OneFailurePerBreak
<1>. QED
  BY PoolStarts, PoolSteps, <1>1, PTL DEF PoolSpec

(* database_pool.h:66: the pool's leases are exact and a broken session    *)
(* costs one query, for every number of slots and borrowers.               *)
THEOREM PoolStaysSound == PoolSpec => []PoolIsSound
BY PoolLeasesExact, PoolOneFailurePerBreak, PTL DEF PoolIsSound

-----------------------------------------------------------------------------
(* Migrations *)

MigrationSteps == {"idle", "lock", "look", "script", "record", "commit", "rollback"}
MigrationTypes ==
    /\ recorded \in BOOLEAN /\ collided = FALSE
    /\ runner \in [Runners -> [step : MigrationSteps, txn : {"none", "open", "failed"},
                               ran : BOOLEAN, row : BOOLEAN,
                               result : {"none", "applied", "present", "failed"}]]

(* Only a transaction that has the lock is past the look at the table, and *)
(* a runner that is not in a transaction has no lock.                      *)
LockHeld == \A r \in Runners :
    /\ runner[r].step \in {"look", "script", "record", "commit"} => advisoryLock = r
    /\ advisoryLock = r => runner[r].step \notin {"idle", "lock"}
    /\ runner[r].step = "idle" <=> runner[r].txn = "none"

(* What the holder of the lock has done is the script and its row, or      *)
(* nothing because the version is there.                                   *)
HolderKnows == \A r \in Runners :
    /\ runner[r].step \in {"idle", "lock", "look", "script"} =>
          runner[r].ran = FALSE /\ runner[r].row = FALSE
    /\ runner[r].step = "script" => recorded = FALSE
    /\ runner[r].step = "record" =>
          recorded = FALSE /\ runner[r].ran = TRUE /\ runner[r].row = FALSE
    /\ runner[r].step = "commit" =>
          /\ runner[r].ran = runner[r].row
          /\ recorded = FALSE <=> runner[r].ran = TRUE

MigrationInv == MigrationTypes /\ LockHeld /\ HolderKnows /\ ScriptRecordedOnce

(* A COMMIT that takes effect, whether or not its answer arrives. *)
LEMMA CommitCounts ==
    ASSUME MigrationInv, NEW r \in Runners, NEW result \in {"applied", "present", "failed"},
           Doing(r, "commit"), Durable(r), UNCHANGED collided,
           runner' = [runner EXCEPT ![r] = AtEase(result)]
    PROVE  MigrationInv'
<1>. USE RunnersAssumption DEF MigrationInv, MigrationTypes, Doing, AtEase
<1>1. advisoryLock = r /\ advisoryLock' = NoRunner
  BY DEF LockHeld, Durable, Freed
<1>2. \A q \in Runners : q # r => runner[q].step \in {"idle", "lock", "rollback"}
  BY <1>1 DEF LockHeld, MigrationSteps
<1>3. /\ recorded' = TRUE /\ applied' = 1
  BY DEF Durable, HolderKnows, ScriptRecordedOnce
<1>4. MigrationTypes'
  BY <1>3 DEF MigrationSteps
<1>5. LockHeld'
  BY <1>1, <1>2 DEF LockHeld
<1>6. HolderKnows'
  BY <1>2 DEF HolderKnows
<1>7. ScriptRecordedOnce'
  BY <1>3 DEF ScriptRecordedOnce
<1>. QED
  BY <1>4, <1>5, <1>6, <1>7

(* A transaction that ends without effect. *)
LEMMA UndoneCounts ==
    ASSUME MigrationInv, NEW r \in Runners,
           advisoryLock' = Freed(r), UNCHANGED <<applied, recorded, collided>>,
           runner' = [runner EXCEPT ![r] = AtEase("failed")]
    PROVE  MigrationInv'
<1>. USE RunnersAssumption DEF MigrationInv, MigrationTypes, AtEase
<1>1. MigrationTypes'
  BY DEF MigrationSteps
<1>2. LockHeld'
  BY DEF LockHeld, Freed
<1>3. HolderKnows' /\ ScriptRecordedOnce'
  BY DEF HolderKnows, ScriptRecordedOnce
<1>. QED
  BY <1>1, <1>2, <1>3

(* Every statement of every runner keeps the invariant. *)
LEMMA MigrationKeeps == MigrationInv /\ [MigrationNext]_migrationVars => MigrationInv'
<1>. SUFFICES ASSUME MigrationInv, [MigrationNext]_migrationVars PROVE MigrationInv'
  OBVIOUS
<1>. USE RunnersAssumption DEF MigrationInv, MigrationTypes, MigrationSteps, Doing, Proceeds
<1>1. ASSUME NEW r \in Runners, BeginMigration(r) PROVE MigrationInv'
  BY <1>1 DEF BeginMigration, AtEase, LockHeld, HolderKnows, ScriptRecordedOnce
<1>2. ASSUME NEW r \in Runners, TakeLock(r) PROVE MigrationInv'
  <2>1. \A q \in Runners : runner[q].step \in {"idle", "lock", "rollback"}
    BY <1>2 DEF TakeLock, LockHeld
  <2>. QED
    BY <1>2, <2>1 DEF TakeLock, LockHeld, HolderKnows, ScriptRecordedOnce
<1>3. ASSUME NEW r \in Runners, LookUp(r) PROVE MigrationInv'
  BY <1>3 DEF LookUp, LockHeld, HolderKnows, ScriptRecordedOnce
<1>4. ASSUME NEW r \in Runners, run_script(r) PROVE MigrationInv'
  BY <1>4 DEF run_script, LockHeld, HolderKnows, ScriptRecordedOnce
<1>5. ASSUME NEW r \in Runners, Record(r) PROVE MigrationInv'
  <2>1. /\ runner[r].step = "record" /\ UNCHANGED <<applied, recorded, advisoryLock, collided>>
        /\ runner' = [runner EXCEPT ![r].step = "commit", ![r].row = TRUE]
    BY <1>5 DEF Record, HolderKnows
  <2>2. /\ runner'[r].step = "commit" /\ runner'[r].txn = runner[r].txn
        /\ runner'[r].ran = TRUE /\ runner'[r].row = TRUE /\ recorded = FALSE
        /\ \A q \in Runners : q # r => runner'[q] = runner[q]
    BY <2>1 DEF HolderKnows
  <2>3. MigrationTypes'
    BY <2>1
  <2>4. LockHeld'
    BY <2>1, <2>2 DEF LockHeld
  <2>5. HolderKnows'
    BY <2>1, <2>2 DEF HolderKnows
  <2>. QED
    BY <2>1, <2>3, <2>4, <2>5 DEF ScriptRecordedOnce
<1>6. ASSUME NEW r \in Runners, CommitMigration(r) PROVE MigrationInv'
  BY <1>6, CommitCounts DEF CommitMigration
<1>7. ASSUME NEW r \in Runners, RollbackMigration(r) PROVE MigrationInv'
  BY <1>7, UndoneCounts DEF RollbackMigration
<1>8. ASSUME NEW r \in Runners, StatementRefused(r) PROVE MigrationInv'
  <2>1. /\ runner[r].step \in InTransaction /\ UNCHANGED <<applied, recorded, advisoryLock, collided>>
        /\ runner' = [runner EXCEPT ![r].step = "rollback", ![r].txn = "failed"]
    BY <1>8 DEF StatementRefused
  <2>2. /\ runner[r].step # "idle" /\ runner'[r].step = "rollback" /\ runner'[r].txn = "failed"
        /\ \A q \in Runners : q # r => runner'[q] = runner[q]
    BY <2>1 DEF InTransaction
  <2>3. MigrationTypes'
    BY <2>1
  <2>4. LockHeld'
    BY <2>1, <2>2 DEF LockHeld
  <2>5. HolderKnows'
    BY <2>1, <2>2 DEF HolderKnows
  <2>. QED
    BY <2>1, <2>3, <2>4, <2>5 DEF ScriptRecordedOnce
<1>9. ASSUME NEW r \in Runners, ConnectionLost(r) PROVE MigrationInv'
  BY <1>9, CommitCounts, UndoneCounts DEF ConnectionLost
<1>10. CASE UNCHANGED migrationVars
  BY <1>10 DEF migrationVars, LockHeld, HolderKnows, ScriptRecordedOnce
<1>. QED
  BY <1>1, <1>2, <1>3, <1>4, <1>5, <1>6, <1>7, <1>8, <1>9, <1>10 DEF MigrationNext

(* database.cpp, apply_migration: for any number of runners, refusals and  *)
(* lost connections the script takes effect once and is recorded when it   *)
(* has, no runner meets another's row, and a runner that has returned has  *)
(* neither a transaction nor the lock.                                     *)
THEOREM MigrationsApplyOnce == MigrationSpec => []MigratesOnce
<1>1. MigrationInit => MigrationInv
  <2>. SUFFICES ASSUME MigrationInit PROVE MigrationInv
    OBVIOUS
  <2>. USE RunnersAssumption DEF MigrationInit, AtEase
  <2>1. MigrationTypes
    BY DEF MigrationTypes, MigrationSteps
  <2>2. LockHeld /\ HolderKnows /\ ScriptRecordedOnce
    BY DEF LockHeld, HolderKnows, ScriptRecordedOnce
  <2>. QED
    BY <2>1, <2>2 DEF MigrationInv
<1>2. MigrationInv => MigratesOnce
  BY DEF MigrationInv, MigrationTypes, LockHeld, Doing, MigratesOnce, RunnersDoNotCollide,
     SessionLeftClean
<1>. QED
  BY <1>1, <1>2, MigrationKeeps, PTL DEF MigrationSpec

=============================================================================

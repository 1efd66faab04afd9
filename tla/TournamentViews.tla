-------------------------- MODULE TournamentViews --------------------------
(***************************************************************************)
(* The tournament routes and the cache behind the public state route:      *)
(* src/application/tournament_service.cpp.  What an event looks like is    *)
(* the number of changes committed to it; a state frame is the number of   *)
(* changes it shows.  Which changes the manager accepts is module          *)
(* Tournament's.                                                           *)
(*                                                                         *)
(* A reader keeps the cache's mutex from the lookup until its frame is     *)
(* stored, its query included.  A writer commits first and takes the mutex *)
(* afterwards to empty the cache, then acknowledges.                       *)
(***************************************************************************)
EXTENDS Integers, FiniteSets, Functions, FiniteSetsExt

CONSTANTS Visitors,       \* requests in flight, one per thread of the pool
          Events,         \* tournaments
          CacheCapacity,  \* entries at which the cache is emptied (128)
          MaxChanges      \* bound: changes committed to one event

(* 0 stands for no visitor at all. *)
ASSUME ViewsAssumption == {CacheCapacity, MaxChanges} \subseteq Nat \ {0} /\ 0 \notin Visitors

VARIABLES changes,        \* event -> changes committed, 0 before it is created
          state_cache_,   \* event -> [frame, fresh], for the events that have an entry
          cacheHolder,    \* visitor that holds state_cache_mutex_, or Nobody
          visitor,        \* visitor -> [step, event, frame, floor]
          acked,          \* event -> last change whose author was told of it
          seen            \* event -> newest frame anybody was sent

viewVars == <<changes, state_cache_, cacheHolder, visitor, acked, seen>>

Nobody == 0
AtHome == [step |-> "idle", event |-> 0, frame |-> 0, floor |-> [acked |-> 0, seen |-> 0]]
EmptyCache == [e \in {} |-> AtHome]

ViewsInit == /\ changes = [e \in Events |-> 0]
             /\ state_cache_ = EmptyCache
             /\ cacheHolder = Nobody
             /\ visitor = [v \in Visitors |-> AtHome]
             /\ acked = [e \in Events |-> 0]
             /\ seen = [e \in Events |-> 0]

At(v, step) == visitor[v].step = step
Continues(v, step) == visitor' = [visitor EXCEPT ![v].step = step]
Leaves(v) == visitor' = [visitor EXCEPT ![v] = AtHome]
Changed(e) == changes[e] < MaxChanges /\ changes' = [changes EXCEPT ![e] = @ + 1]

-----------------------------------------------------------------------------
(* create_tournament empties the cache before it looks at anything; a name *)
(* that is taken or a schedule that is refused creates no row.             *)
create_tournament(v) ==
    /\ At(v, "idle") /\ cacheHolder = Nobody
    /\ state_cache_' = EmptyCache
    /\ visitor' = [visitor EXCEPT ![v] = [AtHome EXCEPT !.step = "create"]]
    /\ UNCHANGED <<changes, cacheHolder, acked, seen>>

InsertTournament(v) ==
    /\ At(v, "create")
    /\ \/ \E e \in Events : /\ changes[e] = 0 /\ \A d \in Events : d < e => changes[d] > 0
                            /\ Changed(e)
                            /\ acked' = [acked EXCEPT ![e] = 1]
       \/ UNCHANGED <<changes, acked>>
    /\ Leaves(v)
    /\ UNCHANGED <<state_cache_, cacheHolder, seen>>

(* join, leave, start, set_registration, check_in_round and                *)
(* report_tournament_result: the change is committed, or refused with      *)
(* nothing done.  A request can also be refused after some of its work was *)
(* committed (a check-in whose room fails, a COMMIT whose answer is lost): *)
(* that is a change nobody is told of, and no reason to empty the cache.   *)
Change(v) ==
    /\ At(v, "idle")
    /\ \E e \in {d \in Events : changes[d] > 0} :
          /\ Changed(e)
          /\ \/ visitor' = [visitor EXCEPT ![v] = [AtHome EXCEPT !.step = "invalidate", !.event = e,
                                                                 !.frame = changes[e] + 1]]
             \/ UNCHANGED visitor
    /\ UNCHANGED <<state_cache_, cacheHolder, acked, seen>>

invalidate_state_cacheMutant(v) ==
    /\ At(v, "invalidate") /\ cacheHolder = Nobody
    /\ Continues(v, "acknowledge")
    /\ UNCHANGED <<changes, state_cache_, cacheHolder, acked, seen>>
invalidate_state_cache(v) ==
    /\ At(v, "invalidate") /\ cacheHolder = Nobody
    /\ state_cache_' = EmptyCache
    /\ Continues(v, "acknowledge")
    /\ UNCHANGED <<changes, cacheHolder, acked, seen>>

Acknowledge(v) ==
    LET e == visitor[v].event
    IN  /\ At(v, "acknowledge")
        /\ acked' = [acked EXCEPT ![e] = Max({@, visitor[v].frame})]
        /\ Leaves(v)
        /\ UNCHANGED <<changes, state_cache_, cacheHolder, seen>>

(* The maintenance pass, a finished game and a closed connection change    *)
(* events as well, and leave the cache to run out.                         *)
BackgroundChange ==
    /\ \E e \in {d \in Events : changes[d] > 0} : Changed(e)
    /\ UNCHANGED <<state_cache_, cacheHolder, visitor, acked, seen>>

-----------------------------------------------------------------------------
(* tournament_state: a fresh entry is copied and the mutex given back, and *)
(* otherwise the visitor goes to the database with the mutex held.  floor  *)
(* is what the request may count on, as it stood when the request came in. *)
RequestState(v) ==
    /\ At(v, "idle")
    /\ \E e \in Events :
          visitor' = [visitor EXCEPT ![v] = [step |-> "lookup", event |-> e, frame |-> 0,
                                             floor |-> [acked |-> acked[e], seen |-> seen[e]]]]
    /\ UNCHANGED <<changes, state_cache_, cacheHolder, acked, seen>>

Cached(e) == e \in DOMAIN state_cache_ /\ state_cache_[e].fresh

Lookup(v) ==
    LET e == visitor[v].event
    IN  /\ At(v, "lookup") /\ cacheHolder = Nobody
        /\ \/ /\ Cached(e)
              /\ visitor' = [visitor EXCEPT ![v].step = "send", ![v].frame = state_cache_[e].frame]
              /\ UNCHANGED cacheHolder
           \/ /\ ~Cached(e)
              /\ Continues(v, "read")
              /\ cacheHolder' = v
        /\ UNCHANGED <<changes, state_cache_, acked, seen>>

(* read_tournament_snapshot is one SELECT, so the frame is one state of    *)
(* the event.  No row, or a query that failed, is answered with an error   *)
(* and not cached.                                                         *)
ReadSnapshot(v) ==
    LET e == visitor[v].event
    IN  /\ At(v, "read")
        /\ \/ /\ changes[e] > 0
              /\ visitor' = [visitor EXCEPT ![v].step = "store", ![v].frame = changes[e]]
              /\ UNCHANGED cacheHolder
           \/ Leaves(v) /\ cacheHolder' = Nobody
        /\ UNCHANGED <<changes, state_cache_, acked, seen>>

(* The size test comes before the assignment. *)
RoomForEntry == IF Cardinality(DOMAIN state_cache_) >= CacheCapacity THEN EmptyCache ELSE state_cache_

StoreFrame(v) ==
    LET e == visitor[v].event
        entry == [frame |-> visitor[v].frame, fresh |-> TRUE]
    IN  /\ At(v, "store")
        /\ state_cache_' = [d \in DOMAIN RoomForEntry \cup {e} |-> IF d = e THEN entry ELSE RoomForEntry[d]]
        /\ cacheHolder' = Nobody
        /\ Continues(v, "send")
        /\ UNCHANGED <<changes, acked, seen>>

SendState(v) ==
    LET e == visitor[v].event
    IN  /\ At(v, "send")
        /\ seen' = [seen EXCEPT ![e] = Max({@, visitor[v].frame})]
        /\ Leaves(v)
        /\ UNCHANGED <<changes, state_cache_, cacheHolder, acked>>

(* Half a second after an entry was stored it is there but not used. *)
EntryExpires ==
    /\ \E e \in DOMAIN state_cache_ : /\ state_cache_[e].fresh
                                      /\ state_cache_' = [state_cache_ EXCEPT ![e].fresh = FALSE]
    /\ UNCHANGED <<changes, cacheHolder, visitor, acked, seen>>

ViewsNext == \/ \E v \in Visitors :
                  \/ create_tournament(v) \/ InsertTournament(v)
                  \/ Change(v) \/ invalidate_state_cache(v) \/ Acknowledge(v)
                  \/ RequestState(v) \/ Lookup(v) \/ ReadSnapshot(v) \/ StoreFrame(v) \/ SendState(v)
             \/ BackgroundChange \/ EntryExpires

ViewsSpec == ViewsInit /\ [][ViewsNext]_viewVars

-----------------------------------------------------------------------------
Answering == {v \in Visitors : visitor[v].step = "send"}

(* Whoever asks for an event after a change to it was acknowledged sees    *)
(* that change, although readers that began earlier may still be filling   *)
(* the cache with what was there before.                                   *)
AcknowledgedIsVisible == \A v \in Answering : visitor[v].frame >= visitor[v].floor.acked

(* Nobody who asks after a frame was sent gets an older one, whichever of  *)
(* the two came from the cache: what the page shows never goes back.       *)
FramesMoveForward == \A v \in Answering : visitor[v].frame >= visitor[v].floor.seen

(* Entries that ran out stay until the cache is emptied; it never holds    *)
(* more events than its limit.                                             *)
CacheBounded == Cardinality(DOMAIN state_cache_) <= CacheCapacity

(* The cache shows whatever was acknowledged, takes nobody back in time,   *)
(* and stays within its capacity.                                          *)
ViewsAreCurrent == AcknowledgedIsVisible /\ FramesMoveForward /\ CacheBounded

=============================================================================

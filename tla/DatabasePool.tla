---------------------------- MODULE DatabasePool ----------------------------
(***************************************************************************)
(* The bounded pool of read connections: src/storage/database_pool.h, and  *)
(* the one borrower it has, the identity check of every request that needs *)
(* a player (src/application/auth/identity_extractor.cpp).                 *)
(*                                                                         *)
(* Choosing a slot is one critical section.  Connecting, the query and the *)
(* reset before a slot is given back run outside the pool's mutex, on a    *)
(* slot that is marked busy.  The database goes away and comes back at any *)
(* time; a session notices when it is used.                                *)
(***************************************************************************)
EXTENDS Integers, FiniteSets

CONSTANTS Borrowers,      \* requests in flight, one per thread of the pool
          Slots,          \* sessions the pool is opened with, 1..n
          MaxOutages      \* bound: times the database goes away

ASSUME PoolAssumption == Slots # {} /\ Slots \subseteq Nat \ {0} /\ MaxOutages \in Nat

VARIABLES slots_,         \* slot -> [busy, healthy, alive]
          reachable,      \* a new connection would be accepted
          borrower,       \* request -> [step, slot, answer]
          failures,       \* slot -> queries failed since it was last connected
          outages

poolVars == <<slots_, reachable, borrower, failures, outages>>

AtRest == [step |-> "idle", slot |-> 0, answer |-> "none"]
Session(busy, healthy, alive) == [busy |-> busy, healthy |-> healthy, alive |-> alive]

(* connect_from_env: every connection or no server. *)
PoolInit == /\ slots_ = [i \in Slots |-> Session(FALSE, TRUE, TRUE)]
            /\ reachable = TRUE
            /\ borrower = [b \in Borrowers |-> AtRest]
            /\ failures = [i \in Slots |-> 0]
            /\ outages = 0

-----------------------------------------------------------------------------
FreeSlots == {i \in Slots : ~slots_[i].busy}
Goes(b, step, slot) == borrower' = [borrower EXCEPT ![b] = [@ EXCEPT !.step = step, !.slot = slot]]

(* The first healthy slot; if there is none, the first one to repair. *)
PreferredMutant == {i \in Slots : slots_[i].healthy}
Preferred == LET healthy == {i \in FreeSlots : slots_[i].healthy}
                 first(S) == {i \in S : \A j \in S : i <= j}
             IN  IF healthy # {} THEN first(healthy) ELSE first(FreeSlots)

acquire(b) ==
    /\ borrower[b].step = "idle"
    /\ \E i \in Preferred :
          /\ slots_' = [slots_ EXCEPT ![i].busy = TRUE]
          /\ Goes(b, IF slots_[i].healthy THEN "query" ELSE "repair", i)
    /\ UNCHANGED <<reachable, failures, outages>>

(* wait_for runs out while every slot is busy. *)
acquire_timeout(b) ==
    /\ borrower[b].step = "idle" /\ FreeSlots = {}
    /\ borrower' = [borrower EXCEPT ![b] = [AtRest EXCEPT !.step = "answer", !.answer = "unavailable"]]
    /\ UNCHANGED <<slots_, reachable, failures, outages>>

(* A failed repair gives the slot back through the lease's destructor. *)
repair(b) ==
    LET i == borrower[b].slot
    IN  /\ borrower[b].step = "repair"
        /\ \/ /\ reachable
              /\ slots_' = [slots_ EXCEPT ![i] = Session(TRUE, TRUE, TRUE)]
              /\ failures' = [failures EXCEPT ![i] = 0]
              /\ Goes(b, "query", i)
           \/ /\ ~reachable
              /\ borrower' = [borrower EXCEPT ![b] = [@ EXCEPT !.step = "reset",
                                                               !.answer = "unavailable"]]
              /\ UNCHANGED <<slots_, failures>>
        /\ UNCHANGED <<reachable, outages>>

(* extract: one SELECT tells whether the account is there and which epoch  *)
(* its tokens must have.                                                   *)
query(b) ==
    LET i == borrower[b].slot
    IN  /\ borrower[b].step = "query"
        /\ \/ /\ slots_[i].alive
              /\ \E verdict \in {"identity", "refused"} :
                    borrower' = [borrower EXCEPT ![b].step = "reset", ![b].answer = verdict]
              /\ UNCHANGED failures
           \/ /\ ~slots_[i].alive
              /\ borrower' = [borrower EXCEPT ![b].step = "reset", ![b].answer = "unavailable"]
              /\ failures' = [failures EXCEPT ![i] = @ + 1]
        /\ UNCHANGED <<slots_, reachable, outages>>

(* release: reset_for_reuse decides what the slot is worth, still without  *)
(* the mutex; no borrower leaves a transaction open.                       *)
reset_for_reuse(i) == slots_[i].alive
reset(b) ==
    LET i == borrower[b].slot
    IN  /\ borrower[b].step = "reset"
        /\ Goes(b, IF reset_for_reuse(i) THEN "keep" ELSE "quarantine", i)
        /\ UNCHANGED <<slots_, reachable, failures, outages>>

release(b) ==
    LET i == borrower[b].slot
    IN  /\ borrower[b].step \in {"keep", "quarantine"}
        /\ slots_' = [slots_ EXCEPT ![i] = Session(FALSE, borrower[b].step = "keep", @.alive)]
        /\ Goes(b, "answer", 0)
        /\ UNCHANGED <<reachable, failures, outages>>

(* The request goes on with its answer and its thread takes another. *)
answer(b) ==
    /\ borrower[b].step = "answer"
    /\ borrower' = [borrower EXCEPT ![b] = AtRest]
    /\ UNCHANGED <<slots_, reachable, failures, outages>>

-----------------------------------------------------------------------------
(* The database goes away and takes every session with it, or only some. *)
Outage ==
    /\ outages < MaxOutages /\ outages' = outages + 1
    /\ \E dead \in (SUBSET Slots) \ {{}} :
          slots_' = [i \in Slots |-> IF i \in dead THEN [slots_[i] EXCEPT !.alive = FALSE] ELSE slots_[i]]
    /\ reachable' \in BOOLEAN
    /\ UNCHANGED <<borrower, failures>>

Recovery == /\ ~reachable /\ reachable' = TRUE
            /\ UNCHANGED <<slots_, borrower, failures, outages>>

PoolNext == \/ \E b \in Borrowers : \/ acquire(b) \/ acquire_timeout(b) \/ repair(b)
                                    \/ query(b) \/ reset(b) \/ release(b) \/ answer(b)
            \/ Outage \/ Recovery

PoolSpec == PoolInit /\ [][PoolNext]_poolVars

-----------------------------------------------------------------------------
Holders(i) == {b \in Borrowers : borrower[b].slot = i}

(* A session is used by one request at a time, through repair, query and   *)
(* reset; and a slot nobody holds is free for the next request, whichever  *)
(* way its last lease ended: the pool never runs dry.                      *)
LeasesExact == \A i \in Slots : Cardinality(Holders(i)) = (IF slots_[i].busy THEN 1 ELSE 0)

(* A session that has died costs one request, not every request that meets *)
(* it: release quarantines it, and it is connected anew before it is used  *)
(* again.                                                                  *)
OneFailurePerBreak == \A i \in Slots : failures[i] <= 1

(* A slot is leased to one request at a time, comes back however the lease *)
(* ends, and fails once at most before it is repaired.                     *)
PoolIsSound == LeasesExact /\ OneFailurePerBreak

=============================================================================

-------------------------- MODULE TournamentSeats --------------------------
(***************************************************************************)
(* From a check-in to a seat at the board: the tournament runtime service  *)
(* (src/application/tournament_runtime_service.cpp) for one pairing of one *)
(* round, with the room manager's table of pairings.                       *)
(*                                                                         *)
(* Rows (check-ins, the pairing) survive a restart; pending seats and      *)
(* rooms are memory.  Left out: the reservation that keeps the players out *)
(* of other games, and the table that spares them repeated notices.  Three *)
(* threads of control meet here: check-ins of the two players'             *)
(* connections, the disconnect callback of a connection, and the           *)
(* maintenance pass.  A check-in and the pass both materialise the room    *)
(* (ensure_live_rooms) under one mutex; a check-in looks the room up       *)
(* without it.  The deadlines, the no-show decision and the standings are  *)
(* the business of module Tournament; here the round goes live and the     *)
(* pairing is decided at any time.                                         *)
(***************************************************************************)
EXTENDS Integers, Sequences, SequencesExt, FiniteSets

CONSTANTS Lines,          \* descriptors
          MaxSockets,     \* bound: connections made in a run
          MaxUpsets       \* bound: restarts and failing statements together

(* Descriptor 0 stands for none: PendingSeat and Seat start with -1.       *)
ASSUME SeatsAssumption == Lines \subseteq Nat \ {0} /\ {MaxSockets, MaxUpsets} \subseteq Nat

Sides == {"white", "black"}
None == [fd |-> 0, gen |-> 0]
Pass == 0                 \* the maintenance pass as owner of the mutex

VARIABLES line,           \* descriptor -> [player, gen] connected on it
          handler,        \* descriptor -> step of its check-in or disconnect
          sockets_made, upsets,
          round_live, decided, game_id, checkins,       \* rows
          pending_seats_,
          shells,         \* rooms of the pairing ever made
          pairing_room,   \* tournament_pairing_rooms_: index, 0 for none
          next_id_,
          pass,           \* step of the maintenance pass
          owner,          \* materialization_mutex_, with the owner's step
          history         \* what happened: numbers recorded, and two facts

seatRows == <<round_live, decided, game_id, checkins>>
seatMemory == <<pending_seats_, shells, pairing_room, next_id_>>
seatVars == <<line, handler, sockets_made, upsets, seatRows,
              seatMemory, pass, owner, history>>
seatBounds == <<sockets_made, upsets>>

Unlocked == [by |-> -1, step |-> "none"]
NoOne == [player |-> "white", gen |-> 0]
IdleHandler == [step |-> "idle", gone |-> {}]
IdlePass == [step |-> "idle", late |-> FALSE, copy |-> [p \in Sides |-> None]]
EmptySeat == [fd |-> 0, gen |-> 0, connected |-> FALSE, checked_in |-> FALSE]

SeatsInit ==
    /\ line = [f \in Lines |-> NoOne] /\ handler = [f \in Lines |-> IdleHandler]
    /\ sockets_made = 0 /\ upsets = 0
    /\ round_live = FALSE /\ decided = FALSE /\ game_id = 0 /\ checkins = {}
    /\ pending_seats_ = [p \in Sides |-> None]
    /\ shells = <<>> /\ pairing_room = 0 /\ next_id_ = 1
    /\ pass = IdlePass /\ owner = Unlocked
    /\ history = [issued |-> {}, reissued |-> FALSE, swept |-> FALSE]

Upset == upsets < MaxUpsets /\ upsets' = upsets + 1

-----------------------------------------------------------------------------
(* GameRoom's side: bind_reserved_player and open_reserved. *)
Started(r) == r.open /\ r.state = "WAITING" /\ \A p \in Sides : r.seat[p].connected
StartIfReady(r) == IF Started(r) THEN [r EXCEPT !.state = "IN_PROGRESS"] ELSE r
BindsTo(r, p, fd, gen, replace) ==
    LET s == r.seat[p]
    IN  /\ r.state # "FINISHED" /\ s.checked_in /\ gen >= s.gen
        /\ ~s.connected \/ s.fd = fd \/ replace
Bound(r, p, fd, gen, replace) ==
    IF ~BindsTo(r, p, fd, gen, replace) THEN r
    ELSE StartIfReady([r EXCEPT !.seat[p] =
                          [@ EXCEPT !.fd = fd, !.gen = gen, !.connected = TRUE]])
Allowed(r, ps) == [r EXCEPT !.seat = [p \in Sides |->
                      [r.seat[p] EXCEPT !.checked_in = @ \/ p \in ps]]]

(* notify_room: the connected seats are told.  Once the game is on the     *)
(* pending seats of both are done with.                                    *)
notify_room(r) ==
    pending_seats_' = IF r.state = "IN_PROGRESS" THEN [p \in Sides |-> None] ELSE pending_seats_

find_room_by_pairing == pairing_room

(* ensure_next_id_above the greatest room number on record. *)
ensure_next_id_above(id) == IF id > game_id THEN id ELSE game_id + 1
NextId == ensure_next_id_above(next_id_)

-----------------------------------------------------------------------------
(* Connections come and go; the lowest descriptor not in use is the next   *)
(* connection's.                                                           *)
Connect(f, p) ==
    /\ line[f].gen = 0 /\ handler[f] = IdleHandler /\ sockets_made < MaxSockets
    /\ \A d \in Lines : d < f => line[d].gen # 0 \/ handler[d] # IdleHandler
    /\ sockets_made' = sockets_made + 1
    /\ line' = [line EXCEPT ![f] = [player |-> p, gen |-> sockets_made + 1]]
    /\ UNCHANGED <<handler, upsets, seatRows, seatMemory, pass, owner, history>>

(* check_in_and_bind, one step per lock or statement. *)
Step(f, from, to) == /\ handler[f].step = from
                     /\ handler' = [handler EXCEPT ![f].step = to]

CheckIn(f) ==
    /\ line[f].gen # 0
    /\ \/ /\ Step(f, "idle", "seat")
          /\ ~decided
          /\ checkins' = checkins \cup {line[f].player}
          /\ UNCHANGED upsets
       \/ /\ Step(f, "idle", "idle")
          /\ Upset
          /\ UNCHANGED checkins
    /\ UNCHANGED <<line, sockets_made, round_live, decided, game_id,
                   seatMemory, pass, owner, history>>

TakePendingSeatMutant(f) ==
    LET p == line[f].player
    IN  /\ Step(f, "seat", "look")
        /\ pending_seats_' = [pending_seats_ EXCEPT ![p] = [fd |-> f, gen |-> line[f].gen]]
        /\ UNCHANGED <<line, seatBounds, seatRows, shells, pairing_room, next_id_, pass, owner, history>>
TakePendingSeat(f) ==
    LET p == line[f].player
    IN  /\ \/ /\ line[f].gen >= pending_seats_[p].gen
              /\ Step(f, "seat", "look")
              /\ pending_seats_' = [pending_seats_ EXCEPT ![p] = [fd |-> f, gen |-> line[f].gen]]
           \/ /\ line[f].gen < pending_seats_[p].gen
              /\ Step(f, "seat", "idle")
              /\ UNCHANGED pending_seats_
        /\ UNCHANGED <<line, seatBounds, seatRows, shells, pairing_room, next_id_, pass, owner, history>>

(* Before the round is live, or once the pairing is decided, attendance is *)
(* all there is.  Otherwise the room is looked up, made if there is none,  *)
(* and looked up again.                                                    *)
LookForRoom(f) ==
    /\ \/ Step(f, "look", "idle") /\ (~round_live \/ decided) /\ UNCHANGED owner
       \/ Step(f, "look", "bind") /\ round_live /\ ~decided /\ find_room_by_pairing # 0
          /\ UNCHANGED owner
       \/ /\ Step(f, "look", "materialise")
          /\ round_live /\ ~decided /\ find_room_by_pairing = 0
          /\ owner = Unlocked /\ owner' = [by |-> f, step |-> "create"]
       \/ Step(f, "again", "bind") /\ find_room_by_pairing # 0 /\ UNCHANGED owner
       \/ Step(f, "again", "idle") /\ find_room_by_pairing = 0 /\ UNCHANGED owner
    /\ UNCHANGED <<line, seatBounds, seatRows, seatMemory, pass, history>>

(* The shared pointer found keeps the room, in the registry or not: every  *)
(* room found is the last one made.                                        *)
Bind(f) ==
    LET p == line[f].player
        i == Len(shells)
        admitted == IF shells[i].state = "FINISHED" THEN shells[i] ELSE Allowed(shells[i], {p})
        r == Bound(admitted, p, f, line[f].gen, TRUE)
    IN  /\ Step(f, "bind", "idle")
        /\ shells' = [shells EXCEPT ![i] = r]
        /\ IF BindsTo(admitted, p, f, line[f].gen, TRUE)
           THEN notify_room(r) ELSE UNCHANGED pending_seats_
        /\ UNCHANGED <<line, seatBounds, seatRows, pairing_room, next_id_,
                       pass, owner, history>>

-----------------------------------------------------------------------------
(* ensure_live_rooms, by a check-in or by the pass, under the mutex. *)
Finish(by) ==
    IF by = Pass THEN pass' = [pass EXCEPT !.step = "shells"] /\ UNCHANGED handler
    ELSE handler' = [handler EXCEPT ![by].step = "again"] /\ UNCHANGED pass

CreateRoom ==
    /\ owner.step = "create"
    /\ LET playing == pairing_room # 0 /\ shells[pairing_room].state = "IN_PROGRESS"
       IN  \/ /\ ~round_live \/ decided \/ playing
              /\ owner' = Unlocked /\ Finish(owner.by)
              /\ next_id_' = NextId
              /\ UNCHANGED <<shells, pairing_room>>
           \/ /\ round_live /\ ~decided /\ ~playing
              /\ IF pairing_room = 0
                 THEN /\ shells' = Append(shells, [id |-> NextId, state |-> "WAITING", open |-> FALSE,
                                                   seat |-> [p \in Sides |-> EmptySeat]])
                      /\ pairing_room' = Len(shells) + 1
                      /\ next_id_' = NextId + 1
                      /\ owner' = [owner EXCEPT !.step = "record"]
                 ELSE /\ owner' = [owner EXCEPT !.step = "open"]
                      /\ next_id_' = NextId
                      /\ UNCHANGED <<shells, pairing_room>>
              /\ UNCHANGED <<handler, pass>>
    /\ UNCHANGED <<line, seatBounds, seatRows, pending_seats_, history>>

(* set_pairing_game_id: a failure, or a pairing decided meanwhile, takes   *)
(* the room out of the registry again.                                     *)
RecordRoom ==
    /\ owner.step = "record"
    /\ LET r == shells[pairing_room]
       IN  \/ /\ ~decided
              /\ game_id' = r.id
              /\ owner' = [owner EXCEPT !.step = "open"]
              /\ history' = [history EXCEPT !.issued = @ \cup {r.id},
                                            !.reissued = @ \/ r.id \in history.issued]
              /\ UNCHANGED <<handler, pass, upsets, pairing_room>>
           \/ /\ \/ decided /\ UNCHANGED upsets
                 \/ Upset
              /\ pairing_room' = 0
              /\ owner' = Unlocked /\ Finish(owner.by)
              /\ UNCHANGED <<game_id, history>>
    /\ UNCHANGED <<line, sockets_made, round_live, decided, checkins,
                   pending_seats_, shells, next_id_>>

(* The check-ins are read and admitted, the waiting seats bound            *)
(* (bind_pending), the room opened and its players told.                   *)
BindPending(r) ==
    LET bind(room, p) == IF pending_seats_[p] = None THEN room
                         ELSE Bound(room, p, pending_seats_[p].fd, pending_seats_[p].gen, FALSE)
    IN  bind(bind(r, "white"), "black")
OpenRoom ==
    /\ owner.step = "open"
    /\ LET i == Len(shells)
           r == StartIfReady([BindPending(Allowed(shells[i], checkins)) EXCEPT !.open = TRUE])
       IN  /\ shells' = [shells EXCEPT ![i] = r]
           /\ notify_room(r)
    /\ owner' = Unlocked /\ Finish(owner.by)
    /\ UNCHANGED <<line, seatBounds, seatRows, pairing_room, next_id_, history>>

-----------------------------------------------------------------------------
(* run_maintenance_locked: the manager's tick, then the rooms, then the    *)
(* waiting rooms of decided pairings, then the pending seats of those.     *)
(* late: the pairing was decided before this pass went on to the rooms.    *)
PassStep(from, to) == pass.step = from /\ pass' = [pass EXCEPT !.step = to]

ManagerTick ==
    /\ pass.step = "idle"
    /\ round_live' \in {round_live, TRUE}
    /\ decided' \in {decided, decided \/ round_live}
    /\ pass' = [pass EXCEPT !.step = "ensure", !.late = decided']
    /\ UNCHANGED <<line, handler, seatBounds, game_id, checkins, seatMemory, owner, history>>

PassEnsures ==
    /\ PassStep("ensure", "materialise")
    /\ owner = Unlocked /\ owner' = [by |-> Pass, step |-> "create"]
    /\ UNCHANGED <<line, handler, seatBounds, seatRows, seatMemory, history>>

(* A waiting room is noted first, its pairing read afterwards. *)
FindShell ==
    /\ LET waiting == pairing_room # 0 /\ shells[pairing_room].state = "WAITING"
       IN  PassStep("shells", IF waiting THEN "judge" ELSE "copy")
    /\ UNCHANGED <<line, handler, seatBounds, seatRows, seatMemory, owner, history>>

RemoveShell ==
    /\ PassStep("judge", "copy")
    /\ pairing_room' = IF decided THEN 0 ELSE pairing_room
    /\ UNCHANGED <<line, handler, seatBounds, seatRows, pending_seats_, shells, next_id_, owner, history>>

CopyPending ==
    /\ pass.step = "copy"
    /\ pass' = [pass EXCEPT !.step = "erase", !.copy = pending_seats_]
    /\ UNCHANGED <<line, handler, seatBounds, seatRows, seatMemory, owner, history>>

(* A seat is erased when its pairing is decided and it is still the copied *)
(* one, as far as its descriptor tells.                                    *)
ErasePending ==
    /\ pass.step = "erase"
    /\ LET stale == {p \in Sides : /\ decided /\ pass.copy[p] # None
                                   /\ pending_seats_[p].fd = pass.copy[p].fd}
       IN  /\ pending_seats_' = [p \in Sides |-> IF p \in stale THEN None ELSE pending_seats_[p]]
    /\ pass' = IdlePass
    /\ history' = [history EXCEPT !.swept = @ \/ pass.late]
    /\ UNCHANGED <<line, handler, seatBounds, seatRows, shells,
                   pairing_room, next_id_, owner>>

(* on_tournament_game_persisted: the result is recorded and both players   *)
(* are released.                                                           *)
GamePersisted ==
    /\ pairing_room # 0 /\ shells[pairing_room].state = "IN_PROGRESS"
    /\ shells' = [shells EXCEPT ![pairing_room].state = "FINISHED"]
    /\ decided' = TRUE
    /\ UNCHANGED <<line, handler, seatBounds, round_live, game_id, checkins, pending_seats_,
                   pairing_room, next_id_, pass, owner, history>>

-----------------------------------------------------------------------------
(* The disconnect callback: the room's seat, then the pending seat and the *)
(* notices under the lock, then the check-in row and the reservation.  The *)
(* descriptor is free for another connection when it has returned.         *)
DropSeat(f) ==
    /\ line[f].gen # 0 /\ Step(f, "idle", "forget")
    /\ shells' = IF pairing_room = 0 THEN shells
                 ELSE [shells EXCEPT ![pairing_room].seat = [p \in Sides |->
                          IF @[p].fd = f THEN [@[p] EXCEPT !.fd = 0, !.connected = FALSE] ELSE @[p]]]
    /\ UNCHANGED <<line, seatBounds, seatRows, pending_seats_, pairing_room, next_id_, pass, owner, history>>

ForgetPending(f) ==
    LET gone == {p \in Sides : pending_seats_[p].fd = f}
    IN  /\ handler[f].step = "forget"
        /\ handler' = [handler EXCEPT ![f] = [step |-> "withdraw", gone |-> gone]]
        /\ pending_seats_' = [p \in Sides |-> IF p \in gone THEN None ELSE pending_seats_[p]]
        /\ UNCHANGED <<line, seatBounds, seatRows, shells, pairing_room,
                       next_id_, pass, owner, history>>

Withdraw(f) ==
    /\ handler[f].step = "withdraw"
    /\ checkins' = checkins \ handler[f].gone
    /\ handler' = [handler EXCEPT ![f] = IdleHandler]
    /\ line' = [line EXCEPT ![f] = NoOne]
    /\ UNCHANGED <<seatBounds, round_live, decided, game_id, pending_seats_,
                   shells, pairing_room, next_id_, pass, owner, history>>

(* A restart keeps the rows.  The constructor moves the room numbers past  *)
(* the greatest one on record.                                             *)
Restart ==
    /\ Upset
    /\ line' = [f \in Lines |-> NoOne] /\ handler' = [f \in Lines |-> IdleHandler]
    /\ pending_seats_' = [p \in Sides |-> None]
    /\ pairing_room' = 0 /\ next_id_' = ensure_next_id_above(1)
    /\ pass' = IdlePass /\ owner' = Unlocked
    /\ UNCHANGED <<sockets_made, seatRows, shells, history>>

SeatsNext ==
    \/ \E f \in Lines : \/ \E p \in Sides : Connect(f, p)
                        \/ CheckIn(f) \/ TakePendingSeat(f)
                        \/ LookForRoom(f) \/ Bind(f)
                        \/ DropSeat(f) \/ ForgetPending(f) \/ Withdraw(f)
    \/ CreateRoom \/ RecordRoom \/ OpenRoom
    \/ ManagerTick \/ PassEnsures \/ FindShell \/ RemoveShell \/ CopyPending \/ ErasePending
    \/ GamePersisted \/ Restart

SeatsSpec == SeatsInit /\ [][SeatsNext]_seatVars

-----------------------------------------------------------------------------
(* A room number on a pairing's row names one game for ever: after a       *)
(* restart, which forgets the rooms, no recorded number is given again.    *)
RoomNumbersFresh == ~history.reissued

(* A check-in that was held up on an old connection does not take the      *)
(* pending seat from the connection that replaced it.                      *)
SeatsMoveForward ==
    [][\A p \in Sides : pending_seats_[p] # None /\ pending_seats_'[p] # None
                           => pending_seats_'[p].gen >= pending_seats_[p].gen]_seatVars

(* After a pass that found the pairing decided, no waiting room of it is   *)
(* in the registry, nor does one appear later: not by a check-in that was  *)
(* making the room when the decision fell, nor by one that comes late, nor *)
(* after a restart, whether or not the row names a game.                   *)
NoShellLeft ==
    history.swept => (pairing_room = 0 \/ shells[pairing_room].state # "WAITING")

(* Through late check-ins, disconnects and a restart a pairing has one     *)
(* room with a number of its own, the newest connection has the seat, and  *)
(* the room goes with the pairing.                                         *)
PairingKeepsItsRoom ==
    /\ []RoomNumbersFresh
    /\ []NoShellLeft
    /\ SeatsMoveForward

=============================================================================

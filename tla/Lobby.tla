------------------------------- MODULE Lobby -------------------------------
(***************************************************************************)
(* Who sits where: the room registry, the quick-play queue and the         *)
(* handlers of the gameplay service that put connections into rooms and    *)
(* take them out again when the transport closes.                          *)
(*                                                                         *)
(* A seat, a queue entry and a spectator entry name their connection by    *)
(* its descriptor, and the kernel hands a closed descriptor to the next    *)
(* client.  Every entry therefore carries, as a history variable no        *)
(* handler reads, the generation of the connection it was made for.        *)
(*                                                                         *)
(* One request runs per connection (processing_mutex), and closing waits   *)
(* for it; requests of different connections interleave between the        *)
(* critical sections of the registry, the matchmaker and the rooms.  What  *)
(* happens inside a game is the subject of GameRoom, which pairs are       *)
(* matched that of Matchmaking: here a game may end at any time and any    *)
(* two queued connections may be paired.                                   *)
(***************************************************************************)
EXTENDS Integers, Sequences, SequencesExt, FiniteSets

CONSTANTS Fds,            \* descriptors
          Players,        \* accounts
          Requests,       \* kinds of requests the clients of this instance make
          MaxRooms,       \* bound: rooms ever created
          MaxConnections, \* bound: connections ever accepted
          MaxOffers       \* bound: rematch offers ever made

ASSUME LobbyAssumption == Fds \cup Players \subseteq Nat \ {0} /\ {MaxRooms, MaxConnections, MaxOffers} \subseteq Nat

VARIABLES connections_,      \* descriptor -> generation of its open connection, or 0
          identity,          \* descriptor -> account it authenticated as
          next_generation_,
          rooms,             \* every room ever made, in order of its id
          rooms_,            \* ids in the registry
          queue,             \* the matchmaker's entries
          mutex_,            \* connection whose try_match holds the matchmaker, or 0
          call,              \* descriptor -> the request it runs
          offers,            \* history: rematch offers made
          doubled            \* history: connections once on two seats of live games

connVars == <<connections_, identity, next_generation_>>
lobbyVars == <<connVars, rooms, rooms_, queue, mutex_, call, offers, doubled>>

White == "w"
Black == "b"
NoColor == "none"
Colors == {White, Black}
Opponent(c) == IF c = White THEN Black ELSE White
NoFd == 0
NoPlayer == 0

Idle == [op |-> "idle"]
LobbyInit ==
    /\ connections_ = [f \in Fds |-> 0]
    /\ identity = [f \in Fds |-> NoPlayer]
    /\ next_generation_ = 1
    /\ rooms = <<>> /\ rooms_ = {}
    /\ queue = {} /\ mutex_ = 0
    /\ call = [f \in Fds |-> Idle]
    /\ offers = 0 /\ doubled = {}

-----------------------------------------------------------------------------
Empty == [fd |-> NoFd, player |-> NoPlayer, connected |-> FALSE, generation |-> 0, born |-> 0]
Seat(f, p, g) == [fd |-> f, player |-> p, connected |-> TRUE, generation |-> 0, born |-> g]
MySeat(f) == Seat(f, identity[f], connections_[f])

NewRoom(white, origin) ==
    [state |-> IF origin = "ai" THEN "IN_PROGRESS" ELSE "WAITING", origin |-> origin,
     seat |-> [c \in Colors |-> IF c = White THEN white ELSE Empty], offer |-> NoColor, spectators |-> {}]

has_player(r, f) == \E c \in Colors : rooms[r].seat[c].fd = f
has_db_player(r, p) == \E c \in Colors : rooms[r].seat[c].player = p
Unfinished == {r \in rooms_ : rooms[r].state # "FINISHED"}

(* The room find_room_by_fd returns: an unfinished one if there is one,    *)
(* else a finished one, whichever the hash map yields.                     *)
find_room_by_fd(f) ==
    LET mine == {r \in rooms_ : has_player(r, f)}
    IN IF mine \cap Unfinished # {} THEN mine \cap Unfinished ELSE mine
find_room_by_db_player(p) == {r \in Unfinished : has_db_player(r, p)}

InGame(f) == find_room_by_fd(f) \cap Unfinished # {}
Queued(f) == \E e \in queue : e.fd = f
Free(f) == connections_[f] # 0 /\ call[f] = Idle

Run(f, c) == call' = [call EXCEPT ![f] = c]

(* Every change of a room notes the connections behind a descriptor that   *)
(* now appears on two seats of unfinished rooms.                           *)
SeatsOn(f, rs) == {x \in (DOMAIN rs) \X Colors :
                     rs[x[1]].state # "FINISHED" /\ rs[x[1]].seat[x[2]].fd = f}
ChangeRooms(rs) ==
    /\ rooms' = rs
    /\ doubled' = doubled \cup
         {rs[x[1]].seat[x[2]].born :
            x \in UNION {SeatsOn(f, rs) : f \in {g \in Fds : Cardinality(SeatsOn(g, rs)) > 1}}}
SetRoom(r, room) == ChangeRooms([rooms EXCEPT ![r] = room])
create_room(white, origin) ==
    /\ Len(rooms) < MaxRooms
    /\ ChangeRooms(Append(rooms, NewRoom(white, origin)))
    /\ rooms_' = rooms_ \cup {Len(rooms) + 1}

(* GameRoom::join: the room as it is after the call. *)
join(room, black) ==
    IF room.state = "WAITING" /\ room.seat[Black] = Empty
    THEN [room EXCEPT !.seat[Black] = black, !.state = "IN_PROGRESS"]
    ELSE room

-----------------------------------------------------------------------------
(* accept(2) hands out the lowest descriptor that is not in use: that of a *)
(* connection that is gone, if there is one.                               *)
Accept(f, p) ==
    /\ connections_[f] = 0 /\ call[f] = Idle
    /\ \A g \in Fds : g < f => connections_[g] # 0 \/ call[g] # Idle
    /\ next_generation_ <= MaxConnections
    /\ connections_' = [connections_ EXCEPT ![f] = next_generation_]
    /\ identity' = [identity EXCEPT ![f] = p]
    /\ next_generation_' = next_generation_ + 1
    /\ UNCHANGED <<rooms, doubled, rooms_, queue, mutex_, offers, call>>

(* The checks of create_game, play_ai, quick_play, join_game and spectate. *)
RequestGame(f) ==
    /\ Free(f) /\ ~InGame(f)
    /\ \/ \E op \in {"create", "ai"} \cap Requests : Run(f, [op |-> op])
       \/ "queue" \in Requests /\ ~Queued(f) /\ Run(f, [op |-> "queue"])
       \/ \E r \in rooms_ : "join" \in Requests /\ Run(f, [op |-> "join", room |-> r])
       \/ \E r \in rooms_ : /\ "spectate" \in Requests
                            /\ rooms[r].state = "IN_PROGRESS" /\ ~has_player(r, f)
                            /\ Run(f, [op |-> "spectate", room |-> r])
    /\ UNCHANGED <<connVars, rooms, doubled, rooms_, queue, mutex_, offers>>

CreateGame(f) ==
    /\ call[f].op \in {"create", "ai"}
    /\ create_room(MySeat(f), call[f].op)
    /\ Run(f, Idle)
    /\ UNCHANGED <<connVars, queue, mutex_, offers>>

JoinGame(f) ==
    /\ call[f].op = "join"
    /\ SetRoom(call[f].room, join(rooms[call[f].room], MySeat(f)))
    /\ Run(f, Idle)
    /\ UNCHANGED <<connVars, rooms_, queue, mutex_, offers>>

Spectate(f) ==
    /\ call[f].op = "spectate"
    /\ LET r == call[f].room
       IN SetRoom(r, IF rooms[r].state = "IN_PROGRESS" /\ ~has_player(r, f)
                     THEN [rooms[r] EXCEPT !.spectators = @ \cup {[fd |-> f, born |-> connections_[f]]}]
                     ELSE rooms[r])
    /\ Run(f, Idle)
    /\ UNCHANGED <<connVars, rooms_, queue, mutex_, offers>>

-----------------------------------------------------------------------------
(* quick_play: enqueue, then try_match, which holds the matchmaker while   *)
(* it creates a room for one player of a pair and seats the other.         *)
Enqueue(f) ==
    /\ call[f].op = "queue" /\ mutex_ = 0
    /\ queue' = queue \cup {[fd |-> f, player |-> identity[f], born |-> connections_[f]]}
    /\ Run(f, [op |-> "match"])
    /\ UNCHANGED <<connVars, rooms, doubled, rooms_, mutex_, offers>>

MatchCreate(f) ==
    /\ call[f].op = "match" /\ mutex_ \in {0, f}
    /\ \E a, b \in queue :
         /\ a # b
         /\ create_room(Seat(a.fd, a.player, a.born), "match")
         /\ Run(f, [op |-> "pair", room |-> Len(rooms) + 1, a |-> a, b |-> b])
    /\ mutex_' = f
    /\ UNCHANGED <<connVars, queue, offers>>

MatchJoin(f) ==
    /\ call[f].op = "pair"
    /\ LET r == call[f].room
           b == call[f].b
       IN SetRoom(r, join(rooms[r], Seat(b.fd, b.player, b.born)))
    /\ queue' = queue \ {call[f].a, call[f].b}
    /\ Run(f, [op |-> "match"])
    /\ UNCHANGED <<connVars, rooms_, mutex_, offers>>

MatchDone(f) ==
    /\ call[f].op = "match" /\ mutex_ \in {0, f}
    /\ mutex_' = 0
    /\ Run(f, Idle)
    /\ UNCHANGED <<connVars, rooms, doubled, rooms_, queue, offers>>

dequeueMutant(f) == UNCHANGED queue
dequeue(f) == queue' = {e \in queue : e.fd # f}

CancelQueue(f) ==
    /\ Free(f) /\ Queued(f) /\ mutex_ = 0
    /\ dequeue(f)
    /\ UNCHANGED <<connVars, rooms, doubled, rooms_, mutex_, offers, call>>

-----------------------------------------------------------------------------
(* game_state, get_active_game and get_pending_rematch look up a room of   *)
(* the account, then bind its seat to the caller.                          *)
NewestOffer(p) ==
    LET offered == {r \in rooms_ : rooms[r].offer # NoColor /\ has_db_player(r, p)}
    IN IF offered = {} THEN {} ELSE {Max(offered)}

Resume(f) ==
    /\ Free(f) /\ "resume" \in Requests
    /\ \E r \in find_room_by_db_player(identity[f]) \cup NewestOffer(identity[f]) :
          Run(f, [op |-> "resume", room |-> r])
    /\ UNCHANGED <<connVars, rooms, doubled, rooms_, queue, mutex_, offers>>

OnReconnectDbPlayer(f) ==
    /\ call[f].op = "resume"
    /\ LET r == call[f].room
           c == IF rooms[r].seat[White].player = identity[f] THEN White ELSE Black
           mine == [fd |-> f, player |-> identity[f], connected |-> TRUE,
                    generation |-> connections_[f], born |-> connections_[f]]
       IN SetRoom(r, IF connections_[f] < rooms[r].seat[c].generation THEN rooms[r]
                     ELSE [rooms[r] EXCEPT !.seat[c] = mine])
    /\ Run(f, Idle)
    /\ UNCHANGED <<connVars, rooms_, queue, mutex_, offers>>

(* A game ends: mate, flag, resignation, agreement or abandonment. *)
FinishGame(r) ==
    /\ r \in rooms_ /\ rooms[r].state = "IN_PROGRESS"
    /\ SetRoom(r, [rooms[r] EXCEPT !.state = "FINISHED"])
    /\ UNCHANGED <<connVars, rooms_, queue, mutex_, offers, call>>

-----------------------------------------------------------------------------
(* Rematches.  PlayersBusy is the lookup both handlers make first. *)
OwnRoom(f, r) == r \in rooms_ /\ has_player(r, f) /\ has_db_player(r, identity[f])
PlayersBusy(r) == \E c \in Colors : find_room_by_db_player(rooms[r].seat[c].player) # {}
color_of(r, f) == IF rooms[r].seat[White].fd = f THEN White
                  ELSE IF rooms[r].seat[Black].fd = f THEN Black ELSE NoColor
ClearOffer(r) == SetRoom(r, [rooms[r] EXCEPT !.offer = NoColor])

AskRematch(f) ==
    /\ Free(f)
    /\ \E r \in rooms_ : /\ OwnRoom(f, r) /\ ~PlayersBusy(r)
                         /\ \E op \in {"offer", "accept"} \cap Requests :
                              /\ op = "offer" => offers < MaxOffers
                              /\ Run(f, [op |-> op, room |-> r])
    /\ UNCHANGED <<connVars, rooms, doubled, rooms_, queue, mutex_, offers>>

OfferRematch(f) ==
    /\ call[f].op = "offer"
    /\ LET r == call[f].room
           c == color_of(r, f)
           ok == /\ rooms[r].state = "FINISHED" /\ rooms[r].origin # "ai" /\ c # NoColor
                 /\ rooms[r].seat[Opponent(c)].connected /\ rooms[r].offer = NoColor
       IN /\ offers' = IF ok THEN offers + 1 ELSE offers
          /\ SetRoom(r, IF ok THEN [rooms[r] EXCEPT !.offer = c] ELSE rooms[r])
    /\ Run(f, Idle)
    /\ UNCHANGED <<connVars, rooms_, queue, mutex_>>

CanRespond(f, r) == /\ rooms[r].state = "FINISHED" /\ rooms[r].offer # NoColor
                    /\ color_of(r, f) \notin {NoColor, rooms[r].offer}

(* A decline, or an acceptance while a player has another game. *)
DeclineRematch(f, r) ==
    /\ Free(f) /\ OwnRoom(f, r) /\ CanRespond(f, r)
    /\ ClearOffer(r)
    /\ UNCHANGED <<connVars, rooms_, queue, mutex_, offers, call>>

RespondToRematchMutant(f) ==
    /\ call[f].op = "accept"
    /\ Run(f, IF CanRespond(f, call[f].room) THEN [op |-> "accepted", room |-> call[f].room] ELSE Idle)
    /\ UNCHANGED <<connVars, rooms, doubled, rooms_, queue, mutex_, offers>>
RespondToRematch(f) ==
    /\ call[f].op = "accept"
    /\ LET r == call[f].room
       IN IF CanRespond(f, r)
          THEN ClearOffer(r) /\ Run(f, [op |-> "accepted", room |-> r])
          ELSE Run(f, Idle) /\ UNCHANGED <<rooms, doubled>>
    /\ UNCHANGED <<connVars, rooms_, queue, mutex_, offers>>

(* Both descriptors are read and checked here and used two steps later. *)
BothConnected(r) == \A c \in Colors : rooms[r].seat[c].connected /\ rooms[r].seat[c].fd # NoFd
ReadSeats(f) ==
    /\ call[f].op = "accepted"
    /\ LET r == call[f].room
       IN Run(f, IF BothConnected(r) THEN [op |-> "rematch", seat |-> rooms[r].seat] ELSE Idle)
    /\ UNCHANGED <<connVars, rooms, doubled, rooms_, queue, mutex_, offers>>

RematchSeat(s) == Seat(s.fd, s.player, s.born)
RematchCreate(f) ==
    /\ call[f].op = "rematch"
    /\ create_room(RematchSeat(call[f].seat[Black]), "rematch")
    /\ Run(f, [op |-> "seat", room |-> Len(rooms) + 1, black |-> RematchSeat(call[f].seat[White])])
    /\ UNCHANGED <<connVars, queue, mutex_, offers>>

(* A refused join takes the room out of the registry again. *)
RematchJoin(f) ==
    /\ call[f].op = "seat"
    /\ LET r == call[f].room
       IN /\ SetRoom(r, join(rooms[r], call[f].black))
          /\ rooms_' = IF rooms'[r] = rooms[r] THEN rooms_ \ {r} ELSE rooms_
    /\ Run(f, Idle)
    /\ UNCHANGED <<connVars, queue, mutex_, offers>>

ExpireRematchOffer(r) ==
    /\ r \in rooms_ /\ rooms[r].offer # NoColor
    /\ ClearOffer(r)
    /\ UNCHANGED <<connVars, rooms_, queue, mutex_, offers, call>>

-----------------------------------------------------------------------------
(* close_connection retires the connection and runs on_player_disconnect;  *)
(* the descriptor is free when both have returned.                         *)
CloseConnection(f) ==
    /\ Free(f)
    /\ connections_' = [connections_ EXCEPT ![f] = 0]
    /\ Run(f, [op |-> "dequeue", gen |-> connections_[f]])
    /\ UNCHANGED <<identity, next_generation_, rooms, doubled, rooms_, queue, mutex_, offers>>

Advance(f, op) == call[f].op = op[1] /\ Run(f, [op |-> op[2], gen |-> call[f].gen])

DisconnectDequeue(f) ==
    /\ Advance(f, <<"dequeue", "find">>) /\ mutex_ = 0
    /\ dequeue(f)
    /\ UNCHANGED <<connVars, rooms, doubled, rooms_, mutex_, offers>>

DisconnectFind(f) ==
    /\ call[f].op = "find"
    /\ \/ find_room_by_fd(f) = {} /\ Run(f, [op |-> "sweep", gen |-> call[f].gen])
       \/ \E r \in find_room_by_fd(f) :
             Run(f, [op |-> "detach", gen |-> call[f].gen, room |-> r])
    /\ UNCHANGED <<connVars, rooms, doubled, rooms_, queue, mutex_, offers>>

(* on_disconnect: a waiting room is over when its creator leaves it. *)
Detached(s) == [s EXCEPT !.connected = FALSE, !.fd = NoFd]
OnDisconnect(room, f) ==
    LET c == IF room.seat[White].fd = f THEN White ELSE Black
    IN IF room.seat[c].fd # f \/ ~room.seat[c].connected THEN room
       ELSE [room EXCEPT !.seat[c] = Detached(@),
                         !.state = IF @ = "WAITING" THEN "FINISHED" ELSE @]

DisconnectDetach(f) ==
    /\ Advance(f, <<"detach", "sweep">>)
    /\ SetRoom(call[f].room, OnDisconnect(rooms[call[f].room], f))
    /\ UNCHANGED <<connVars, rooms_, queue, mutex_, offers>>

remove_spectator(room, f) == [room EXCEPT !.spectators = {s \in @ : s.fd # f}]

DisconnectSweep(f) ==
    /\ call[f].op = "sweep"
    /\ ChangeRooms([r \in DOMAIN rooms |-> IF r \in rooms_ THEN remove_spectator(rooms[r], f)
                                                           ELSE rooms[r]])
    /\ Run(f, Idle)
    /\ UNCHANGED <<connVars, rooms_, queue, mutex_, offers>>

-----------------------------------------------------------------------------
Request(f) ==
    \/ RequestGame(f) \/ CreateGame(f) \/ JoinGame(f) \/ Spectate(f)
    \/ Enqueue(f) \/ MatchCreate(f) \/ MatchJoin(f) \/ MatchDone(f) \/ CancelQueue(f)
    \/ Resume(f) \/ OnReconnectDbPlayer(f)

Rematch(f) ==
    \/ AskRematch(f) \/ OfferRematch(f) \/ RespondToRematch(f) \/ ReadSeats(f)
    \/ RematchCreate(f) \/ RematchJoin(f)
    \/ \E r \in rooms_ : DeclineRematch(f, r)

Disconnect(f) ==
    \/ CloseConnection(f) \/ DisconnectDequeue(f) \/ DisconnectFind(f)
    \/ DisconnectDetach(f) \/ DisconnectSweep(f)

LobbyNext ==
    \/ \E f \in Fds : \/ \E p \in Players : Accept(f, p)
                      \/ Request(f) \/ Rematch(f) \/ Disconnect(f)
    \/ \E r \in rooms_ : FinishGame(r)
    \/ \E r \in rooms_ : ExpireRematchOffer(r)

LobbySpec == LobbyInit /\ [][LobbyNext]_lobbyVars

-----------------------------------------------------------------------------
(* The connection an entry was made for is open, or on its way out with    *)
(* its descriptor not yet free.                                            *)
Closing == {"dequeue", "find", "detach", "sweep"}
StillThere(f, g) == \/ connections_[f] = g
                    \/ call[f].op \in Closing /\ call[f].gen = g

(* Whoever is seated in a live game by its descriptor is the connection    *)
(* that took the seat: no move of a later client is taken for the          *)
(* player's.  The order of on_player_disconnect (out of the queue, then    *)
(* out of the room) and the matchmaker's lock over a whole pairing carry   *)
(* it.  The exceptions are connections that held two seats at once, of     *)
(* which on_disconnect clears the one find_room_by_fd returns, and the     *)
(* rooms of a rematch, whose seats were read earlier.                      *)
SeatsHeldByOwners ==
    \A r \in Unfinished, c \in Colors :
        LET s == rooms[r].seat[c]
        IN s.fd = NoFd \/ rooms[r].origin = "rematch" \/ s.born \in doubled
             \/ StillThere(s.fd, s.born)

(* The queue never offers a connection that is gone: a recycled descriptor *)
(* is not matched in its predecessor's name.                               *)
QueueHoldsLiveConnections == \A e \in queue : StillThere(e.fd, e.born)

(* "If the OS recycles the fd the next owner would silently start          *)
(* receiving move_made frames for a room they never asked to watch": the   *)
(* sweep of on_player_disconnect prevents it in every room.                *)
NoGhostSpectators ==
    \A r \in rooms_ : \A s \in rooms[r].spectators : StillThere(s.fd, s.born)

(* docs/PROTOCOL.md: "duplicate acceptance" never creates a room.  One     *)
(* offer leads to one rematch at most, whichever windows its players       *)
(* answer it from and however their requests overlap.                      *)
OneRoomPerOffer ==
    Cardinality({r \in DOMAIN rooms : rooms[r].origin = "rematch"}) <= offers

(* A connection that is given a used descriptor gets neither seat, nor     *)
(* queue entry, nor broadcasts of the connection before it.                *)
DescriptorsInheritNothing ==
    /\ SeatsHeldByOwners
    /\ QueueHoldsLiveConnections
    /\ NoGhostSpectators

=============================================================================

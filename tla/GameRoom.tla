------------------------------ MODULE GameRoom ------------------------------
(***************************************************************************)
(* One chess game room: src/game/game_room.cpp.                            *)
(*                                                                         *)
(* Every public method of GameRoom runs under the room mutex, so a method  *)
(* is one action here.  The one exception is the draw response, which the  *)
(* gameplay service makes in two calls (expire the offer, then respond):   *)
(* it is two actions, and anything may happen between them.                *)
(*                                                                         *)
(* Abstractions.  The board is the side to move, the number of moves made  *)
(* and a nondeterministic verdict after each accepted move (legal chess is *)
(* not this module's subject).  A connection is a positive number, its     *)
(* accept generation; it also stands for the descriptor, because a         *)
(* descriptor is unique among open sockets (recycled descriptors are the   *)
(* subject of the Lobby module).  Time starts at the start of the game:    *)
(* nothing in a waiting room reads the clock.  revision_ is left out:      *)
(* nothing in the program reads it.  A call that only returns an error     *)
(* changes nothing else, and is a stuttering step.                         *)
(***************************************************************************)
EXTENDS Integers, FiniteSets

CONSTANTS Kinds,        \* kinds of room to consider
          Conns,        \* connections, numbered by accept generation
          Players,      \* durable player ids; 0 marks a seat without one
          Owner,        \* the player each connection authenticates as
          Watchers,     \* bound: connections that may spectate
          Closers,      \* bound: connections whose transport may close
          BaseTime,     \* TimeControl::base_time_ms
          Increments,   \* values of TimeControl::increment_ms to consider
          DrawTTL,      \* DRAW_OFFER_TTL_MS
          RematchTTL,   \* REMATCH_OFFER_TTL_MS
          Grace,        \* DISCONNECT_GRACE_MS
          MoveLag,      \* most time that passes while one move is processed
          MaxMoves,     \* bound: moves per game
          MaxTime       \* bound: ticks since the start of the game

ASSUME KindAssumption == Kinds \subseteq {"human", "ai", "tournament"}
ASSUME ConnAssumption == Conns \subseteq Nat \ {0} 
                          /\ Watchers \cup Closers \subseteq Conns
ASSUME PlayerAssumption == Players \subseteq Nat \ {0}
ASSUME OwnerAssumption == Owner \in [Conns -> Players]
ASSUME TimeAssumption == /\ BaseTime \in Nat \ {0}
                         /\ Increments \subseteq Nat
                         /\ {DrawTTL, RematchTTL, Grace} \subseteq Nat \ {0}
                         /\ {MoveLag, MaxMoves, MaxTime} \subseteq Nat

VARIABLES
    kind,                   \* "human", "ai" or "tournament" (constructor used)
    increment,              \* time_control_.increment_ms
    state,                  \* RoomState
    game_status, result,    \* game_status_, result_
    reserved_open,          \* reserved_open_
    connection_fd,          \* PlayerSlot fields, one function of colour each
    connection_generation,
    db_player_id,
    connected,
    tournament_checked_in,
    disconnected_at,
    remaining_ms,
    clock_start,
    turn,                   \* board_.side_to_move()
    moves, think,           \* move_history_: moves and think time, by colour
    draw_offer_from, draw_offer_created_at,
    rematch_offer_from, rematch_offer_created_at,
    spectator_fds,
    listening,              \* the default listener has been added
    completions,            \* GameCompleted events built by finish_game
    snapshot,               \* the last of them
    pending,                \* LockAndDrain still has to fire it
    delivered,              \* on_game_completed calls made
    responder,              \* draw response between its two room calls
    now,                    \* steady clock
    closed                  \* connections whose transport has been closed

seatVars == <<connection_fd, connection_generation, db_player_id, connected,
              tournament_checked_in, disconnected_at>>
clockVars == <<remaining_ms, clock_start, turn, moves, think>>
drawVars == <<draw_offer_from, draw_offer_created_at>>
rematchVars == <<rematch_offer_from, rematch_offer_created_at>>
outcomeVars == <<state, game_status, result, completions, snapshot, pending>>
roomVars == <<kind, increment, reserved_open>>
envVars == <<listening, delivered, responder, closed>>
vars == <<seatVars, clockVars, drawVars, rematchVars, outcomeVars, roomVars,
          envVars, spectator_fds, now>>

-----------------------------------------------------------------------------
(* Values *)

White == "WHITE"
Black == "BLACK"
Colors == {White, Black}
NoColor == "NONE"
Opposite(c) == IF c = White THEN Black ELSE White

NoFd == -1                \* empty slot or detached seat
AiFd == -2                \* the engine's seat
NoCall == [conn |-> NoFd, accept |-> FALSE]

(* What get_game_status may say of the position a move leads to; the four  *)
(* rule draws are one value.                                               *)
BoardVerdicts == {"ONGOING", "CHECKMATE", "BOARD_DRAW"}
Statuses == BoardVerdicts \cup {"DRAW_AGREEMENT", "RESIGNATION", "TIMEOUT",
                                "ABANDONMENT"}
Results == {"*", "1-0", "0-1", "1/2-1/2"}
Loses(c) == IF c = White THEN "0-1" ELSE "1-0"

NoSnapshot == [status |-> "ONGOING", result |-> "*",
               moves |-> [c \in Colors |-> 0],
               remaining |-> [c \in Colors |-> 0]]

color_of(f) == CASE connection_fd[White] = f -> White
                 [] connection_fd[White] # f /\ connection_fd[Black] = f -> Black
                 [] OTHER -> NoColor

seat_of_db(p) == CASE db_player_id[White] = p -> White
                   [] db_player_id[White] # p /\ db_player_id[Black] = p -> Black
                   [] OTHER -> NoColor

check_flag == remaining_ms[turn] - (now - clock_start[turn]) <= 0

(* switch_clock: what the mover's clock shows after the move, and when the *)
(* next player's clock starts.                                             *)
ClampZero(x) == IF x < 0 THEN 0 ELSE x
ChargeClock(c, t) ==
    ClampZero(remaining_ms[c] - (t - clock_start[c]) + increment)
RestartClockMutant(c, t) == clock_start
RestartClock(c, t) == [clock_start EXCEPT ![c] = t]

(* Requests of a connection are handled one at a time while it is open.    *)
(* The creator's own requests wait until create_room has returned, that is *)
(* until the default listener is attached; the room is already visible to  *)
(* others.                                                                 *)
CanAct(f) == /\ f \notin closed
             /\ f # responder.conn
             /\ listening \/ connection_fd[White] # f

-----------------------------------------------------------------------------
(* Construction *)

InitHuman == /\ kind = "human"
             /\ state = "WAITING"
             /\ \E f \in Conns :
                  /\ connection_fd = [c \in Colors |-> IF c = White THEN f ELSE NoFd]
                  /\ db_player_id = [c \in Colors |-> IF c = White THEN Owner[f] ELSE 0]
             /\ connected = [c \in Colors |-> c = White]
             /\ remaining_ms = [c \in Colors |-> IF c = White THEN BaseTime ELSE 0]

InitAi == /\ kind = "ai"
          /\ state = "IN_PROGRESS"
          /\ \E f \in Conns :
               /\ connection_fd = [c \in Colors |-> IF c = White THEN f ELSE AiFd]
               /\ db_player_id = [c \in Colors |-> IF c = White THEN Owner[f] ELSE 0]
          /\ connected = [c \in Colors |-> TRUE]
          /\ remaining_ms = [c \in Colors |-> BaseTime]

InitTournament == /\ kind = "tournament"
                  /\ state = "WAITING"
                  /\ connection_fd = [c \in Colors |-> NoFd]
                  /\ \E p, q \in Players :
                       /\ p # q
                       /\ db_player_id = [c \in Colors |-> IF c = White THEN p ELSE q]
                  /\ connected = [c \in Colors |-> FALSE]
                  /\ remaining_ms = [c \in Colors |-> BaseTime]

Init == /\ InitHuman \/ InitAi \/ InitTournament
        /\ kind \in Kinds
        /\ increment \in Increments
        /\ game_status = "ONGOING" /\ result = "*"
        /\ reserved_open = FALSE
        /\ connection_generation = [c \in Colors |-> 0]
        /\ tournament_checked_in = [c \in Colors |-> FALSE]
        /\ disconnected_at = [c \in Colors |-> 0]
        /\ clock_start = [c \in Colors |-> 0]
        /\ turn = White
        /\ moves = [c \in Colors |-> 0] /\ think = [c \in Colors |-> 0]
        /\ draw_offer_from = NoColor /\ draw_offer_created_at = 0
        /\ rematch_offer_from = NoColor /\ rematch_offer_created_at = 0
        /\ spectator_fds = {}
        /\ listening = FALSE
        /\ completions = 0 /\ snapshot = NoSnapshot
        /\ pending = FALSE /\ delivered = 0
        /\ responder = NoCall
        /\ now = 0
        /\ closed = {}

-----------------------------------------------------------------------------
(* Helpers shared by the methods *)

(* finish_game: n and rem are the move count and the clocks the snapshot   *)
(* pins; the event goes to the listeners registered at this moment.        *)
FinishGame(status, res, n, rem) ==
    /\ state' = "FINISHED"
    /\ game_status' = status
    /\ result' = res
    /\ completions' = completions + 1
    /\ snapshot' = [status |-> status, result |-> res, moves |-> n,
                    remaining |-> rem]
    /\ pending' = listening

FinishAsIs(status, res) == FinishGame(status, res, moves, remaining_ms)

(* WAITING -> IN_PROGRESS: White's clock starts. *)
StartGame == /\ state' = "IN_PROGRESS"
             /\ clock_start' = [clock_start EXCEPT ![White] = now]
             /\ UNCHANGED <<game_status, result, completions, snapshot, pending>>

AttachSeat(c, f) ==
    /\ connection_fd' = [connection_fd EXCEPT ![c] = f]
    /\ connected' = [connected EXCEPT ![c] = TRUE]
    /\ disconnected_at' = [disconnected_at EXCEPT ![c] = 0]

ClearDrawOffer == draw_offer_from' = NoColor /\ draw_offer_created_at' = 0
ClearRematchOffer ==
    rematch_offer_from' = NoColor /\ rematch_offer_created_at' = 0

-----------------------------------------------------------------------------
(* Listeners *)

AddListener ==
    /\ ~listening
    /\ listening' = TRUE
    /\ UNCHANGED <<seatVars, clockVars, drawVars, rematchVars, outcomeVars,
                   roomVars, delivered, responder, closed, spectator_fds, now>>

DeliverCompletedMutant ==
    /\ pending
    /\ pending' = FALSE
    /\ UNCHANGED <<seatVars, clockVars, drawVars, rematchVars, state,
                   game_status, result, completions, snapshot, roomVars,
                   envVars, spectator_fds, now>>
(* ~LockAndDrain: the queued event is fired once the mutex is released. *)
DeliverCompleted ==
    /\ pending
    /\ pending' = FALSE
    /\ delivered' = delivered + 1
    /\ UNCHANGED <<seatVars, clockVars, drawVars, rematchVars, state,
                   game_status, result, completions, snapshot, roomVars,
                   listening, responder, closed, spectator_fds, now>>

-----------------------------------------------------------------------------
(* Seating *)

(* join, called by join_game after it has checked that the connection is   *)
(* not seated already.  Nothing compares the two players.                  *)
Join(f) ==
    /\ CanAct(f)
    /\ color_of(f) = NoColor
    /\ state = "WAITING" /\ kind # "tournament"
    /\ connection_fd[Black] = NoFd
    /\ connection_fd' = [connection_fd EXCEPT ![Black] = f]
    /\ db_player_id' = [db_player_id EXCEPT ![Black] = Owner[f]]
    /\ connected' = [connected EXCEPT ![Black] = TRUE]
    /\ remaining_ms' = [remaining_ms EXCEPT ![Black] = BaseTime]
    /\ StartGame
    /\ UNCHANGED <<connection_generation, tournament_checked_in,
                   disconnected_at, turn, moves, think, drawVars, rematchVars,
                   roomVars, envVars, spectator_fds, now>>

(* Binding c's player starts a room that is open and has the other seat.   *)
BindStarts(c) == reserved_open /\ state = "WAITING" /\ connected[Opposite(c)]

(* A request of a connection older than the one that holds the seat fails. *)
NotReplacedMutant(c, f) == TRUE
NotReplaced(c, f) == f >= connection_generation[c]

(* bind_reserved_player: replace says whether a live socket may be taken   *)
(* over; without it a seat that is connected elsewhere refuses the call.   *)
BindReservedPlayer(f, replace) ==
    /\ CanAct(f)
    /\ kind = "tournament" /\ state # "FINISHED"
    /\ seat_of_db(Owner[f]) # NoColor
    /\ LET c == seat_of_db(Owner[f]) IN
         /\ tournament_checked_in[c]
         /\ NotReplaced(c, f)
         /\ connected[c] /\ connection_fd[c] # f => replace
         /\ AttachSeat(c, f)
         /\ connection_generation' = [connection_generation EXCEPT ![c] = f]
         /\ IF BindStarts(c)
            THEN StartGame
            ELSE UNCHANGED <<outcomeVars, clock_start>>
    /\ UNCHANGED <<db_player_id, tournament_checked_in, remaining_ms, turn,
                   moves, think, drawVars, rematchVars, roomVars, envVars,
                   spectator_fds, now>>

AllowReservedPlayer(p) ==
    /\ kind = "tournament" /\ state # "FINISHED"
    /\ seat_of_db(p) # NoColor
    /\ tournament_checked_in' =
         [tournament_checked_in EXCEPT ![seat_of_db(p)] = TRUE]
    /\ UNCHANGED <<connection_fd, connection_generation, db_player_id,
                   connected, disconnected_at, clockVars, drawVars,
                   rematchVars, outcomeVars, roomVars, envVars,
                   spectator_fds, now>>

OpenReserved ==
    /\ kind = "tournament" /\ state # "FINISHED"
    /\ reserved_open' = TRUE
    /\ IF state = "WAITING" /\ connected[White] /\ connected[Black]
       THEN StartGame
       ELSE UNCHANGED <<outcomeVars, clock_start>>
    /\ UNCHANGED <<seatVars, remaining_ms, turn, moves, think, drawVars,
                   rematchVars, kind, increment, envVars, spectator_fds, now>>

(* on_reconnect_db_player of an ordinary room.  A finished room is rebound *)
(* too, so that a pending rematch can still be answered.                   *)
OnReconnectDbPlayer(f) ==
    /\ CanAct(f)
    /\ kind # "tournament"
    /\ seat_of_db(Owner[f]) # NoColor
    /\ LET c == seat_of_db(Owner[f]) IN
         /\ NotReplaced(c, f)
         /\ connection_generation' = [connection_generation EXCEPT ![c] = f]
         /\ IF connected[c] /\ connection_fd[c] = f
            THEN UNCHANGED <<connection_fd, connected, disconnected_at>>
            ELSE AttachSeat(c, f)
    /\ UNCHANGED <<db_player_id, tournament_checked_in, clockVars, drawVars,
                   rematchVars, outcomeVars, roomVars, envVars,
                   spectator_fds, now>>

DetachSeat(c) ==
    /\ connected' = [connected EXCEPT ![c] = FALSE]
    /\ disconnected_at' = [disconnected_at EXCEPT ![c] = now]
    /\ connection_fd' = [connection_fd EXCEPT ![c] = NoFd]

(* The creator of an ordinary room left before anybody joined. *)
DepartureEnds == state = "WAITING" /\ kind # "tournament"

(* on_player_disconnect of the service, for this room: on_disconnect, then *)
(* the spectator sweep.  A waiting room without its creator is finished.   *)
OnDisconnect(f) ==
    /\ CanAct(f) /\ f \in Closers
    /\ closed' = closed \cup {f}
    /\ spectator_fds' = spectator_fds \ {f}
    /\ LET c == color_of(f) IN
         IF c # NoColor /\ connected[c]
         THEN /\ DetachSeat(c)
              /\ IF DepartureEnds
                 THEN FinishAsIs("RESIGNATION", "*")
                 ELSE UNCHANGED outcomeVars
         ELSE UNCHANGED <<connected, disconnected_at, connection_fd, outcomeVars>>
    /\ UNCHANGED <<connection_generation, db_player_id, tournament_checked_in,
                   clockVars, drawVars, rematchVars, roomVars, listening,
                   delivered, responder, now>>

-----------------------------------------------------------------------------
(* Moves *)

(* The clock is read three times while a move is processed: by check_flag  *)
(* (now), for the think time (t2) and by switch_clock (t3).                *)
PlayMove(c, status, t2, t3) ==
    /\ turn' = Opposite(c)
    /\ moves' = [moves EXCEPT ![c] = @ + 1]
    /\ think' = [think EXCEPT ![c] = @ + (t2 - clock_start[c])]
    /\ LET rem == [remaining_ms EXCEPT ![c] = ChargeClock(c, t3)]
       IN /\ remaining_ms' = rem
          /\ CASE status = "ONGOING" -> UNCHANGED outcomeVars
               [] status = "CHECKMATE" ->
                    FinishGame(status, Loses(Opposite(c)),
                               [moves EXCEPT ![c] = @ + 1], rem)
               [] OTHER -> FinishGame(status, "1/2-1/2",
                                    [moves EXCEPT ![c] = @ + 1], rem)
    /\ clock_start' = RestartClock(Opposite(c), t3)
    /\ now' = t3

(* Making a move declines a pending offer of the other side. *)
ImplicitDeclineMutant ==
    IF draw_offer_from = turn THEN ClearDrawOffer ELSE UNCHANGED drawVars
ImplicitDecline ==
    IF draw_offer_from = Opposite(turn) THEN ClearDrawOffer ELSE UNCHANGED drawVars

(* submit_move by the player to move, in time and legal. *)
SubmitMove(f, status, t2, t3) ==
    /\ CanAct(f)
    /\ state = "IN_PROGRESS"
    /\ color_of(f) = turn
    /\ ~check_flag
    /\ moves[White] + moves[Black] < MaxMoves
    /\ PlayMove(turn, status, t2, t3)
    /\ ImplicitDecline
    /\ UNCHANGED <<seatVars, rematchVars, roomVars, envVars, spectator_fds>>

(* submit_move after the flag fell: the game ends, the move is not played  *)
(* and the mover's remaining_ms is left as it was.                         *)
SubmitMoveFlagged(f) ==
    /\ CanAct(f)
    /\ state = "IN_PROGRESS"
    /\ color_of(f) = turn
    /\ check_flag
    /\ FinishAsIs("TIMEOUT", Loses(turn))
    /\ UNCHANGED <<seatVars, clockVars, drawVars, rematchVars, roomVars,
                   envVars, spectator_fds, now>>

SubmitMoveAi(status, t2, t3) ==
    /\ state = "IN_PROGRESS" /\ kind = "ai" /\ turn = Black
    /\ ~check_flag
    /\ moves[White] + moves[Black] < MaxMoves
    /\ PlayMove(Black, status, t2, t3)
    /\ UNCHANGED <<seatVars, drawVars, rematchVars, roomVars, envVars,
                   spectator_fds>>

(* The clock of the side to move reached zero: its remaining_ms is zeroed. *)
FlagFell ==
    /\ check_flag
    /\ LET rem == [remaining_ms EXCEPT ![turn] = 0] IN
         /\ remaining_ms' = rem
         /\ FinishGame("TIMEOUT", Loses(turn), moves, rem)
    /\ UNCHANGED <<seatVars, clock_start, turn, moves, think, drawVars,
                   rematchVars, roomVars, envVars, spectator_fds, now>>

SubmitMoveAiFlagged ==
    /\ state = "IN_PROGRESS" /\ kind = "ai" /\ turn = Black
    /\ FlagFell

ExpireOnTimeMutant == state = "IN_PROGRESS" /\ ~connected[turn] /\ FlagFell
ExpireOnTime == state = "IN_PROGRESS" /\ FlagFell

ResignMutant(f) ==
    /\ CanAct(f)
    /\ color_of(f) # NoColor
    /\ FinishAsIs("RESIGNATION", Loses(color_of(f)))
    /\ UNCHANGED <<seatVars, clockVars, drawVars, rematchVars, roomVars,
                   envVars, spectator_fds, now>>
Resign(f) ==
    /\ CanAct(f)
    /\ state = "IN_PROGRESS"
    /\ color_of(f) # NoColor
    /\ FinishAsIs("RESIGNATION", Loses(color_of(f)))
    /\ UNCHANGED <<seatVars, clockVars, drawVars, rematchVars, roomVars,
                   envVars, spectator_fds, now>>

-----------------------------------------------------------------------------
(* Draw offers *)

OfferDraw(f) ==
    /\ CanAct(f)
    /\ state = "IN_PROGRESS" /\ kind # "ai"
    /\ color_of(f) # NoColor
    /\ connected[Opposite(color_of(f))]
    /\ draw_offer_from = NoColor
    /\ draw_offer_from' = color_of(f)
    /\ draw_offer_created_at' = now
    /\ UNCHANGED <<seatVars, clockVars, rematchVars, outcomeVars, roomVars,
                   envVars, spectator_fds, now>>

DrawOfferExpired == /\ state = "IN_PROGRESS"
                    /\ draw_offer_from # NoColor
                    /\ now - draw_offer_created_at >= DrawTTL

(* respond_to_draw of the service, first call: an expired offer is cleared *)
(* and the response ends there.                                            *)
RespondToDrawBegin(f, accept) ==
    /\ CanAct(f)
    /\ color_of(f) # NoColor
    /\ responder = NoCall
    /\ IF DrawOfferExpired
       THEN ClearDrawOffer /\ UNCHANGED responder
       ELSE responder' = [conn |-> f, accept |-> accept] /\ UNCHANGED drawVars
    /\ UNCHANGED <<seatVars, clockVars, rematchVars, outcomeVars, roomVars,
                   listening, delivered, closed, spectator_fds, now>>

(* Second call: GameRoom::respond_to_draw. *)
RespondToDraw ==
    /\ responder # NoCall
    /\ responder' = NoCall
    /\ LET c == color_of(responder.conn) IN
         IF /\ state = "IN_PROGRESS"
            /\ draw_offer_from # NoColor
            /\ c \notin {NoColor, draw_offer_from}
         THEN /\ ClearDrawOffer
              /\ IF responder.accept
                 THEN FinishAsIs("DRAW_AGREEMENT", "1/2-1/2")
                 ELSE UNCHANGED outcomeVars
         ELSE UNCHANGED <<drawVars, outcomeVars>>
    /\ UNCHANGED <<seatVars, clockVars, rematchVars, roomVars, listening,
                   delivered, closed, spectator_fds, now>>

ExpireDrawOffer ==
    /\ DrawOfferExpired
    /\ ClearDrawOffer
    /\ UNCHANGED <<seatVars, clockVars, rematchVars, outcomeVars, roomVars,
                   envVars, spectator_fds, now>>

-----------------------------------------------------------------------------
(* Rematch offers *)

(* Bound: an offer is made only when its lifetime fits below MaxTime. *)
OfferRematch(f) ==
    /\ CanAct(f)
    /\ state = "FINISHED" /\ kind = "human"
    /\ color_of(f) # NoColor
    /\ LET o == Opposite(color_of(f)) IN connected[o] /\ connection_fd[o] >= 0
    /\ rematch_offer_from = NoColor
    /\ now + RematchTTL <= MaxTime
    /\ rematch_offer_from' = color_of(f)
    /\ rematch_offer_created_at' = now
    /\ UNCHANGED <<seatVars, clockVars, drawVars, outcomeVars, roomVars,
                   envVars, spectator_fds, now>>

RespondToRematch(f) ==
    /\ CanAct(f)
    /\ state = "FINISHED" /\ rematch_offer_from # NoColor
    /\ color_of(f) \notin {NoColor, rematch_offer_from}
    /\ ClearRematchOffer
    /\ UNCHANGED <<seatVars, clockVars, drawVars, outcomeVars, roomVars,
                   envVars, spectator_fds, now>>

ExpireRematchOffer ==
    /\ state = "FINISHED" /\ rematch_offer_from # NoColor
    /\ now - rematch_offer_created_at >= RematchTTL
    /\ ClearRematchOffer
    /\ UNCHANGED <<seatVars, clockVars, drawVars, outcomeVars, roomVars,
                   envVars, spectator_fds, now>>

-----------------------------------------------------------------------------
(* Abandonment, spectators, time *)

SeatExpired(c) == ~connected[c] /\ now - disconnected_at[c] >= Grace

AbandonmentResultMutant == IF SeatExpired(White) THEN "0-1" ELSE "1-0"
AbandonmentResult ==
    IF /\ SeatExpired(White) /\ SeatExpired(Black)
       /\ disconnected_at[White] = disconnected_at[Black]
    THEN "1/2-1/2"
    ELSE IF /\ SeatExpired(White)
            /\ ~SeatExpired(Black)
                 \/ disconnected_at[White] < disconnected_at[Black]
         THEN "0-1"
         ELSE "1-0"

ExpireDisconnected ==
    /\ state = "IN_PROGRESS"
    /\ SeatExpired(White) \/ SeatExpired(Black)
    /\ FinishAsIs("ABANDONMENT", AbandonmentResult)
    /\ UNCHANGED <<seatVars, clockVars, drawVars, rematchVars, roomVars,
                   envVars, spectator_fds, now>>

AddSpectator(f) ==
    /\ CanAct(f) /\ f \in Watchers
    /\ state = "IN_PROGRESS"
    /\ color_of(f) = NoColor
    /\ spectator_fds' = spectator_fds \cup {f}
    /\ UNCHANGED <<seatVars, clockVars, drawVars, rematchVars, outcomeVars,
                   roomVars, envVars, now>>

RemoveSpectator(f) ==
    /\ CanAct(f)
    /\ spectator_fds' = spectator_fds \ {f}
    /\ UNCHANGED <<seatVars, clockVars, drawVars, rematchVars, outcomeVars,
                   roomVars, envVars, now>>

(* Time matters while the game runs and while a rematch offer is open. *)
Tick ==
    /\ state = "IN_PROGRESS" \/ rematch_offer_from # NoColor
    /\ now < MaxTime
    /\ now' = now + 1
    /\ UNCHANGED <<seatVars, clockVars, drawVars, rematchVars, outcomeVars,
                   roomVars, envVars, spectator_fds>>

-----------------------------------------------------------------------------
Request(f) ==
    \/ Join(f)
    \/ \E replace \in BOOLEAN : BindReservedPlayer(f, replace)
    \/ OnReconnectDbPlayer(f)
    \/ \E status \in BoardVerdicts, t2, t3 \in now..(now + MoveLag) :
          t2 <= t3 /\ t3 <= MaxTime /\ SubmitMove(f, status, t2, t3)
    \/ SubmitMoveFlagged(f)
    \/ Resign(f)
    \/ OfferDraw(f)
    \/ \E accept \in BOOLEAN : RespondToDrawBegin(f, accept)
    \/ OfferRematch(f)
    \/ RespondToRematch(f)
    \/ AddSpectator(f)
    \/ RemoveSpectator(f)

Engine == \/ \E status \in BoardVerdicts, t2, t3 \in now..(now + MoveLag) :
                t2 <= t3 /\ t3 <= MaxTime /\ SubmitMoveAi(status, t2, t3)
          \/ SubmitMoveAiFlagged

Tournament == (\E p \in Players : AllowReservedPlayer(p)) \/ OpenReserved

Maintenance == \/ ExpireOnTime
               \/ ExpireDrawOffer
               \/ ExpireRematchOffer
               \/ ExpireDisconnected

Next == \/ \E f \in Conns : Request(f) \/ OnDisconnect(f)
        \/ Engine
        \/ Tournament
        \/ Maintenance
        \/ AddListener \/ DeliverCompleted \/ RespondToDraw
        \/ Tick

(* The maintenance pass runs after every event-loop cycle, at most 250 ms  *)
(* apart, and calls the four expire methods on every room; a thread that   *)
(* holds an undelivered event or a half-done response keeps running.       *)
(* Clients owe nothing.                                                    *)
Fairness == /\ WF_vars(Tick)
            /\ WF_vars(ExpireOnTime) /\ WF_vars(ExpireDrawOffer)
            /\ WF_vars(ExpireRematchOffer) /\ WF_vars(ExpireDisconnected)
            /\ WF_vars(AddListener) /\ WF_vars(DeliverCompleted)
            /\ WF_vars(RespondToDraw)

Spec == Init /\ [][Next]_vars /\ Fairness

-----------------------------------------------------------------------------
(* Properties *)

Fds == Conns \cup {NoFd, AiFd}

(* Every variable of the room holds a value of its type. *)
TypeOK ==
    /\ kind \in {"human", "ai", "tournament"}
    /\ increment \in Increments
    /\ state \in {"WAITING", "IN_PROGRESS", "FINISHED"}
    /\ game_status \in Statuses /\ result \in Results
    /\ reserved_open \in BOOLEAN
    /\ connection_fd \in [Colors -> Fds]
    /\ connection_generation \in [Colors -> Conns \cup {0}]
    /\ db_player_id \in [Colors -> Players \cup {0}]
    /\ connected \in [Colors -> BOOLEAN]
    /\ tournament_checked_in \in [Colors -> BOOLEAN]
    /\ disconnected_at \in [Colors -> Nat]
    /\ remaining_ms \in [Colors -> Nat]
    /\ clock_start \in [Colors -> Nat]
    /\ turn \in Colors
    /\ moves \in [Colors -> Nat] /\ think \in [Colors -> Nat]
    /\ draw_offer_from \in Colors \cup {NoColor}
    /\ draw_offer_created_at \in Nat
    /\ rematch_offer_from \in Colors \cup {NoColor}
    /\ rematch_offer_created_at \in Nat
    /\ spectator_fds \subseteq Conns
    /\ listening \in BOOLEAN /\ pending \in BOOLEAN
    /\ completions \in Nat /\ delivered \in Nat
    /\ snapshot \in [status : Statuses, result : Results,
                     moves : [Colors -> Nat], remaining : [Colors -> Nat]]
    /\ responder \in [conn : Conns \cup {NoFd}, accept : BOOLEAN]
    /\ now \in Nat
    /\ closed \subseteq Conns

(* A game is completed exactly once, whichever of moves, clocks, resigna-  *)
(* tions, agreements and disconnects race to end it, and what the one      *)
(* GameCompleted event recorded stays true of the room for ever after.     *)
CompletedOnce ==
    /\ completions = IF state = "FINISHED" THEN 1 ELSE 0
    /\ state = "FINISHED" =>
         snapshot = [status |-> game_status, result |-> result,
                     moves |-> moves, remaining |-> remaining_ms]

(* Fischer accounting: the two clocks and the time that has been charged   *)
(* (up to the start of the current turn) add up to what the time control   *)
(* handed out, as long as no clock was cut off at zero.                    *)
TimeConserved ==
    (state # "WAITING" /\ remaining_ms[White] > 0 /\ remaining_ms[Black] > 0)
      => remaining_ms[White] + remaining_ms[Black] + clock_start[turn]
           = 2 * BaseTime + increment * moves[White] + increment * moves[Black]

(* The think times recorded in the move history never exceed what the      *)
(* player's clock had to give; a clock cut off at zero owes at most the    *)
(* time one move takes to process.                                         *)
ThinkWithinBudget ==
    \A c \in Colors :
      think[c] + remaining_ms[c] <= BaseTime + increment * moves[c]
                                     + (IF remaining_ms[c] = 0 THEN MoveLag ELSE 0)

(* A tournament game leaves the waiting state only after the scheduled     *)
(* start was opened and both reserved players checked in.                  *)
TournamentGate ==
    kind = "tournament" /\ state # "WAITING"
      => reserved_open /\ \A c \in Colors : tournament_checked_in[c]

(* In a game between two different players no seat holds a connection that *)
(* was closed, also when the seat was taken over by a newer socket before  *)
(* the old one closed, and neither does the spectator list: a later client *)
(* that gets the same descriptor never inherits the place.  (A player who  *)
(* joins their own game from a second connection can hold both seats with  *)
(* one socket, and only one of them is detached.)                          *)
NoDeadSockets ==
    /\ db_player_id[White] # db_player_id[Black] =>
         \A c \in Colors : connection_fd[c] \notin closed
    /\ spectator_fds \cap closed = {}

(* A pending draw offer of a running game belongs to a human game and was  *)
(* made after the last move of the player it is addressed to (whose last   *)
(* move started the offerer's clock).                                      *)
DrawOfferIsCurrent ==
    state = "IN_PROGRESS" /\ draw_offer_from # NoColor
      => /\ kind # "ai"
         /\ draw_offer_created_at >= clock_start[draw_offer_from]

(* Once a seat was claimed by a connection with a generation, no older     *)
(* connection gets the seat (and with it the right to move) again.         *)
AuthorityNeverReverts ==
    [][\A c \in Colors :
         /\ connection_generation'[c] >= connection_generation[c]
         /\ (connection_generation[c] # 0 /\ connection_fd'[c] # NoFd)
              => connection_fd'[c] >= connection_generation[c]]_vars

(* How a game may end: on time only against the side to move, whose clock  *)
(* really ran out; by abandonment only against a player who has been away  *)
(* for the whole grace period and left before the opponent (a draw when    *)
(* both left together); by agreement only when the responder is the other  *)
(* player; with no result only when it never started.                      *)
OutcomeJustified ==
    [][(state # "FINISHED" /\ state' = "FINISHED") =>
         /\ game_status' = "TIMEOUT" => check_flag /\ result' = Loses(turn)
         /\ game_status' = "ABANDONMENT" =>
              /\ result' = "1/2-1/2" => \A c \in Colors : SeatExpired(c)
              /\ \A c \in Colors : result' = Loses(c) =>
                   /\ SeatExpired(c)
                   /\ connected[Opposite(c)]
                        \/ disconnected_at[c] < disconnected_at[Opposite(c)]
         /\ game_status' = "DRAW_AGREEMENT" =>
              color_of(responder.conn) = Opposite(draw_offer_from)
         /\ (result' = "*") <=> (state = "WAITING")]_vars

(* Every started game ends, also when both players stay silent or leave.   *)
GameEnds == (state = "IN_PROGRESS") ~> (state = "FINISHED")

(* A draw offer does not stay open in a running game, and a rematch offer  *)
(* does not stay open at all, when nobody answers it.                      *)
OffersResolve ==
    /\ (draw_offer_from # NoColor)
         ~> (draw_offer_from = NoColor \/ state = "FINISHED")
    /\ (rematch_offer_from # NoColor) ~> (rematch_offer_from = NoColor)

(* A completed game whose room had its listener reaches it exactly once.   *)
CompletionDelivered == (pending ~> delivered = 1) /\ [](delivered <= 1)

(* The clocks of a game are right: no time is lost or made, none goes      *)
(* below zero, and no move is charged more than its player had.            *)
ClocksAddUp == TypeOK /\ TimeConserved /\ ThinkWithinBudget

(* A seat is taken, lost and regained by its player only: through the      *)
(* check-in gate, by a live socket, and never by one that was replaced.    *)
SeatsAreSafe ==
    /\ []TournamentGate
    /\ []NoDeadSockets
    /\ AuthorityNeverReverts

(* The maintenance pass lets nothing hang: a started game ends and an      *)
(* offer is resolved, whatever the players do.                             *)
GamesAndOffersEnd ==
    /\ GameEnds
    /\ OffersResolve

=============================================================================

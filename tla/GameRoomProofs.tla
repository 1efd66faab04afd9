--------------------------- MODULE GameRoomProofs ---------------------------
(***************************************************************************)
(* What holds of a game room for every set of connections and players,     *)
(* every time control, every TTL and every delay while a move is handled.  *)
(***************************************************************************)
EXTENDS GameRoom, TLAPS

(* No clock was started in the future. *)
ClocksBehind == \A c \in Colors : clock_start[c] <= now

TypeInv == TypeOK /\ ClocksBehind

-----------------------------------------------------------------------------
(* Lemmas on the lookups *)

(* color_of answers a colour, and the seat of that colour holds the        *)
(* connection that was asked for.                                          *)
LEMMA ColorOf ==
    ASSUME NEW f
    PROVE  /\ color_of(f) \in Colors \cup {NoColor}
           /\ color_of(f) # NoColor => connection_fd[color_of(f)] = f
BY DEF color_of, Colors, White, Black, NoColor

(* The seat lookup by durable player id, the same way. *)
LEMMA SeatOf ==
    ASSUME NEW p
    PROVE  /\ seat_of_db(p) \in Colors \cup {NoColor}
           /\ seat_of_db(p) # NoColor => db_player_id[seat_of_db(p)] = p
BY DEF seat_of_db, Colors, White, Black, NoColor

(* There are two colours, each the opposite of the other. *)
LEMMA Opposites ==
    \A c \in Colors : Opposite(c) \in Colors /\ Opposite(c) # c
                      /\ Opposite(Opposite(c)) = c
                      /\ Colors = {c, Opposite(c)}
BY DEF Opposite, Colors, White, Black

(* One more move is one more increment. *)
LEMMA OneMoreIncrement ==
    \A i, n \in Nat : i * (n + 1) = i * n + i /\ i * n \in Nat
OBVIOUS

(* No move is no increment. *)
LEMMA NoIncrement == \A i, n \in Nat : n = 0 => i * n = 0
OBVIOUS

-----------------------------------------------------------------------------
(* Every step preserves the types; the clocks stay behind the time. *)
LEMMA TypeStep ==
    ASSUME TypeInv, [Next]_vars
    PROVE  TypeInv'
<1> USE ConnAssumption, PlayerAssumption, OwnerAssumption, TimeAssumption
<1> USE DEF TypeInv, TypeOK, ClocksBehind, Colors, White, Black, NoColor, Fds,
          NoFd, AiFd
<1>1. CASE UNCHANGED vars
  BY <1>1 DEF vars, seatVars, clockVars, drawVars, rematchVars, outcomeVars,
      roomVars, envVars
<1>2. ASSUME NEW f \in Conns, Join(f) PROVE TypeInv'
  BY <1>2, ColorOf DEF Join, StartGame, drawVars, rematchVars, roomVars, envVars
<1>3. ASSUME NEW f \in Conns, NEW r \in BOOLEAN, BindReservedPlayer(f, r)
      PROVE  TypeInv'
  BY <1>3, SeatOf DEF BindReservedPlayer, AttachSeat, StartGame, BindStarts, NotReplaced,
         outcomeVars, drawVars, rematchVars, roomVars, envVars
<1>4. ASSUME NEW f \in Conns, OnReconnectDbPlayer(f) PROVE TypeInv'
  <2> DEFINE c == seat_of_db(Owner[f])
  <2>1. c \in Colors
    BY <1>4, SeatOf DEF OnReconnectDbPlayer
  <2>2. connection_generation' = [connection_generation EXCEPT ![c] = f]
    BY <1>4 DEF OnReconnectDbPlayer
  <2>3. connection_generation' \in [Colors -> Conns \cup {0}]
    BY <2>1, <2>2
  <2>4. /\ connection_fd' \in [Colors -> Fds]
        /\ connected' \in [Colors -> BOOLEAN]
        /\ disconnected_at' \in [Colors -> Nat]
    <3> DEFINE Same == connected[c] /\ connection_fd[c] = f
    <3>1. IF Same
          THEN UNCHANGED <<connection_fd, connected, disconnected_at>>
          ELSE AttachSeat(c, f)
      BY <1>4 DEF OnReconnectDbPlayer
    <3>2. UNCHANGED <<connection_fd, connected, disconnected_at>> \/ AttachSeat(c, f)
      <4> HIDE DEF Same
      <4> QED
        BY <3>1, Zenon
    <3>3. CASE UNCHANGED <<connection_fd, connected, disconnected_at>>
      BY <3>3
    <3>4. CASE AttachSeat(c, f)
      BY <2>1, <3>4 DEF AttachSeat
    <3> QED
      BY <3>2, <3>3, <3>4
  <2>5. UNCHANGED <<db_player_id, tournament_checked_in, clockVars, drawVars,
                    rematchVars, outcomeVars, roomVars, envVars, spectator_fds, now>>
    BY <1>4 DEF OnReconnectDbPlayer
  <2> QED
    BY <2>3, <2>4, <2>5 DEF clockVars, drawVars, rematchVars, outcomeVars, roomVars,
       envVars
<1>5. ASSUME NEW f \in Conns, NEW s \in BoardVerdicts, NEW t2 \in now..(now
             + MoveLag), NEW t3 \in now..(now + MoveLag), t2 <= t3,
             SubmitMove(f, s, t2, t3)
      PROVE  TypeInv'
  BY <1>5 DEF SubmitMove, PlayMove, ImplicitDecline, ClearDrawOffer, FinishGame,
         ChargeClock, ClampZero, RestartClock, Opposite, Loses,
         BoardVerdicts, check_flag, seatVars, drawVars, rematchVars,
         outcomeVars, roomVars, envVars, Statuses, Results
<1>6. ASSUME NEW f \in Conns, SubmitMoveFlagged(f) PROVE TypeInv'
  BY <1>6, ColorOf DEF SubmitMoveFlagged, FinishAsIs, FinishGame, Loses, seatVars,
         clockVars, drawVars, rematchVars, roomVars, envVars, Statuses,
         Results
<1>7. ASSUME NEW f \in Conns, Resign(f) PROVE TypeInv'
  BY <1>7, ColorOf DEF Resign, FinishAsIs, FinishGame, Loses, seatVars, clockVars,
         drawVars, rematchVars, roomVars, envVars, Statuses, Results
<1>8. ASSUME NEW f \in Conns, OfferDraw(f) PROVE TypeInv'
  BY <1>8, ColorOf DEF OfferDraw, seatVars, clockVars, rematchVars, outcomeVars, roomVars,
         envVars
<1>9. ASSUME NEW f \in Conns, NEW a \in BOOLEAN, RespondToDrawBegin(f, a)
      PROVE  TypeInv'
  <2>1. UNCHANGED <<seatVars, clockVars, rematchVars, outcomeVars, roomVars,
                    listening, delivered, closed, spectator_fds, now>>
    BY <1>9 DEF RespondToDrawBegin
  <2>2. responder' \in [conn : Conns \cup {NoFd}, accept : BOOLEAN]
    BY <1>9 DEF RespondToDrawBegin
  <2>3. /\ draw_offer_from' \in Colors \cup {NoColor}
        /\ draw_offer_created_at' \in Nat
    BY <1>9 DEF RespondToDrawBegin, ClearDrawOffer, drawVars
  <2> QED
    BY <2>1, <2>2, <2>3 DEF seatVars, clockVars, rematchVars, outcomeVars, roomVars
<1>10. ASSUME NEW f \in Conns, OfferRematch(f) PROVE TypeInv'
  BY <1>10, ColorOf DEF OfferRematch, seatVars, clockVars, drawVars, outcomeVars, roomVars,
         envVars
<1>11. ASSUME NEW f \in Conns, RespondToRematch(f) PROVE TypeInv'
  BY <1>11, ColorOf DEF RespondToRematch, ClearRematchOffer, seatVars, clockVars, drawVars,
         outcomeVars, roomVars, envVars
<1>12. ASSUME NEW f \in Conns, AddSpectator(f) PROVE TypeInv'
  BY <1>12, ColorOf DEF AddSpectator, seatVars, clockVars, drawVars, rematchVars,
         outcomeVars, roomVars, envVars
<1>13. ASSUME NEW f \in Conns, RemoveSpectator(f) PROVE TypeInv'
  BY <1>13 DEF RemoveSpectator, seatVars, clockVars, drawVars, rematchVars,
         outcomeVars, roomVars, envVars
<1>14. ASSUME NEW f \in Conns, OnDisconnect(f) PROVE TypeInv'
  <2>1. UNCHANGED <<connection_generation, db_player_id, tournament_checked_in,
                    clockVars, drawVars, rematchVars, roomVars, listening,
                    delivered, responder, now>>
    BY <1>14 DEF OnDisconnect
  <2>2. closed' \subseteq Conns /\ spectator_fds' \subseteq Conns
    BY <1>14 DEF OnDisconnect
  <2>3. CASE color_of(f) # NoColor /\ connected[color_of(f)]
    <3> DEFINE c == color_of(f)
    <3>a. c \in Colors /\ DetachSeat(c)
      BY <1>14, <2>3, ColorOf DEF OnDisconnect
    <3>1. /\ connected' \in [Colors -> BOOLEAN]
          /\ disconnected_at' \in [Colors -> Nat]
          /\ connection_fd' \in [Colors -> Fds]
      BY <3>a DEF DetachSeat
    <3>2. CASE DepartureEnds
      BY <1>14, <2>1, <2>2, <2>3, <3>1, <3>2
      DEF OnDisconnect, FinishAsIs, FinishGame, clockVars, drawVars, rematchVars,
          roomVars, Statuses, Results
    <3>3. CASE ~DepartureEnds
      BY <1>14, <2>1, <2>2, <2>3, <3>1, <3>3
      DEF OnDisconnect, clockVars, drawVars, rematchVars, roomVars, outcomeVars
    <3> QED
      BY <3>2, <3>3
  <2>4. CASE ~(color_of(f) # NoColor /\ connected[color_of(f)])
    BY <1>14, <2>1, <2>2, <2>4
    DEF OnDisconnect, clockVars, drawVars, rematchVars, roomVars, outcomeVars
  <2> QED
    BY <2>3, <2>4
<1>15. ASSUME NEW s \in BoardVerdicts, NEW t2 \in now..(now + MoveLag), NEW
             t3 \in now..(now + MoveLag), t2 <= t3, SubmitMoveAi(s, t2, t3)
      PROVE  TypeInv'
  BY <1>15 DEF SubmitMoveAi, PlayMove, FinishGame, ChargeClock, ClampZero,
         RestartClock, Opposite, Loses, BoardVerdicts, check_flag, seatVars,
         drawVars, rematchVars, outcomeVars, roomVars, envVars, Statuses,
         Results
<1>16. CASE SubmitMoveAiFlagged
  BY <1>16 DEF SubmitMoveAiFlagged, FlagFell, FinishGame, Loses, seatVars,
         drawVars, rematchVars, roomVars, envVars, Statuses, Results
<1>17. ASSUME NEW p \in Players, AllowReservedPlayer(p) PROVE TypeInv'
  BY <1>17, SeatOf DEF AllowReservedPlayer, clockVars, drawVars, rematchVars, outcomeVars,
         roomVars, envVars
<1>18. CASE OpenReserved
  BY <1>18 DEF OpenReserved, StartGame, seatVars, outcomeVars, drawVars,
         rematchVars, envVars
<1>19. CASE ExpireOnTime
  BY <1>19 DEF ExpireOnTime, FlagFell, FinishGame, Loses, seatVars, drawVars,
         rematchVars, roomVars, envVars, Statuses, Results
<1>20. CASE ExpireDrawOffer
  BY <1>20 DEF ExpireDrawOffer, ClearDrawOffer, seatVars, clockVars, rematchVars,
         outcomeVars, roomVars, envVars
<1>21. CASE ExpireRematchOffer
  BY <1>21 DEF ExpireRematchOffer, ClearRematchOffer, seatVars, clockVars,
         drawVars, outcomeVars, roomVars, envVars
<1>22. CASE ExpireDisconnected
  BY <1>22 DEF ExpireDisconnected, FinishAsIs, FinishGame, seatVars, clockVars,
         drawVars, rematchVars, roomVars, envVars, Statuses, Results,
         AbandonmentResult
<1>23. CASE AddListener
  BY <1>23 DEF AddListener, seatVars, clockVars, drawVars, rematchVars,
         outcomeVars, roomVars
<1>24. CASE DeliverCompleted
  <2>1. UNCHANGED <<seatVars, clockVars, drawVars, rematchVars, state, game_status,
                    result, completions, snapshot, roomVars, listening, responder,
                    closed, spectator_fds, now>>
    BY <1>24 DEF DeliverCompleted
  <2>2. delivered' \in Nat
    BY <1>24 DEF DeliverCompleted
  <2>3. pending' \in BOOLEAN
    BY <1>24, Zenon DEF DeliverCompleted
  <2> QED
    BY <2>1, <2>2, <2>3 DEF seatVars, clockVars, drawVars, rematchVars, roomVars
<1>25. CASE RespondToDraw
  BY <1>25, ColorOf DEF RespondToDraw, ClearDrawOffer, FinishAsIs, FinishGame, seatVars,
         clockVars, drawVars, rematchVars, outcomeVars, roomVars, Statuses,
         Results, NoCall
<1>26. CASE Tick
  BY <1>26 DEF Tick, seatVars, clockVars, drawVars, rematchVars, outcomeVars,
         roomVars, envVars
<1> QED
  BY <1>1, <1>2, <1>3, <1>4, <1>5, <1>6, <1>7, <1>8, <1>9, <1>10, <1>11,
     <1>12, <1>13, <1>14, <1>15, <1>16, <1>17, <1>18, <1>19, <1>20, <1>21,
     <1>22, <1>23, <1>24, <1>25, <1>26
  DEF Next, Request, Engine, Tournament, Maintenance

(* The constructors establish the types. *)
LEMMA TypeInit == Init => TypeInv
<1> SUFFICES ASSUME Init PROVE TypeInv
  OBVIOUS
<1> USE ConnAssumption, PlayerAssumption, OwnerAssumption, TimeAssumption,
        KindAssumption
    DEF Init, TypeInv, TypeOK, ClocksBehind, Colors, White, Black, NoColor,
        Fds, NoFd, AiFd
<1>1. snapshot \in [status : Statuses, result : Results,
                     moves : [Colors -> Nat], remaining : [Colors -> Nat]]
  BY DEF NoSnapshot, Statuses, BoardVerdicts, Results
<1>2. responder \in [conn : Conns \cup {NoFd}, accept : BOOLEAN]
  BY DEF NoCall
<1>3. game_status \in Statuses /\ result \in Results
  BY DEF Statuses, BoardVerdicts, Results
<1>7. /\ reserved_open \in BOOLEAN /\ listening \in BOOLEAN
      /\ pending \in BOOLEAN
      /\ tournament_checked_in \in [Colors -> BOOLEAN]
  BY Zenon
<1> DEFINE Seats == /\ state \in {"WAITING", "IN_PROGRESS", "FINISHED"}
                    /\ connection_fd \in [Colors -> Fds]
                    /\ db_player_id \in [Colors -> Players \cup {0}]
                    /\ connected \in [Colors -> BOOLEAN]
                    /\ remaining_ms \in [Colors -> Nat]
<1>4. InitHuman => Seats
  BY DEF InitHuman
<1>5. InitAi => Seats
  BY DEF InitAi
<1>6. InitTournament => Seats
  BY DEF InitTournament
<1>8. Seats
  BY <1>4, <1>5, <1>6
<1> QED
  BY <1>1, <1>2, <1>3, <1>7, <1>8

(* Type correctness of the room. *)
THEOREM TypeCorrect == Spec => []TypeOK
<1>1. Init => TypeInv
  BY TypeInit
<1>2. TypeInv /\ [Next]_vars => TypeInv'
  BY TypeStep
<1>3. TypeInv => TypeOK
  BY DEF TypeInv
<1> QED
  BY <1>1, <1>2, <1>3, PTL DEF Spec

-----------------------------------------------------------------------------
(* What a step can do to the game, whoever takes it *)

gameVars == <<clockVars, state, game_status, result, completions, snapshot,
              kind, increment, now>>
contextVars == <<kind, increment, now>>

(* The game starts; joining also sets up Black's clock. *)
Starts ==
    /\ state = "WAITING"
    /\ StartGame
    /\ IF kind = "tournament"
       THEN UNCHANGED remaining_ms
       ELSE remaining_ms' = [remaining_ms EXCEPT ![Black] = BaseTime]
    /\ UNCHANGED <<turn, moves, think, contextVars>>

(* It ends with the clocks as they are. *)
Ends ==
    /\ state = "IN_PROGRESS" \/ (state = "WAITING" /\ kind # "tournament")
    /\ \E s \in Statuses, r \in Results : FinishAsIs(s, r)
    /\ UNCHANGED <<clockVars, contextVars>>

(* It ends by the flag of the side to move. *)
Flags == state = "IN_PROGRESS" /\ FlagFell

(* The side to move plays. *)
Plays ==
    /\ state = "IN_PROGRESS" /\ ~check_flag
    /\ UNCHANGED <<kind, increment>>
    /\ \E s \in BoardVerdicts, t2, t3 \in now..(now + MoveLag) :
         t2 <= t3 /\ PlayMove(turn, s, t2, t3)

(* Time passes. *)
Ticks ==
    /\ state = "IN_PROGRESS" \/ rematch_offer_from # NoColor
    /\ now' = now + 1
    /\ UNCHANGED <<clockVars, state, game_status, result, completions, snapshot,
                   kind, increment>>

GameStep == Starts \/ Ends \/ Flags \/ Plays \/ Ticks \/ UNCHANGED gameVars

(* Every step has one of those effects on the game. *)
LEMMA StepEffect ==
    ASSUME TypeInv, [Next]_vars
    PROVE  GameStep
<1>1. CASE UNCHANGED vars
  BY <1>1 DEF GameStep, gameVars, vars, clockVars, outcomeVars, roomVars
<1>2. ASSUME NEW f \in Conns, Join(f) PROVE GameStep
  BY <1>2, SMTT(20)
  DEF GameStep, Join, Starts, StartGame, contextVars, roomVars
<1>3. ASSUME NEW f \in Conns, NEW r \in BOOLEAN, BindReservedPlayer(f, r)
      PROVE  GameStep
  <2>1. UNCHANGED <<remaining_ms, turn, moves, think, contextVars>>
    BY <1>3 DEF BindReservedPlayer, contextVars, roomVars
  <2>2. CASE BindStarts(seat_of_db(Owner[f]))
    <3>1. StartGame /\ state = "WAITING" /\ kind = "tournament"
      BY <1>3, <2>2 DEF BindReservedPlayer, BindStarts
    <3> QED
      BY <2>1, <3>1 DEF GameStep, Starts
  <2>3. CASE ~BindStarts(seat_of_db(Owner[f]))
    <3>1. UNCHANGED <<outcomeVars, clock_start>>
      BY <1>3, <2>3 DEF BindReservedPlayer
    <3> QED
      BY <2>1, <3>1 DEF GameStep, gameVars, clockVars, outcomeVars, contextVars
  <2> QED
    BY <2>2, <2>3
<1>4. ASSUME NEW f \in Conns, OnReconnectDbPlayer(f) PROVE GameStep
  BY <1>4
  DEF GameStep, OnReconnectDbPlayer, gameVars, clockVars, outcomeVars, roomVars
<1>5. ASSUME NEW f \in Conns, NEW s \in BoardVerdicts, NEW t2 \in now..(now
             + MoveLag), NEW t3 \in now..(now + MoveLag), t2 <= t3,
             SubmitMove(f, s, t2, t3)
      PROVE  GameStep
  <2>1. PlayMove(turn, s, t2, t3) /\ state = "IN_PROGRESS" /\ ~check_flag
    BY <1>5 DEF SubmitMove
  <2>2. UNCHANGED <<kind, increment>>
    BY <1>5 DEF SubmitMove, roomVars
  <2> QED
    BY <1>5, <2>1, <2>2 DEF GameStep, Plays
<1>6. ASSUME NEW f \in Conns, SubmitMoveFlagged(f) PROVE GameStep
  <2>1. FinishAsIs("TIMEOUT", Loses(turn)) /\ state = "IN_PROGRESS"
    BY <1>6 DEF SubmitMoveFlagged
  <2>2. UNCHANGED <<clockVars, contextVars>>
    BY <1>6 DEF SubmitMoveFlagged, roomVars, contextVars
  <2>3. "TIMEOUT" \in Statuses /\ Loses(turn) \in Results
    BY ColorOf DEF Statuses, Results, Loses, AbandonmentResult, TypeInv, TypeOK
  <2> QED
    BY <2>1, <2>2, <2>3 DEF GameStep, Ends
<1>7. ASSUME NEW f \in Conns, Resign(f) PROVE GameStep
  <2>1. FinishAsIs("RESIGNATION", Loses(color_of(f))) /\ state = "IN_PROGRESS"
    BY <1>7 DEF Resign
  <2>2. UNCHANGED <<clockVars, contextVars>>
    BY <1>7 DEF Resign, roomVars, contextVars
  <2>3. "RESIGNATION" \in Statuses /\ Loses(color_of(f)) \in Results
    BY ColorOf DEF Statuses, Results, Loses, AbandonmentResult, TypeInv, TypeOK
  <2> QED
    BY <2>1, <2>2, <2>3 DEF GameStep, Ends
<1>8. ASSUME NEW f \in Conns, OfferDraw(f) PROVE GameStep
  BY <1>8
  DEF GameStep, OfferDraw, gameVars, clockVars, outcomeVars, roomVars
<1>9. ASSUME NEW f \in Conns, NEW a \in BOOLEAN, RespondToDrawBegin(f, a)
      PROVE  GameStep
  BY <1>9
  DEF GameStep, RespondToDrawBegin, gameVars, clockVars, outcomeVars, roomVars
<1>10. ASSUME NEW f \in Conns, OfferRematch(f) PROVE GameStep
  BY <1>10
  DEF GameStep, OfferRematch, gameVars, clockVars, outcomeVars, roomVars
<1>11. ASSUME NEW f \in Conns, RespondToRematch(f) PROVE GameStep
  BY <1>11
  DEF GameStep, RespondToRematch, gameVars, clockVars, outcomeVars, roomVars
<1>12. ASSUME NEW f \in Conns, AddSpectator(f) PROVE GameStep
  BY <1>12
  DEF GameStep, AddSpectator, gameVars, clockVars, outcomeVars, roomVars
<1>13. ASSUME NEW f \in Conns, RemoveSpectator(f) PROVE GameStep
  BY <1>13
  DEF GameStep, RemoveSpectator, gameVars, clockVars, outcomeVars, roomVars
<1>14. ASSUME NEW f \in Conns, OnDisconnect(f) PROVE GameStep
  <2>1. UNCHANGED <<clockVars, contextVars>>
    BY <1>14 DEF OnDisconnect, contextVars, roomVars
  <2>2. (DepartureEnds /\ FinishAsIs("RESIGNATION", "*")) \/ UNCHANGED outcomeVars
    BY <1>14 DEF OnDisconnect
  <2>3. "RESIGNATION" \in Statuses /\ "*" \in Results
    BY DEF Statuses, Results
  <2> QED
    BY <2>1, <2>2, <2>3
    DEF GameStep, Ends, DepartureEnds, gameVars, contextVars, outcomeVars
<1>15. ASSUME NEW s \in BoardVerdicts, NEW t2 \in now..(now + MoveLag), NEW
             t3 \in now..(now + MoveLag), t2 <= t3, SubmitMoveAi(s, t2, t3)
      PROVE  GameStep
  <2>1. PlayMove(turn, s, t2, t3) /\ state = "IN_PROGRESS" /\ ~check_flag
    BY <1>15 DEF SubmitMoveAi
  <2>2. UNCHANGED <<kind, increment>>
    BY <1>15 DEF SubmitMoveAi, roomVars
  <2> QED
    BY <1>15, <2>1, <2>2 DEF GameStep, Plays
<1>16. CASE SubmitMoveAiFlagged
  BY <1>16
  DEF GameStep, SubmitMoveAiFlagged, Flags
<1>17. ASSUME NEW p \in Players, AllowReservedPlayer(p) PROVE GameStep
  BY <1>17
  DEF GameStep, AllowReservedPlayer, gameVars, clockVars, outcomeVars, roomVars
<1>18. CASE OpenReserved
  <2>1. kind = "tournament" /\ UNCHANGED <<remaining_ms, turn, moves, think, contextVars>>
    BY <1>18 DEF OpenReserved, contextVars
  <2>2. (StartGame /\ state = "WAITING") \/ UNCHANGED <<outcomeVars, clock_start>>
    BY <1>18 DEF OpenReserved
  <2> QED
    BY <2>1, <2>2
    DEF GameStep, Starts, gameVars, clockVars, outcomeVars, contextVars
<1>19. CASE ExpireOnTime
  BY <1>19
  DEF GameStep, ExpireOnTime, Flags
<1>20. CASE ExpireDrawOffer
  BY <1>20
  DEF GameStep, ExpireDrawOffer, gameVars, clockVars, outcomeVars, roomVars
<1>21. CASE ExpireRematchOffer
  BY <1>21
  DEF GameStep, ExpireRematchOffer, gameVars, clockVars, outcomeVars, roomVars
<1>22. CASE ExpireDisconnected
  <2>1. FinishAsIs("ABANDONMENT", AbandonmentResult) /\ state = "IN_PROGRESS"
    BY <1>22 DEF ExpireDisconnected
  <2>2. UNCHANGED <<clockVars, contextVars>>
    BY <1>22 DEF ExpireDisconnected, roomVars, contextVars
  <2>3. "ABANDONMENT" \in Statuses /\ AbandonmentResult \in Results
    BY ColorOf DEF Statuses, Results, Loses, AbandonmentResult, TypeInv, TypeOK
  <2> QED
    BY <2>1, <2>2, <2>3 DEF GameStep, Ends
<1>23. CASE AddListener
  BY <1>23
  DEF GameStep, AddListener, gameVars, clockVars, outcomeVars, roomVars
<1>24. CASE DeliverCompleted
  BY <1>24
  DEF GameStep, DeliverCompleted, gameVars, clockVars, outcomeVars, roomVars
<1>25. CASE RespondToDraw
  <2>1. UNCHANGED <<clockVars, contextVars>>
    BY <1>25 DEF RespondToDraw, contextVars, roomVars
  <2>2. \/ state = "IN_PROGRESS" /\ FinishAsIs("DRAW_AGREEMENT", "1/2-1/2")
        \/ UNCHANGED outcomeVars
    BY <1>25 DEF RespondToDraw
  <2>3. "DRAW_AGREEMENT" \in Statuses /\ "1/2-1/2" \in Results
    BY DEF Statuses, Results
  <2> QED
    BY <2>1, <2>2, <2>3 DEF GameStep, Ends, gameVars, contextVars, outcomeVars
<1>26. CASE Tick
  BY <1>26
  DEF GameStep, Tick, Ticks, outcomeVars, roomVars
<1> QED
  BY <1>1, <1>2, <1>3, <1>4, <1>5, <1>6, <1>7, <1>8, <1>9, <1>10, <1>11,
     <1>12, <1>13, <1>14, <1>15, <1>16, <1>17, <1>18, <1>19, <1>20, <1>21,
     <1>22, <1>23, <1>24, <1>25, <1>26
  DEF Next, Request, Engine, Tournament, Maintenance

-----------------------------------------------------------------------------
(* The inductive invariant *)

(* In a waiting room nothing has happened to the board or the clocks. *)
WaitingFresh ==
    state = "WAITING" =>
      /\ kind # "ai" /\ now = 0 /\ turn = White
      /\ \A c \in Colors : moves[c] = 0 /\ think[c] = 0 /\ clock_start[c] = 0
      /\ remaining_ms[White] = BaseTime
      /\ remaining_ms[Black] = IF kind = "tournament" THEN BaseTime ELSE 0

(* Rematches are offered after the game. *)
RematchAfterEnd == rematch_offer_from # NoColor => state = "FINISHED"

GameInv == /\ TypeInv
           /\ WaitingFresh
           /\ RematchAfterEnd
           /\ CompletedOnce
           /\ TimeConserved
           /\ ThinkWithinBudget

(* A finished room is never restarted, and a rematch offer only appears    *)
(* in a finished room.                                                     *)
LEMMA RematchStep ==
    ASSUME TypeInv, GameStep, RematchAfterEnd,
           \/ UNCHANGED rematch_offer_from
           \/ rematch_offer_from' = NoColor
           \/ state = "FINISHED"
    PROVE  RematchAfterEnd'
BY DEF GameStep, Starts, Ends, Flags, FlagFell, Plays, PlayMove, Ticks, gameVars,
   StartGame, FinishAsIs, FinishGame, outcomeVars, RematchAfterEnd, BoardVerdicts

(* A room that still waits has no moves, no result and full clocks. *)
LEMMA FreshStep ==
    ASSUME TypeInv, GameStep, WaitingFresh, RematchAfterEnd
    PROVE  WaitingFresh'
BY DEF GameStep, Starts, Ends, Flags, FlagFell, Plays, PlayMove, Ticks, gameVars,
   StartGame, FinishAsIs, FinishGame, outcomeVars, clockVars, RematchAfterEnd,
   BoardVerdicts, WaitingFresh

(* The one GameCompleted event. *)
LEMMA CompletedStep ==
    ASSUME TypeInv, GameStep, CompletedOnce
    PROVE  CompletedOnce'
<1> USE DEF CompletedOnce
<1>1. CASE Starts
  BY <1>1 DEF Starts, StartGame
<1>2. CASE Ends
  <2> PICK s \in Statuses, r \in Results : FinishAsIs(s, r)
    BY <1>2 DEF Ends
  <2> QED
    BY <1>2 DEF Ends, FinishAsIs, FinishGame, clockVars
<1>3. CASE Flags
  BY <1>3 DEF Flags, FlagFell, FinishGame
<1>4. CASE Plays
  <2> PICK s \in BoardVerdicts, t2 \in now..(now + MoveLag),
           t3 \in now..(now + MoveLag) : PlayMove(turn, s, t2, t3)
    BY <1>4 DEF Plays
  <2>1. CASE s = "ONGOING"
    BY <1>4, <2>1 DEF Plays, PlayMove, outcomeVars
  <2>2. CASE s # "ONGOING"
    BY <1>4, <2>2 DEF Plays, PlayMove, FinishGame, BoardVerdicts
  <2> QED
    BY <2>1, <2>2
<1>5. CASE Ticks
  BY <1>5 DEF Ticks, clockVars
<1>6. CASE UNCHANGED gameVars
  BY <1>6 DEF gameVars, clockVars
<1> QED
  BY <1>1, <1>2, <1>3, <1>4, <1>5, <1>6 DEF GameStep

(* What a move does to the clocks. *)
LEMMA MoveCharges ==
    ASSUME TypeInv, Plays
    PROVE  \E t2, t3 \in Nat :
             /\ remaining_ms[turn] > now - clock_start[turn]
             /\ clock_start[turn] <= now
             /\ now <= t2 /\ t2 <= t3 /\ t2 <= now + MoveLag
             /\ remaining_ms' = [remaining_ms EXCEPT ![turn] = ChargeClock(turn, t3)]
             /\ clock_start' = [clock_start EXCEPT ![Opposite(turn)] = t3]
             /\ moves' = [moves EXCEPT ![turn] = @ + 1]
             /\ think' = [think EXCEPT ![turn] = @ + (t2 - clock_start[turn])]
             /\ turn' = Opposite(turn)
             /\ now' = t3
<1> PICK s \in BoardVerdicts, t2 \in now..(now + MoveLag),
         t3 \in now..(now + MoveLag) : t2 <= t3 /\ PlayMove(turn, s, t2, t3)
  BY DEF Plays
<1>1. t2 \in Nat /\ t3 \in Nat /\ now <= t2 /\ t2 <= now + MoveLag
  BY TimeAssumption DEF TypeInv, TypeOK
<1>2. remaining_ms[turn] > now - clock_start[turn] /\ clock_start[turn] <= now
  BY DEF Plays, check_flag, TypeInv, TypeOK, ClocksBehind
<1>3. /\ remaining_ms' = [remaining_ms EXCEPT ![turn] = ChargeClock(turn, t3)]
      /\ clock_start' = [clock_start EXCEPT ![Opposite(turn)] = t3]
      /\ moves' = [moves EXCEPT ![turn] = @ + 1]
      /\ think' = [think EXCEPT ![turn] = @ + (t2 - clock_start[turn])]
      /\ turn' = Opposite(turn)
      /\ now' = t3
  BY DEF PlayMove, RestartClock
<1> QED
  BY <1>1, <1>2, <1>3

(* The clocks keep adding up: only a move charges one and only it adds an  *)
(* increment.                                                              *)
LEMMA ConservedStep ==
    ASSUME TypeInv, GameStep, WaitingFresh, TimeConserved
    PROVE  TimeConserved'
<1> USE TimeAssumption DEF TypeInv, TypeOK, TimeConserved
<1>1. CASE Starts
  <2>1. /\ turn' = White /\ clock_start'[White] = 0
        /\ \A c \in Colors : moves'[c] = 0 /\ remaining_ms'[c] = BaseTime
    BY <1>1 DEF Starts, StartGame, WaitingFresh, contextVars, Colors, White, Black
  <2>2. increment' \in Nat
    BY <1>1 DEF Starts, contextVars
  <2> QED
    BY <2>1, <2>2 DEF Colors
<1>2. CASE Ends
  BY <1>2 DEF Ends, FinishAsIs, FinishGame, clockVars, contextVars, WaitingFresh
<1>3. CASE Flags
  BY <1>3 DEF Flags, FlagFell, Colors
<1>4. CASE Plays
  <2> SUFFICES ASSUME remaining_ms'[White] > 0, remaining_ms'[Black] > 0
               PROVE  TimeConserved'
    BY DEF Colors
  <2> PICK t2 \in Nat, t3 \in Nat :
             /\ remaining_ms[turn] > now - clock_start[turn]
             /\ clock_start[turn] <= now
             /\ now <= t2 /\ t2 <= t3 /\ t2 <= now + MoveLag
             /\ remaining_ms' = [remaining_ms EXCEPT ![turn] = ChargeClock(turn, t3)]
             /\ clock_start' = [clock_start EXCEPT ![Opposite(turn)] = t3]
             /\ moves' = [moves EXCEPT ![turn] = @ + 1]
             /\ turn' = Opposite(turn)
    BY <1>4, MoveCharges
  <2> DEFINE c == turn
             o == Opposite(turn)
  <2>1. c \in Colors /\ o \in Colors /\ c # o
    BY Opposites
  <2>2. /\ remaining_ms'[c] = remaining_ms[c] - (t3 - clock_start[c]) + increment
        /\ remaining_ms'[o] = remaining_ms[o]
        /\ clock_start'[turn'] = t3
        /\ moves'[c] = moves[c] + 1 /\ moves'[o] = moves[o]
    BY <2>1 DEF ChargeClock, ClampZero, Colors
  <2>3. remaining_ms[c] > 0 /\ remaining_ms[o] > 0
    BY <2>1, <2>2 DEF Colors
  <2>4. remaining_ms[c] + remaining_ms[o] + clock_start[c]
          = 2 * BaseTime + increment * moves[c] + increment * moves[o]
    BY <1>4, <2>1, <2>3 DEF Plays, Colors
  <2>5. increment \in Nat /\ increment' = increment
    BY <1>4 DEF Plays
  <2>6. /\ increment * (moves[c] + 1) = increment * moves[c] + increment
        /\ increment * moves[c] \in Nat /\ increment * moves[o] \in Nat
    BY <2>1, <2>5, OneMoreIncrement
  <2>7. remaining_ms'[c] + remaining_ms'[o] + clock_start'[turn']
          = 2 * BaseTime + increment' * moves'[c] + increment' * moves'[o]
    BY <2>1, <2>2, <2>4, <2>5, <2>6
  <2> QED
    BY <2>1, <2>2, <2>5, <2>7 DEF Colors
<1>5. CASE Ticks
  BY <1>5 DEF Ticks, clockVars
<1>6. CASE UNCHANGED gameVars
  BY <1>6 DEF gameVars, clockVars
<1> QED
  BY <1>1, <1>2, <1>3, <1>4, <1>5, <1>6 DEF GameStep

(* The side to move keeps the whole budget it had when its clock started. *)
LEMMA BudgetStep ==
    ASSUME TypeInv, GameStep, WaitingFresh, ThinkWithinBudget
    PROVE  ThinkWithinBudget'
<1> USE TimeAssumption DEF TypeInv, TypeOK
<1>1. CASE Starts
  <2> SUFFICES ASSUME NEW c \in Colors
               PROVE  think'[c] + remaining_ms'[c] <= BaseTime + increment' * moves'[c]
                        + (IF remaining_ms'[c] = 0 THEN MoveLag ELSE 0)
    BY DEF ThinkWithinBudget
  <2>1. moves'[c] = 0 /\ think'[c] = 0 /\ remaining_ms'[c] = BaseTime
    BY <1>1 DEF Starts, WaitingFresh, Colors, White, Black
  <2>2. increment' \in Nat
    BY <1>1 DEF Starts, contextVars
  <2>3. increment' * moves'[c] = 0
    <3> HIDE TimeAssumption DEF TypeInv, TypeOK
    <3> QED
      BY <2>1, <2>2, NoIncrement
  <2> QED
    BY <2>1, <2>3
<1>2. CASE Ends
  BY <1>2 DEF Ends, clockVars, contextVars, ThinkWithinBudget
<1>3. CASE Flags
  <2> SUFFICES ASSUME NEW c \in Colors
               PROVE  think'[c] + remaining_ms'[c] <= BaseTime + increment' * moves'[c]
                        + (IF remaining_ms'[c] = 0 THEN MoveLag ELSE 0)
    BY DEF ThinkWithinBudget
  <2>1. UNCHANGED <<think, moves, increment>>
    BY <1>3 DEF Flags, FlagFell, roomVars
  <2>2. think[c] + remaining_ms[c] <= BaseTime + increment * moves[c]
                        + (IF remaining_ms[c] = 0 THEN MoveLag ELSE 0)
    BY DEF ThinkWithinBudget
  <2>3. remaining_ms'[c] = 0 \/ remaining_ms'[c] = remaining_ms[c]
    BY <1>3 DEF Flags, FlagFell
  <2>4. increment * moves[c] \in Nat
    BY OneMoreIncrement
  <2> QED
    BY <2>1, <2>2, <2>3, <2>4
<1>4. CASE Plays
  <2> PICK t2 \in Nat, t3 \in Nat :
             /\ remaining_ms[turn] > now - clock_start[turn]
             /\ clock_start[turn] <= now
             /\ now <= t2 /\ t2 <= t3 /\ t2 <= now + MoveLag
             /\ remaining_ms' = [remaining_ms EXCEPT ![turn] = ChargeClock(turn, t3)]
             /\ moves' = [moves EXCEPT ![turn] = @ + 1]
             /\ think' = [think EXCEPT ![turn] = @ + (t2 - clock_start[turn])]
    BY <1>4, MoveCharges
  <2> SUFFICES ASSUME NEW c \in Colors
               PROVE  think'[c] + remaining_ms'[c] <= BaseTime + increment' * moves'[c]
                        + (IF remaining_ms'[c] = 0 THEN MoveLag ELSE 0)
    BY DEF ThinkWithinBudget
  <2>1. think[c] + remaining_ms[c] <= BaseTime + increment * moves[c]
                        + (IF remaining_ms[c] = 0 THEN MoveLag ELSE 0)
    BY DEF ThinkWithinBudget
  <2>2. increment \in Nat /\ increment' = increment
    BY <1>4 DEF Plays
  <2>3. CASE c # turn
    BY <2>1, <2>2, <2>3
  <2>4. CASE c = turn
    <3>1. /\ moves'[c] = moves[c] + 1
          /\ think'[c] = think[c] + (t2 - clock_start[c])
          /\ remaining_ms'[c] = ChargeClock(c, t3)
      BY <2>4
    <3>2. /\ increment * moves'[c] = increment * moves[c] + increment
          /\ increment * moves[c] \in Nat
      BY <2>2, <3>1, OneMoreIncrement
    <3>3. remaining_ms[c] > 0
      BY <2>4
    <3>4. CASE remaining_ms[c] - (t3 - clock_start[c]) + increment > 0
      BY <2>1, <2>2, <2>4, <3>1, <3>2, <3>3, <3>4 DEF ChargeClock, ClampZero
    <3>5. CASE remaining_ms[c] - (t3 - clock_start[c]) + increment <= 0
      <4>1. remaining_ms'[c] = 0
        BY <2>2, <3>1, <3>5 DEF ChargeClock, ClampZero
      <4> QED
        BY <2>1, <2>2, <2>4, <3>1, <3>2, <3>3, <4>1
    <3> QED
      BY <2>2, <3>4, <3>5
  <2> QED
    BY <2>3, <2>4
<1>5. CASE Ticks
  BY <1>5 DEF Ticks, clockVars, ThinkWithinBudget
<1>6. CASE UNCHANGED gameVars
  BY <1>6 DEF gameVars, clockVars, ThinkWithinBudget
<1> QED
  BY <1>1, <1>2, <1>3, <1>4, <1>5, <1>6 DEF GameStep

(* Where rematch offers come from. *)
LEMMA RematchChange ==
    ASSUME [Next]_vars
    PROVE  \/ UNCHANGED rematch_offer_from
           \/ rematch_offer_from' = NoColor
           \/ state = "FINISHED"
BY DEF Next, Request, Engine, Tournament, Maintenance, vars, rematchVars, Join,
   BindReservedPlayer, OnReconnectDbPlayer, SubmitMove, SubmitMoveFlagged, Resign,
   OfferDraw, RespondToDrawBegin, OfferRematch, RespondToRematch, AddSpectator,
   RemoveSpectator, OnDisconnect, SubmitMoveAi, SubmitMoveAiFlagged, FlagFell,
   AllowReservedPlayer, OpenReserved, ExpireOnTime, ExpireDrawOffer,
   ExpireRematchOffer, ExpireDisconnected, AddListener, DeliverCompleted,
   RespondToDraw, Tick, ClearRematchOffer

(* The three constructors establish the inductive invariant. *)
LEMMA GameInvInit == Init => GameInv
<1> SUFFICES ASSUME Init PROVE GameInv
  OBVIOUS
<1>1. TypeInv
  BY TypeInit
<1>2. /\ moves = [c \in Colors |-> 0] /\ think = [c \in Colors |-> 0]
      /\ clock_start = [c \in Colors |-> 0] /\ turn = White /\ now = 0
      /\ completions = 0 /\ rematch_offer_from = NoColor
  BY DEF Init
<1>3. /\ kind = "ai" => state = "IN_PROGRESS"
      /\ remaining_ms[White] = BaseTime
      /\ remaining_ms[Black] = IF kind = "human" THEN 0 ELSE BaseTime
      /\ kind \in {"human", "tournament"} => state = "WAITING"
      /\ kind \in {"human", "ai", "tournament"}
  BY DEF Init, InitHuman, InitAi, InitTournament, Colors, White, Black
<1>4. increment \in Nat /\ BaseTime \in Nat /\ MoveLag \in Nat
  BY <1>1, TimeAssumption DEF TypeInv, TypeOK
<1>5. WaitingFresh
  BY <1>2, <1>3 DEF WaitingFresh
<1>6. RematchAfterEnd /\ CompletedOnce
  BY <1>2, <1>3 DEF RematchAfterEnd, CompletedOnce
<1>7. TimeConserved
  BY <1>2, <1>3, <1>4 DEF TimeConserved, Colors
<1>8. ThinkWithinBudget
  BY <1>2, <1>3, <1>4 DEF ThinkWithinBudget, Colors
<1> QED
  BY <1>1, <1>5, <1>6, <1>7, <1>8 DEF GameInv

(* Every step of the room preserves the inductive invariant. *)
LEMMA GameInvStep == GameInv /\ [Next]_vars => GameInv'
<1> SUFFICES ASSUME GameInv, [Next]_vars PROVE GameInv'
  OBVIOUS
<1> USE DEF GameInv
<1>1. GameStep
  BY StepEffect
<1>2. TypeInv'
  BY TypeStep
<1>3. RematchAfterEnd'
  BY <1>1, RematchStep, RematchChange
<1>4. WaitingFresh'
  BY <1>1, FreshStep
<1>5. CompletedOnce'
  BY <1>1, CompletedStep
<1>6. TimeConserved'
  BY <1>1, ConservedStep
<1>7. ThinkWithinBudget'
  BY <1>1, BudgetStep
<1> QED
  BY <1>2, <1>3, <1>4, <1>5, <1>6, <1>7

(* In every behaviour a game is completed exactly once, and the event that *)
(* finish_game pinned keeps describing the room.                           *)
THEOREM GameCompletedOnce == Spec => []CompletedOnce
<1>1. GameInv => CompletedOnce
  BY DEF GameInv
<1> QED
  BY <1>1, GameInvInit, GameInvStep, PTL DEF Spec

(* The Fischer clocks neither create nor lose time. *)
THEOREM ClockTimeConserved == Spec => []TimeConserved
<1>1. GameInv => TimeConserved
  BY DEF GameInv
<1> QED
  BY <1>1, GameInvInit, GameInvStep, PTL DEF Spec

(* The recorded think times fit the clock, up to the handling delay of one *)
(* move.                                                                   *)
THEOREM ThinkFitsClock == Spec => []ThinkWithinBudget
<1>1. GameInv => ThinkWithinBudget
  BY DEF GameInv
<1> QED
  BY <1>1, GameInvInit, GameInvStep, PTL DEF Spec

(* game_room.cpp:1290: the clocks of a room are right, for every time      *)
(* control, number of moves and interleaving of the handlers.              *)
THEOREM ClocksAlwaysAddUp == Spec => []ClocksAddUp
BY TypeCorrect, ClockTimeConserved, ThinkFitsClock, PTL DEF ClocksAddUp

-----------------------------------------------------------------------------
(***************************************************************************)
(* Who sits where in a game room, what an offer refers to, and how a game  *)
(* may end: for every set of connections and players, and every order of   *)
(* joins, reconnects, takeovers, disconnects and maintenance passes.       *)
(***************************************************************************)
-----------------------------------------------------------------------------
(* The inductive invariant of the seats *)

(* A seat that holds a socket is connected, and the socket is its player's. *)
SocketsSitRight ==
    \A c \in Colors : connection_fd[c] \in Conns =>
        connected[c] /\ Owner[connection_fd[c]] = db_player_id[c]

(* The generation that claimed a seat is the socket on it, unless the seat *)
(* was detached; only a player's seat is ever claimed.                     *)
ClaimsHold ==
    \A c \in Colors : connection_generation[c] # 0 =>
        /\ connection_fd[c] \in {connection_generation[c], NoFd}
        /\ db_player_id[c] # 0

(* The two seats of a tournament room have different players, and so have  *)
(* those of a room that waits for its second player, who is not known yet. *)
PlayersDiffer ==
    /\ kind = "tournament" => db_player_id[White] # db_player_id[Black]
    /\ kind # "tournament" /\ state = "WAITING" =>
         db_player_id[White] # 0 /\ db_player_id[Black] = 0

(* Nobody is connected to a tournament room without having checked in. *)
ConnectedCheckedIn ==
    kind = "tournament" => \A c \in Colors : connected[c] => tournament_checked_in[c]

SeatInv == /\ TypeInv
           /\ SocketsSitRight
           /\ ClaimsHold
           /\ PlayersDiffer
           /\ ConnectedCheckedIn
           /\ TournamentGate
           /\ NoDeadSockets

(* No draw is offered before the game starts. *)
NoEarlyOffer == state = "WAITING" => draw_offer_from = NoColor

OfferInv == TypeInv /\ NoEarlyOffer /\ DrawOfferIsCurrent

-----------------------------------------------------------------------------
(* What a step can do to the seats, whoever takes it *)

(* A player's socket takes the player's own seat and claims it. *)
Takes(f, c) ==
    /\ f \notin closed /\ db_player_id[c] = Owner[f]
    /\ f >= connection_generation[c]
    /\ kind = "tournament" => tournament_checked_in[c]
    /\ connection_fd' = [connection_fd EXCEPT ![c] = f]
    /\ connection_generation' = [connection_generation EXCEPT ![c] = f]
    /\ connected' = [connected EXCEPT ![c] = TRUE]
    /\ UNCHANGED <<db_player_id, tournament_checked_in, closed, spectator_fds>>

(* The second player of an ordinary room sits down. *)
SitsDown(f) ==
    /\ f \notin closed
    /\ state = "WAITING" /\ state' # "WAITING"
    /\ kind # "tournament" /\ connection_fd[Black] = NoFd
    /\ connection_fd' = [connection_fd EXCEPT ![Black] = f]
    /\ db_player_id' = [db_player_id EXCEPT ![Black] = Owner[f]]
    /\ connected' = [connected EXCEPT ![Black] = TRUE]
    /\ UNCHANGED <<connection_generation, tournament_checked_in, closed,
                   spectator_fds>>

(* A socket closes: the seat it sits on is detached, if it has one. *)
Leaves(f) ==
    /\ closed' = closed \cup {f}
    /\ spectator_fds' = spectator_fds \ {f}
    /\ \/ \E c \in Colors :
            /\ connection_fd[c] = f
            /\ connection_fd' = [connection_fd EXCEPT ![c] = NoFd]
            /\ connected' = [connected EXCEPT ![c] = FALSE]
       \/ /\ \A c \in Colors : connection_fd[c] # f
          /\ UNCHANGED <<connection_fd, connected>>
    /\ UNCHANGED <<connection_generation, db_player_id, tournament_checked_in>>

(* Nobody sits down or gets up; spectators may come, players be let in. *)
KeepsSeats ==
    /\ UNCHANGED <<connection_fd, connection_generation, db_player_id,
                   connected, closed>>
    /\ spectator_fds' \subseteq spectator_fds \cup (Conns \ closed)
    /\ \A c \in Colors : tournament_checked_in[c] => tournament_checked_in'[c]

SeatStep == \/ \E f \in Conns, c \in Colors : Takes(f, c)
            \/ \E f \in Conns : SitsDown(f) \/ Leaves(f)
            \/ KeepsSeats

(* Every step has one of those effects on the seats. *)
LEMMA SeatEffect ==
    ASSUME SeatInv, [Next]_vars
    PROVE  SeatStep
<1> USE DEF KeepsSeats
<1>1. CASE UNCHANGED vars
  <2>1. KeepsSeats
    BY <1>1 DEF vars, seatVars, envVars
  <2> QED
    BY <2>1 DEF SeatStep
<1>2. ASSUME NEW f \in Conns, Join(f) PROVE SeatStep
  <2>1. SitsDown(f)
    BY <1>2 DEF Join, StartGame, SitsDown, CanAct, envVars
  <2> QED
    BY <2>1 DEF SeatStep
<1>3. ASSUME NEW f \in Conns, NEW r \in BOOLEAN, BindReservedPlayer(f, r)
      PROVE  SeatStep
  <2> DEFINE c == seat_of_db(Owner[f])
  <2>1. c \in Colors /\ db_player_id[c] = Owner[f]
    BY <1>3, SeatOf DEF BindReservedPlayer
  <2>2. Takes(f, c)
    <3>1. /\ CanAct(f) /\ tournament_checked_in[c] /\ NotReplaced(c, f)
          /\ AttachSeat(c, f)
          /\ connection_generation' = [connection_generation EXCEPT ![c] = f]
      BY <1>3 DEF BindReservedPlayer
    <3>2. UNCHANGED <<db_player_id, tournament_checked_in, closed, spectator_fds>>
      BY <1>3 DEF BindReservedPlayer, envVars
    <3> QED
      BY <2>1, <3>1, <3>2 DEF Takes, CanAct, NotReplaced, AttachSeat
  <2> QED
    BY <2>1, <2>2 DEF SeatStep
<1>4. ASSUME NEW f \in Conns, OnReconnectDbPlayer(f) PROVE SeatStep
  <2> DEFINE c == seat_of_db(Owner[f])
             Same == connected[c] /\ connection_fd[c] = f
  <2>1. c \in Colors /\ db_player_id[c] = Owner[f]
    BY <1>4, SeatOf DEF OnReconnectDbPlayer
  <2>2. /\ CanAct(f) /\ kind # "tournament" /\ NotReplaced(c, f)
        /\ connection_generation' = [connection_generation EXCEPT ![c] = f]
        /\ IF Same
           THEN UNCHANGED <<connection_fd, connected, disconnected_at>>
           ELSE AttachSeat(c, f)
    BY <1>4 DEF OnReconnectDbPlayer
  <2>3. UNCHANGED <<db_player_id, tournament_checked_in, closed, spectator_fds>>
    BY <1>4 DEF OnReconnectDbPlayer, envVars
  <2>4. /\ connection_fd' = [connection_fd EXCEPT ![c] = f]
        /\ connected' = [connected EXCEPT ![c] = TRUE]
    <3>1. CASE Same
      <4>1. connection_fd' = connection_fd /\ connected' = connected
        BY <2>2, <3>1
      <4>2. connection_fd \in [Colors -> Fds] /\ connected \in [Colors -> BOOLEAN]
        BY DEF SeatInv, TypeInv, TypeOK
      <4>3. connection_fd[c] = f /\ connected[c] = TRUE
        BY <2>1, <3>1, <4>2
      <4> QED
        BY <4>1, <4>2, <4>3
    <3>2. CASE ~Same
      BY <2>2, <3>2 DEF AttachSeat
    <3> QED
      BY <3>1, <3>2
  <2>5. Takes(f, c)
    BY <2>1, <2>2, <2>3, <2>4 DEF Takes, CanAct, NotReplaced
  <2> QED
    BY <2>1, <2>5 DEF SeatStep
<1>5. ASSUME NEW f \in Conns, NEW s \in BoardVerdicts, NEW t2 \in now..(now
             + MoveLag), NEW t3 \in now..(now + MoveLag), t2 <= t3,
             SubmitMove(f, s, t2, t3)
      PROVE  SeatStep
  BY <1>5 DEF SubmitMove, seatVars, envVars, SeatStep
<1>6. ASSUME NEW f \in Conns, SubmitMoveFlagged(f) PROVE SeatStep
  BY <1>6 DEF SubmitMoveFlagged, seatVars, envVars, SeatStep
<1>7. ASSUME NEW f \in Conns, Resign(f) PROVE SeatStep
  BY <1>7 DEF Resign, seatVars, envVars, SeatStep
<1>8. ASSUME NEW f \in Conns, OfferDraw(f) PROVE SeatStep
  BY <1>8 DEF OfferDraw, seatVars, envVars, SeatStep
<1>9. ASSUME NEW f \in Conns, NEW a \in BOOLEAN, RespondToDrawBegin(f, a)
      PROVE  SeatStep
  BY <1>9 DEF RespondToDrawBegin, seatVars, SeatStep
<1>10. ASSUME NEW f \in Conns, OfferRematch(f) PROVE SeatStep
  BY <1>10 DEF OfferRematch, seatVars, envVars, SeatStep
<1>11. ASSUME NEW f \in Conns, RespondToRematch(f) PROVE SeatStep
  BY <1>11 DEF RespondToRematch, seatVars, envVars, SeatStep
<1>12. ASSUME NEW f \in Conns, AddSpectator(f) PROVE SeatStep
  BY <1>12 DEF AddSpectator, seatVars, envVars, SeatStep, CanAct
<1>13. ASSUME NEW f \in Conns, RemoveSpectator(f) PROVE SeatStep
  BY <1>13 DEF RemoveSpectator, seatVars, envVars, SeatStep
<1>14. ASSUME NEW f \in Conns, OnDisconnect(f) PROVE SeatStep
  <2> DEFINE c == color_of(f)
  <2>1. /\ closed' = closed \cup {f}
        /\ spectator_fds' = spectator_fds \ {f}
        /\ UNCHANGED <<connection_generation, db_player_id, tournament_checked_in>>
    BY <1>14 DEF OnDisconnect
  <2>2. CASE c # NoColor
    <3>1. c \in Colors /\ connection_fd[c] = f
      BY <2>2, ColorOf
    <3>2. connected[c]
      BY <3>1 DEF SeatInv, SocketsSitRight
    <3>3. DetachSeat(c)
      BY <1>14, <2>2, <3>2 DEF OnDisconnect
    <3> QED
      BY <2>1, <3>1, <3>3 DEF SeatStep, Leaves, DetachSeat
  <2>3. CASE c = NoColor
    <3>1. \A d \in Colors : connection_fd[d] # f
      BY <2>3 DEF color_of, Colors, NoColor, White, Black
    <3>2. UNCHANGED <<connection_fd, connected>>
      BY <1>14, <2>3 DEF OnDisconnect
    <3> QED
      BY <2>1, <3>1, <3>2 DEF SeatStep, Leaves
  <2> QED
    BY <2>2, <2>3
<1>15. ASSUME NEW s \in BoardVerdicts, NEW t2 \in now..(now + MoveLag), NEW
             t3 \in now..(now + MoveLag), t2 <= t3, SubmitMoveAi(s, t2, t3)
      PROVE  SeatStep
  BY <1>15 DEF SubmitMoveAi, seatVars, envVars, SeatStep
<1>16. CASE SubmitMoveAiFlagged
  BY <1>16 DEF SubmitMoveAiFlagged, FlagFell, seatVars, envVars, SeatStep
<1>17. ASSUME NEW p \in Players, AllowReservedPlayer(p) PROVE SeatStep
  BY <1>17 DEF AllowReservedPlayer, envVars, SeatStep, SeatInv, TypeInv, TypeOK
<1>18. CASE OpenReserved
  BY <1>18 DEF OpenReserved, seatVars, envVars, SeatStep
<1>19. CASE ExpireOnTime
  BY <1>19 DEF ExpireOnTime, FlagFell, seatVars, envVars, SeatStep
<1>20. CASE ExpireDrawOffer
  BY <1>20 DEF ExpireDrawOffer, seatVars, envVars, SeatStep
<1>21. CASE ExpireRematchOffer
  BY <1>21 DEF ExpireRematchOffer, seatVars, envVars, SeatStep
<1>22. CASE ExpireDisconnected
  BY <1>22 DEF ExpireDisconnected, seatVars, envVars, SeatStep
<1>23. CASE AddListener
  BY <1>23 DEF AddListener, seatVars, envVars, SeatStep
<1>24. CASE DeliverCompleted
  BY <1>24 DEF DeliverCompleted, seatVars, envVars, SeatStep
<1>25. CASE RespondToDraw
  BY <1>25 DEF RespondToDraw, seatVars, envVars, SeatStep
<1>26. CASE Tick
  BY <1>26 DEF Tick, seatVars, envVars, SeatStep
<1> QED
  BY <1>1, <1>2, <1>3, <1>4, <1>5, <1>6, <1>7, <1>8, <1>9, <1>10, <1>11,
     <1>12, <1>13, <1>14, <1>15, <1>16, <1>17, <1>18, <1>19, <1>20, <1>21,
     <1>22, <1>23, <1>24, <1>25, <1>26
  DEF Next, Request, Engine, Tournament, Maintenance

-----------------------------------------------------------------------------
(* The gate of a tournament room *)

(* A room keeps its kind, never waits again, and stays open once opened. *)
LEMMA RoomOnward ==
    ASSUME TypeInv, [Next]_vars
    PROVE  /\ kind' = kind
           /\ state' = "WAITING" => state = "WAITING"
           /\ reserved_open => reserved_open'
<1>1. GameStep
  BY StepEffect
<1>2. kind' = kind
  BY <1>1
  DEF GameStep, Starts, Ends, Flags, FlagFell, Plays, Ticks, gameVars, contextVars,
      roomVars
<1>3. state' = "WAITING" => state = "WAITING"
  BY <1>1
  DEF GameStep, Starts, StartGame, Ends, FinishAsIs, FinishGame, Flags, FlagFell,
      Plays, PlayMove, outcomeVars, Ticks, gameVars, BoardVerdicts
<1>4. reserved_open => reserved_open'
  BY DEF vars, roomVars, Next, Request, Engine, Tournament, Maintenance, Join,
     BindReservedPlayer, OnReconnectDbPlayer, SubmitMove, SubmitMoveFlagged,
     Resign, OfferDraw, RespondToDrawBegin, OfferRematch, RespondToRematch,
     AddSpectator, RemoveSpectator, OnDisconnect, SubmitMoveAi,
     SubmitMoveAiFlagged, FlagFell, AllowReservedPlayer, OpenReserved,
     ExpireOnTime, ExpireDrawOffer, ExpireRematchOffer, ExpireDisconnected,
     AddListener, DeliverCompleted, RespondToDraw, Tick
<1> QED
  BY <1>2, <1>3, <1>4

(* A tournament room only starts when it is open and both are connected. *)
LEMMA GateOpens ==
    ASSUME SeatInv, [Next]_vars, kind = "tournament", state = "WAITING",
           state' # "WAITING"
    PROVE  reserved_open' /\ \A c \in Colors : connected'[c]
<1>1. ASSUME NEW f \in Conns, NEW r \in BOOLEAN, BindReservedPlayer(f, r)
      PROVE  reserved_open' /\ \A c \in Colors : connected'[c]
  <2> DEFINE c == seat_of_db(Owner[f])
  <2>1. c \in Colors
    BY <1>1, SeatOf DEF BindReservedPlayer
  <2>2. AttachSeat(c, f)
    BY <1>1 DEF BindReservedPlayer
  <2>3. BindStarts(c)
    BY <1>1 DEF BindReservedPlayer, outcomeVars
  <2>4. reserved_open' = reserved_open
    BY <1>1 DEF BindReservedPlayer, roomVars
  <2>5. connected'[c] /\ connected'[Opposite(c)]
    BY <2>1, <2>2, <2>3, Opposites
    DEF AttachSeat, BindStarts, SeatInv, TypeInv, TypeOK
  <2> QED
    BY <2>1, <2>3, <2>4, <2>5, Opposites DEF BindStarts
<1>2. ASSUME OpenReserved
      PROVE  reserved_open' /\ \A c \in Colors : connected'[c]
  <2>1. connected[White] /\ connected[Black] /\ reserved_open'
    BY <1>2 DEF OpenReserved, outcomeVars
  <2>2. connected' = connected
    BY <1>2 DEF OpenReserved, seatVars
  <2> QED
    BY <2>1, <2>2 DEF Colors
<1>3. ASSUME NEW f \in Conns, OnDisconnect(f) PROVE FALSE
  BY <1>3 DEF OnDisconnect, DepartureEnds, outcomeVars
<1>4. ASSUME RespondToDraw PROVE FALSE
  BY <1>4 DEF RespondToDraw, outcomeVars
<1> QED
  BY <1>1, <1>2, <1>3, <1>4
  DEF vars, outcomeVars, Next, Request, Engine, Tournament, Maintenance, Join,
     OnReconnectDbPlayer, SubmitMove, SubmitMoveFlagged,
     Resign, OfferDraw, RespondToDrawBegin, OfferRematch, RespondToRematch,
     AddSpectator, RemoveSpectator, SubmitMoveAi,
     SubmitMoveAiFlagged, AllowReservedPlayer,
     ExpireOnTime, ExpireDrawOffer, ExpireRematchOffer, ExpireDisconnected,
     AddListener, DeliverCompleted, Tick

-----------------------------------------------------------------------------
(* The seats stay right *)

(* The constructors seat a player with the player's own connection. *)
LEMMA SeatInvInit == Init => SeatInv
<1> SUFFICES ASSUME Init PROVE SeatInv
  OBVIOUS
<1> USE ConnAssumption, PlayerAssumption, OwnerAssumption
    DEF Colors, White, Black, NoFd, AiFd
<1>1. TypeInv
  BY TypeInit
<1>2. /\ connection_generation = [c \in Colors |-> 0]
      /\ closed = {} /\ spectator_fds = {}
  BY DEF Init
<1>3. /\ SocketsSitRight
      /\ PlayersDiffer
      /\ ConnectedCheckedIn
      /\ TournamentGate
  <2>1. CASE InitHuman
    <3> PICK f \in Conns :
          /\ connection_fd = [c \in Colors |-> IF c = White THEN f ELSE NoFd]
          /\ db_player_id = [c \in Colors |-> IF c = White THEN Owner[f] ELSE 0]
      BY <2>1 DEF InitHuman
    <3>1. connection_fd[White] = f /\ connection_fd[Black] = NoFd
      OBVIOUS
    <3>2. db_player_id[White] = Owner[f] /\ db_player_id[Black] = 0
      OBVIOUS
    <3>3. NoFd \notin Conns /\ Owner[f] # 0
      OBVIOUS
    <3>4. kind = "human" /\ state = "WAITING" /\ connected[White]
      BY <2>1 DEF InitHuman
    <3> QED
      BY <3>1, <3>2, <3>3, <3>4 DEF SocketsSitRight, PlayersDiffer,
         ConnectedCheckedIn, TournamentGate
  <2>2. CASE InitAi
    BY <2>2 DEF InitAi, SocketsSitRight, PlayersDiffer, ConnectedCheckedIn,
       TournamentGate
  <2>3. CASE InitTournament
    BY <2>3 DEF InitTournament, SocketsSitRight, PlayersDiffer,
       ConnectedCheckedIn, TournamentGate
  <2> QED
    BY <2>1, <2>2, <2>3 DEF Init
<1>4. ClaimsHold /\ NoDeadSockets
  BY <1>2 DEF ClaimsHold, NoDeadSockets
<1> QED
  BY <1>1, <1>3, <1>4 DEF SeatInv

(* Taking a seat, sitting down and leaving keep every socket on its own    *)
(* player's seat, and every claim with its socket.                         *)
LEMMA SeatingStep ==
    ASSUME SeatInv, SeatStep, kind' = kind, state' = "WAITING" => state = "WAITING"
    PROVE  SocketsSitRight' /\ ClaimsHold' /\ ConnectedCheckedIn'
<1> USE ConnAssumption, PlayerAssumption, OwnerAssumption
    DEF SeatInv, TypeInv, TypeOK, SocketsSitRight, ClaimsHold, ConnectedCheckedIn,
        NoFd, AiFd, Fds
<1>1. ASSUME NEW f \in Conns, NEW c \in Colors, Takes(f, c)
      PROVE  SocketsSitRight' /\ ClaimsHold' /\ ConnectedCheckedIn'
  BY <1>1 DEF Takes
<1>2. ASSUME NEW f \in Conns, SitsDown(f)
      PROVE  SocketsSitRight' /\ ClaimsHold' /\ ConnectedCheckedIn'
  <2>1. connection_generation[Black] = 0
    BY <1>2 DEF SitsDown, PlayersDiffer, Colors
  <2> QED
    BY <1>2, <2>1 DEF SitsDown, Colors
<1>3. ASSUME NEW f \in Conns, Leaves(f)
      PROVE  SocketsSitRight' /\ ClaimsHold' /\ ConnectedCheckedIn'
  BY <1>3 DEF Leaves
<1>4. ASSUME KeepsSeats
      PROVE  SocketsSitRight' /\ ClaimsHold' /\ ConnectedCheckedIn'
  BY <1>4 DEF KeepsSeats
<1> QED
  BY <1>1, <1>2, <1>3, <1>4 DEF SeatStep

(* The two players stay as they are but for the second one who sits down.  *)
LEMMA PlayersStep ==
    ASSUME SeatInv, SeatStep, kind' = kind, state' = "WAITING" => state = "WAITING"
    PROVE  PlayersDiffer'
<1>1. CASE UNCHANGED db_player_id
  BY <1>1 DEF SeatInv, PlayersDiffer
<1>2. ASSUME NEW f \in Conns, SitsDown(f) PROVE PlayersDiffer'
  BY <1>2 DEF SitsDown, PlayersDiffer
<1> QED
  BY <1>1, <1>2 DEF SeatStep, Takes, Leaves, KeepsSeats

(* A socket that sits down is open, and one that closes is taken from the  *)
(* one seat it can sit on, and from the spectators.                        *)
LEMMA SocketsStep ==
    ASSUME SeatInv, SeatStep
    PROVE  NoDeadSockets'
<1> USE ConnAssumption, PlayerAssumption, OwnerAssumption
    DEF SeatInv, TypeInv, TypeOK, NoDeadSockets, Colors, White, Black, NoFd, AiFd, Fds
<1>1. ASSUME NEW f \in Conns, NEW c \in Colors, Takes(f, c) PROVE NoDeadSockets'
  BY <1>1 DEF Takes
<1>2. ASSUME NEW f \in Conns, SitsDown(f) PROVE NoDeadSockets'
  <2>1. connection_fd[White] \notin closed
    BY <1>2 DEF SitsDown, PlayersDiffer
  <2> QED
    BY <1>2, <2>1 DEF SitsDown
<1>3. ASSUME NEW f \in Conns, Leaves(f) PROVE NoDeadSockets'
  <2>1. spectator_fds' \cap closed' = {}
    BY <1>3 DEF Leaves
  <2>2. ASSUME db_player_id[White] # db_player_id[Black], NEW c \in Colors
        PROVE  connection_fd'[c] \notin closed'
    <3>1. connection_fd[White] = f => connection_fd[Black] # f
      BY <2>2 DEF SocketsSitRight
    <3>2. connection_fd'[c] # f /\ connection_fd'[c] \in {connection_fd[c], NoFd}
      BY <1>3, <3>1 DEF Leaves
    <3>3. closed' = closed \cup {f}
      BY <1>3 DEF Leaves
    <3> QED
      BY <2>2, <3>2, <3>3
  <2>3. db_player_id' = db_player_id
    BY <1>3 DEF Leaves
  <2> QED
    BY <2>1, <2>2, <2>3
<1>4. ASSUME KeepsSeats PROVE NoDeadSockets'
  BY <1>4 DEF KeepsSeats
<1> QED
  BY <1>1, <1>2, <1>3, <1>4 DEF SeatStep

(* The gate: the start needs both connected, which needs both checked in.  *)
LEMMA GateStep ==
    ASSUME SeatInv, [Next]_vars, ConnectedCheckedIn', SeatStep
    PROVE  TournamentGate'
<1>1. /\ kind' = kind
      /\ reserved_open => reserved_open'
  BY RoomOnward DEF SeatInv
<1>2. \A c \in Colors : tournament_checked_in[c] => tournament_checked_in'[c]
  BY DEF SeatStep, Takes, SitsDown, Leaves, KeepsSeats
<1>3. CASE state = "WAITING" /\ state' # "WAITING"
  BY <1>1, <1>3, GateOpens DEF TournamentGate, ConnectedCheckedIn
<1>4. CASE ~(state = "WAITING" /\ state' # "WAITING")
  BY <1>1, <1>2, <1>4 DEF TournamentGate, SeatInv
<1> QED
  BY <1>3, <1>4

(* Every step of the room preserves the invariant of the seats. *)
LEMMA SeatInvStep == SeatInv /\ [Next]_vars => SeatInv'
<1> SUFFICES ASSUME SeatInv, [Next]_vars PROVE SeatInv'
  OBVIOUS
<1>1. TypeInv /\ TypeInv'
  BY TypeStep DEF SeatInv
<1>2. kind' = kind /\ (state' = "WAITING" => state = "WAITING")
  BY <1>1, RoomOnward
<1>3. SeatStep
  BY SeatEffect
<1>4. SocketsSitRight' /\ ClaimsHold' /\ ConnectedCheckedIn'
  BY <1>2, <1>3, SeatingStep
<1>5. PlayersDiffer'
  BY <1>2, <1>3, PlayersStep
<1>6. NoDeadSockets'
  BY <1>3, SocketsStep
<1>7. TournamentGate'
  BY <1>3, <1>4, GateStep
<1> QED
  BY <1>1, <1>4, <1>5, <1>6, <1>7 DEF SeatInv

(* A claim is only ever replaced by a younger connection's, and the seat   *)
(* never goes back to an older one.                                        *)
AuthorityKept ==
    \A c \in Colors :
      /\ connection_generation'[c] >= connection_generation[c]
      /\ (connection_generation[c] # 0 /\ connection_fd'[c] # NoFd)
           => connection_fd'[c] >= connection_generation[c]

(* Each step keeps it. *)
LEMMA AuthorityStep == SeatInv /\ [Next]_vars => AuthorityKept
<1> SUFFICES ASSUME SeatInv, [Next]_vars, NEW c \in Colors
             PROVE  /\ connection_generation'[c] >= connection_generation[c]
                    /\ (connection_generation[c] # 0 /\ connection_fd'[c] # NoFd)
                         => connection_fd'[c] >= connection_generation[c]
  BY DEF AuthorityKept
<1>1. SeatStep
  BY SeatEffect
<1>2. SeatInv'
  BY SeatInvStep
<1>3. /\ connection_generation[c] \in Nat /\ connection_generation'[c] \in Nat
      /\ connection_generation \in [Colors -> Conns \cup {0}]
  <2>1. connection_generation \in [Colors -> Conns \cup {0}]
    BY DEF SeatInv, TypeInv, TypeOK
  <2>2. connection_generation' \in [Colors -> Conns \cup {0}]
    BY <1>2 DEF SeatInv, TypeInv, TypeOK
  <2>3. \A x \in Conns \cup {0} : x \in Nat
    BY ConnAssumption
  <2> QED
    BY <2>1, <2>2, <2>3
<1>4. connection_generation'[c] >= connection_generation[c]
  <2>1. ASSUME NEW f \in Conns, NEW d \in Colors, Takes(f, d)
        PROVE  connection_generation'[c] >= connection_generation[c]
    BY <1>3, <2>1 DEF Takes
  <2>2. CASE UNCHANGED connection_generation
    BY <1>3, <2>2
  <2> QED
    BY <1>1, <2>1, <2>2 DEF SeatStep, SitsDown, Leaves, KeepsSeats
<1>5. connection_generation'[c] # 0 /\ connection_fd'[c] # NoFd
        => connection_fd'[c] = connection_generation'[c]
  BY <1>2 DEF SeatInv, ClaimsHold
<1> QED
  BY <1>3, <1>4, <1>5

(* game_room.cpp, bind_reserved_player, on_reconnect_db_player and         *)
(* on_disconnect: through any number of takeovers, refreshes and closing   *)
(* sockets a seat stays with its player and its youngest connection.       *)
THEOREM SeatsStaySafe == Spec => SeatsAreSafe
<1>1. SeatInv => TournamentGate /\ NoDeadSockets
  BY DEF SeatInv
<1>2. Spec => [][AuthorityKept]_vars
  <2>1. SeatInv /\ [Next]_vars => [AuthorityKept]_vars
    BY AuthorityStep
  <2> QED
    BY <2>1, SeatInvInit, SeatInvStep, PTL DEF Spec
<1>3. Spec => []TournamentGate /\ []NoDeadSockets
  BY <1>1, SeatInvInit, SeatInvStep, PTL DEF Spec
<1> QED
  BY <1>2, <1>3, PTL DEF SeatsAreSafe, AuthorityNeverReverts, AuthorityKept

-----------------------------------------------------------------------------
(* Draw offers *)

(* What a step can do to the draw offer: withdraw it, make one, or keep it *)
(* while no clock of its maker is started.                                 *)
OfferStep ==
    \/ draw_offer_from' = NoColor
    \/ /\ state = "IN_PROGRESS" /\ kind # "ai"
       /\ draw_offer_from' \in Colors /\ draw_offer_created_at' = now
       /\ UNCHANGED <<clock_start, state>>
    \/ /\ UNCHANGED drawVars
       /\ \/ UNCHANGED clock_start
          \/ state = "WAITING"
          \/ kind = "ai"
          \/ /\ draw_offer_from # Opposite(turn)
             /\ \E t \in Nat :
                  clock_start' = [clock_start EXCEPT ![Opposite(turn)] = t]

(* Every step does one of these to the offer. *)
LEMMA OfferEffect ==
    ASSUME TypeInv, [Next]_vars
    PROVE  OfferStep
<1> USE DEF OfferStep
<1>1. CASE UNCHANGED vars
  BY <1>1 DEF vars, clockVars
<1>2. ASSUME NEW f \in Conns, NEW s \in BoardVerdicts, NEW t2 \in now..(now
             + MoveLag), NEW t3 \in now..(now + MoveLag), t2 <= t3,
             SubmitMove(f, s, t2, t3)
      PROVE  OfferStep
  <2>1. clock_start' = [clock_start EXCEPT ![Opposite(turn)] = t3] /\ t3 \in Nat
    BY <1>2, TimeAssumption DEF SubmitMove, PlayMove, RestartClock, TypeInv, TypeOK
  <2>2. \/ draw_offer_from' = NoColor
        \/ draw_offer_from # Opposite(turn) /\ UNCHANGED drawVars
    BY <1>2 DEF SubmitMove, ImplicitDecline, ClearDrawOffer
  <2> QED
    BY <2>1, <2>2
<1>3. ASSUME NEW s \in BoardVerdicts, NEW t2 \in now..(now + MoveLag), NEW
             t3 \in now..(now + MoveLag), t2 <= t3, SubmitMoveAi(s, t2, t3)
      PROVE  OfferStep
  BY <1>3 DEF SubmitMoveAi
<1>4. ASSUME NEW f \in Conns, NEW r \in BOOLEAN, BindReservedPlayer(f, r)
      PROVE  OfferStep
  <2>1. UNCHANGED drawVars
    BY <1>4 DEF BindReservedPlayer
  <2>2. state = "WAITING" \/ UNCHANGED clock_start
    BY <1>4 DEF BindReservedPlayer, BindStarts
  <2> QED
    BY <2>1, <2>2
<1>5. ASSUME NEW f \in Conns, OfferDraw(f) PROVE OfferStep
  BY <1>5, ColorOf DEF OfferDraw, clockVars, outcomeVars
<1>6. CASE OpenReserved
  BY <1>6 DEF OpenReserved
<1>7. ASSUME NEW f \in Conns, NEW a \in BOOLEAN, RespondToDrawBegin(f, a)
      PROVE  OfferStep
  BY <1>7 DEF RespondToDrawBegin, ClearDrawOffer, clockVars
<1>8. CASE RespondToDraw
  BY <1>8 DEF RespondToDraw, ClearDrawOffer, clockVars
<1>9. ASSUME NEW f \in Conns, OnDisconnect(f) PROVE OfferStep
  BY <1>9 DEF OnDisconnect, clockVars
<1>10. ASSUME NEW f \in Conns, OnReconnectDbPlayer(f) PROVE OfferStep
  BY <1>10 DEF OnReconnectDbPlayer, clockVars
<1> QED
  BY <1>1, <1>2, <1>3, <1>4, <1>5, <1>6, <1>7, <1>8, <1>9, <1>10
  DEF clockVars, Next, Request, Engine, Tournament, Maintenance, Join,
     SubmitMoveFlagged, Resign, OfferRematch, RespondToRematch,
     AddSpectator, RemoveSpectator, SubmitMoveAiFlagged, FlagFell,
     AllowReservedPlayer, ExpireOnTime, ExpireDrawOffer, ClearDrawOffer,
     ExpireRematchOffer, ExpireDisconnected, AddListener, DeliverCompleted, Tick

(* An offer that stays on the table stays current. *)
LEMMA OfferInvStep == OfferInv /\ [Next]_vars => OfferInv'
<1> SUFFICES ASSUME OfferInv, [Next]_vars PROVE OfferInv'
  OBVIOUS
<1>1. TypeInv /\ TypeInv'
  BY TypeStep DEF OfferInv
<1>2. kind' = kind /\ (state' = "WAITING" => state = "WAITING")
  BY <1>1, RoomOnward
<1>3. OfferStep
  BY <1>1, OfferEffect
<1>4. NoEarlyOffer'
  BY <1>2, <1>3 DEF OfferStep, OfferInv, NoEarlyOffer, drawVars
<1>5. DrawOfferIsCurrent'
  <2> SUFFICES ASSUME state' = "IN_PROGRESS", draw_offer_from' # NoColor
               PROVE  /\ kind' # "ai"
                      /\ draw_offer_created_at' >= clock_start'[draw_offer_from']
    BY DEF DrawOfferIsCurrent
  <2>1. CASE /\ kind # "ai"
             /\ draw_offer_from' \in Colors /\ draw_offer_created_at' = now
             /\ UNCHANGED <<clock_start, state>>
    BY <1>1, <1>2, <2>1 DEF TypeInv, TypeOK, ClocksBehind
  <2>2. CASE UNCHANGED drawVars
    <3>1. /\ draw_offer_from' = draw_offer_from
          /\ draw_offer_created_at' = draw_offer_created_at
          /\ draw_offer_from \in Colors
      BY <1>1, <2>2 DEF drawVars, TypeInv, TypeOK
    <3>2. state # "WAITING"
      BY <3>1 DEF OfferInv, NoEarlyOffer
    <3>3. state = "IN_PROGRESS"
      <4>1. GameStep
        BY <1>1, StepEffect
      <4> QED
        BY <1>1, <3>2, <4>1
        DEF GameStep, Starts, Ends, Flags, Plays, Ticks, gameVars, TypeInv, TypeOK
    <3>4. kind # "ai" /\ draw_offer_created_at >= clock_start[draw_offer_from]
      BY <3>1, <3>3 DEF OfferInv, DrawOfferIsCurrent
    <3>5. clock_start'[draw_offer_from] = clock_start[draw_offer_from]
      <4>1. CASE UNCHANGED clock_start
        BY <4>1
      <4>2. ASSUME draw_offer_from # Opposite(turn), NEW t \in Nat,
                   clock_start' = [clock_start EXCEPT ![Opposite(turn)] = t]
            PROVE  clock_start'[draw_offer_from] = clock_start[draw_offer_from]
        BY <1>1, <3>1, <4>2 DEF TypeInv, TypeOK
      <4>3. \/ UNCHANGED clock_start
            \/ /\ draw_offer_from # Opposite(turn)
               /\ \E t \in Nat :
                    clock_start' = [clock_start EXCEPT ![Opposite(turn)] = t]
        <5>1. draw_offer_from' \in Colors
          BY <3>1
        <5> QED
          BY <1>3, <3>1, <3>2, <3>4, <5>1 DEF OfferStep, Colors, NoColor, White, Black
      <4> QED
        BY <4>1, <4>2, <4>3
    <3> QED
      BY <1>2, <3>1, <3>4, <3>5
  <2> QED
    BY <1>3, <2>1, <2>2 DEF OfferStep
<1> QED
  BY <1>1, <1>4, <1>5 DEF OfferInv

(* game_room.cpp, submit_move (the implicit decline), offer_draw and the   *)
(* engine's move: an offer that is still on the table was made after the   *)
(* last move of the player it is addressed to.                             *)
THEOREM DrawOffersStayCurrent == Spec => []DrawOfferIsCurrent
<1>1. Init => OfferInv
  BY TypeInit DEF Init, OfferInv, NoEarlyOffer, DrawOfferIsCurrent
<1>2. OfferInv => DrawOfferIsCurrent
  BY DEF OfferInv
<1> QED
  BY <1>1, <1>2, OfferInvStep, PTL DEF Spec

-----------------------------------------------------------------------------
(* How a game may end *)

(* What justifies the result of a game that a step ends. *)
EndJustified ==
    (state # "FINISHED" /\ state' = "FINISHED") =>
       /\ game_status' = "TIMEOUT" => check_flag /\ result' = Loses(turn)
       /\ game_status' = "ABANDONMENT" =>
            /\ result' = "1/2-1/2" => \A c \in Colors : SeatExpired(c)
            /\ \A c \in Colors : result' = Loses(c) =>
                 /\ SeatExpired(c)
                 /\ connected[Opposite(c)]
                      \/ disconnected_at[c] < disconnected_at[Opposite(c)]
       /\ game_status' = "DRAW_AGREEMENT" =>
            color_of(responder.conn) = Opposite(draw_offer_from)
       /\ (result' = "*") <=> (state = "WAITING")

(* The abandonment rule blames the player who left first, and only one who *)
(* has been away for the whole grace period.                               *)
LEMMA AbandonmentBlames ==
    ASSUME TypeOK, SeatExpired(White) \/ SeatExpired(Black)
    PROVE  /\ AbandonmentResult = "1/2-1/2" => \A c \in Colors : SeatExpired(c)
           /\ \A c \in Colors : AbandonmentResult = Loses(c) =>
                /\ SeatExpired(c)
                /\ connected[Opposite(c)]
                     \/ disconnected_at[c] < disconnected_at[Opposite(c)]
           /\ AbandonmentResult # "*"
<1>1. /\ disconnected_at[White] \in Nat /\ disconnected_at[Black] \in Nat
      /\ now \in Nat /\ Grace \in Nat
  BY TimeAssumption DEF TypeOK, Colors
<1>2. /\ Opposite(White) = Black /\ Opposite(Black) = White
      /\ Loses(White) = "0-1" /\ Loses(Black) = "1-0"
      /\ Colors = {White, Black}
  BY DEF Opposite, Loses, White, Black, Colors
<1>3. CASE AbandonmentResult = "1/2-1/2"
  BY <1>2, <1>3 DEF AbandonmentResult
<1>4. CASE AbandonmentResult = "0-1"
  <2>1. /\ SeatExpired(White)
        /\ ~SeatExpired(Black) \/ disconnected_at[White] < disconnected_at[Black]
    BY <1>4 DEF AbandonmentResult
  <2>2. connected[Black] \/ disconnected_at[White] < disconnected_at[Black]
    BY <1>1, <2>1 DEF SeatExpired
  <2> QED
    BY <1>2, <1>4, <2>1, <2>2
<1>5. CASE AbandonmentResult = "1-0"
  <2>1. /\ SeatExpired(Black)
        /\ ~SeatExpired(White) \/ ~(disconnected_at[White] <= disconnected_at[Black])
    BY <1>1, <1>5 DEF AbandonmentResult
  <2>2. connected[White] \/ disconnected_at[Black] < disconnected_at[White]
    BY <1>1, <2>1 DEF SeatExpired
  <2> QED
    BY <1>2, <1>5, <2>1, <2>2
<1> QED
  BY <1>3, <1>4, <1>5 DEF AbandonmentResult

(* Every step that ends a game has its reason. *)
LEMMA EndStep ==
    ASSUME TypeInv, [Next]_vars
    PROVE  EndJustified
<1> USE DEF EndJustified
<1>0. turn \in Colors /\ \A c : Loses(c) # "*"
  BY DEF TypeInv, TypeOK, Loses
<1>1. CASE UNCHANGED vars
  BY <1>1 DEF vars, outcomeVars
<1>2. ASSUME NEW f \in Conns, Join(f) PROVE EndJustified
  BY <1>2 DEF Join, StartGame
<1>3. ASSUME NEW f \in Conns, NEW r \in BOOLEAN, BindReservedPlayer(f, r)
      PROVE  EndJustified
  <2>1. state' = "IN_PROGRESS" \/ state' = state
    BY <1>3 DEF BindReservedPlayer, StartGame, outcomeVars
  <2> QED
    BY <2>1
<1>4. ASSUME NEW f \in Conns, NEW s \in BoardVerdicts, NEW t2 \in now..(now
             + MoveLag), NEW t3 \in now..(now + MoveLag), PlayMove(turn, s, t2, t3),
             state = "IN_PROGRESS"
      PROVE  EndJustified
  <2>1. \/ UNCHANGED outcomeVars
        \/ game_status' \in {"CHECKMATE", "BOARD_DRAW"} /\ result' # "*"
    BY <1>0, <1>4 DEF PlayMove, FinishGame, BoardVerdicts
  <2> QED
    BY <1>4, <2>1 DEF outcomeVars
<1>6. ASSUME state = "IN_PROGRESS", check_flag,
             game_status' = "TIMEOUT", result' = Loses(turn)
      PROVE  EndJustified
  BY <1>0, <1>6
<1>7. ASSUME NEW f \in Conns, Resign(f) PROVE EndJustified
  BY <1>0, <1>7 DEF Resign, FinishAsIs, FinishGame
<1>8. CASE ExpireDisconnected
  <2>1. /\ state = "IN_PROGRESS" /\ game_status' = "ABANDONMENT"
        /\ result' = AbandonmentResult
        /\ SeatExpired(White) \/ SeatExpired(Black)
    BY <1>8 DEF ExpireDisconnected, FinishAsIs, FinishGame
  <2>2. TypeOK
    BY DEF TypeInv
  <2> HIDE DEF EndJustified
  <2> QED
    BY <2>1, <2>2, AbandonmentBlames DEF EndJustified
<1>9. CASE RespondToDraw
  <2>1. CASE UNCHANGED outcomeVars
    BY <2>1 DEF outcomeVars
  <2>2. CASE ~UNCHANGED outcomeVars
    <3>1. /\ state = "IN_PROGRESS"
          /\ draw_offer_from # NoColor
          /\ color_of(responder.conn) \notin {NoColor, draw_offer_from}
          /\ FinishAsIs("DRAW_AGREEMENT", "1/2-1/2")
      BY <1>9, <2>2 DEF RespondToDraw
    <3>2. draw_offer_from \in Colors \cup {NoColor}
      BY DEF TypeInv, TypeOK
    <3>3. color_of(responder.conn) = Opposite(draw_offer_from)
      BY <3>1, <3>2, ColorOf DEF Opposite, Colors, White, Black
    <3> QED
      BY <3>1, <3>3 DEF FinishAsIs, FinishGame
  <2> QED
    BY <2>1, <2>2
<1>10. ASSUME NEW f \in Conns, OnDisconnect(f) PROVE EndJustified
  <2>1. \/ UNCHANGED outcomeVars
        \/ state = "WAITING" /\ FinishAsIs("RESIGNATION", "*")
    BY <1>10 DEF OnDisconnect, DepartureEnds
  <2> QED
    BY <2>1 DEF outcomeVars, FinishAsIs, FinishGame
<1>11. ASSUME OpenReserved PROVE EndJustified
  <2>1. state' = "IN_PROGRESS" \/ state' = state
    BY <1>11 DEF OpenReserved, StartGame, outcomeVars
  <2> QED
    BY <2>1
<1>12. ASSUME NEW f \in Conns, NEW s \in BoardVerdicts, NEW t2 \in now..(now
             + MoveLag), NEW t3 \in now..(now + MoveLag), t2 <= t3,
             SubmitMove(f, s, t2, t3)
       PROVE  EndJustified
  BY <1>4, <1>12 DEF SubmitMove
<1>13. ASSUME NEW s \in BoardVerdicts, NEW t2 \in now..(now + MoveLag), NEW
             t3 \in now..(now + MoveLag), t2 <= t3, SubmitMoveAi(s, t2, t3)
       PROVE  EndJustified
  <2>1. PlayMove(turn, s, t2, t3) /\ state = "IN_PROGRESS"
    BY <1>13 DEF SubmitMoveAi
  <2>2. \/ UNCHANGED outcomeVars
        \/ game_status' \in {"CHECKMATE", "BOARD_DRAW"} /\ result' # "*"
    BY <1>0, <2>1 DEF PlayMove, FinishGame, BoardVerdicts
  <2> QED
    BY <2>1, <2>2 DEF outcomeVars
<1>14. ASSUME NEW f \in Conns, SubmitMoveFlagged(f) PROVE EndJustified
  BY <1>6, <1>14 DEF SubmitMoveFlagged, FinishAsIs, FinishGame
<1>15. ASSUME SubmitMoveAiFlagged \/ ExpireOnTime PROVE EndJustified
  <2>1. /\ state = "IN_PROGRESS" /\ check_flag
        /\ game_status' = "TIMEOUT" /\ result' = Loses(turn)
    BY <1>15 DEF SubmitMoveAiFlagged, ExpireOnTime, FlagFell, FinishGame
  <2> QED
    BY <1>6, <2>1
<1>16. state' = state => EndJustified
  OBVIOUS
<1>17. \/ \E f \in Conns : OnReconnectDbPlayer(f) \/ OfferDraw(f)
            \/ OfferRematch(f) \/ RespondToRematch(f)
            \/ AddSpectator(f) \/ RemoveSpectator(f)
       \/ \E f \in Conns, a \in BOOLEAN : RespondToDrawBegin(f, a)
       \/ \E p \in Players : AllowReservedPlayer(p)
       \/ ExpireDrawOffer \/ ExpireRematchOffer \/ AddListener
       \/ DeliverCompleted \/ Tick
       => state' = state
  BY DEF OnReconnectDbPlayer, OfferDraw, OfferRematch, RespondToRematch,
     AddSpectator, RemoveSpectator, RespondToDrawBegin, AllowReservedPlayer,
     ExpireDrawOffer, ExpireRematchOffer, AddListener, DeliverCompleted, Tick,
     outcomeVars
<1> QED
  <2> HIDE DEF EndJustified
  <2> QED
    BY <1>1, <1>2, <1>3, <1>7, <1>8, <1>9, <1>10, <1>11, <1>12, <1>13, <1>14,
       <1>15, <1>16, <1>17
    DEF Next, Request, Engine, Tournament, Maintenance

(* game_room.cpp, finish_game's callers: no move, flag, resignation,       *)
(* agreement or absence ends a game with a result it does not justify.     *)
THEOREM OutcomesJustified == Spec => OutcomeJustified
<1>1. TypeInv /\ [Next]_vars => [EndJustified]_vars
  BY EndStep
<1>2. TypeInv /\ [Next]_vars => TypeInv'
  BY TypeStep
<1>3. Spec => [][EndJustified]_vars
  BY <1>1, <1>2, TypeInit, PTL DEF Spec
<1> QED
  BY <1>3 DEF OutcomeJustified, EndJustified

=============================================================================

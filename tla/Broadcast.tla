----------------------------- MODULE Broadcast -----------------------------
(***************************************************************************)
(* Who is told what of a game: the frames GameplayService (make_move,      *)
(* resign, the draw offer, trigger_ai_move, the maintenance pass) and      *)
(* GameQueryService (spectate) send after the room has changed.            *)
(*                                                                         *)
(* A handler changes the room under its lock and sends afterwards, one     *)
(* frame at a time, without it: errands are what it still has to do.  A    *)
(* connection runs one handler at a time, the maintenance pass is one      *)
(* more.  A frame joins the recipient's write buffer, and buffers are sent *)
(* in order: inbox has the moves in that order, which positions came with  *)
(* a state, and whether the end did.  The connections stay: Lobby and      *)
(* Transport have their coming and going, GameRoom the clocks and the      *)
(* rules of an ending.  Answers that only report an error are left out.    *)
(***************************************************************************)
EXTENDS Integers, Sequences, SequencesExt, FiniteSets

CONSTANTS MaxPlies,       \* bound: moves of a game
          MaxAsked        \* bound: draw offers, state requests and moves after the end, together

ASSUME BroadcastAssumption == {MaxPlies, MaxAsked} \subseteq Nat

VARIABLES engineGame,     \* is_ai_: the engine plays black
          plies,          \* move_history_ and board_: moves made
          ending,         \* "none", "timeout" or "other": state_ and game_status_
          offeredBy,      \* draw_offer_from_
          watching,       \* the watcher is in spectator_fds_
          errands,        \* handler -> what it still does, in order
          inbox,          \* recipient -> what has been put into its write buffer
          asked,
          blind           \* history: somebody moved before it was sent the last move

roomVars == <<engineGame, plies, ending, offeredBy, watching>>
castVars == <<roomVars, errands, inbox, asked, blind>>

Rivals == {"w", "b"}
Across(p) == IF p = "w" THEN "b" ELSE "w"
Seated == IF engineGame THEN {"w"} ELSE Rivals
ToMove == IF plies % 2 = 0 THEN "w" ELSE "b"
Playing == ending = "none"

MoveMade(n) == [type |-> "move_made", n |-> n]
GameOver == [type |-> "game_over"]
Notice(type) == [type |-> type]
(* spectate_start and game_state; the board in it, read after the moves,   *)
(* is never older.                                                         *)
StateFrame(n) == [type |-> "state", n |-> n]

Tell(p, frame) == [do |-> "tell", to |-> p, frame |-> frame]
Fan(frame) == [do |-> "fan", frame |-> frame]
Errand(what) == [do |-> what]

CastInit ==
    /\ engineGame \in BOOLEAN
    /\ plies = 0 /\ ending = "none" /\ offeredBy = "none" /\ watching = FALSE
    /\ errands = [h \in Rivals \cup {"watcher", "upkeep"} |-> <<>>]
    /\ inbox = [p \in Rivals \cup {"watcher"} |-> [moves |-> <<>>, states |-> {}, over |-> FALSE]]
    /\ asked = 0 /\ blind = FALSE

FreeToAsk(h) == errands[h] = <<>> /\ (h \in Rivals => h \in Seated)
Has(h, list) == errands' = [errands EXCEPT ![h] = list]
Ask == asked < MaxAsked /\ asked' = asked + 1

(* The engine has no connection: its side is told nothing. *)
ToBoth(p, frame) == IF engineGame THEN <<Tell(p, frame)>> ELSE <<Tell(p, frame), Tell(Across(p), frame)>>
ToldTheEnd(p) == ToBoth(p, GameOver) \o <<Fan(GameOver)>>

-----------------------------------------------------------------------------
(* make_move: the mover first, then the opponent, then the watchers; then  *)
(* that an offer was declined by moving; then the end.  In a game against  *)
(* the engine the same handler lets it think.                              *)
MoveErrands(p, n, declined, ends) ==
    ToBoth(p, MoveMade(n)) \o <<Fan(MoveMade(n))>>
    \o (IF declined THEN <<Tell(Across(p), Notice("draw_declined"))>> ELSE <<>>)
    \o (IF ends THEN ToldTheEnd(p) ELSE IF engineGame THEN <<Errand("think")>> ELSE <<>>)

Saw(p, n) == n = 0 \/ n \in ToSet(inbox[p].moves)

make_move(p) ==
    /\ FreeToAsk(p) /\ Playing /\ ToMove = p /\ plies < MaxPlies
    /\ \E ends \in BOOLEAN :
          /\ ending' = IF ends THEN "other" ELSE "none"
          /\ Has(p, MoveErrands(p, plies + 1, offeredBy = Across(p), ends))
    /\ plies' = plies + 1
    /\ offeredBy' = IF offeredBy = Across(p) THEN "none" ELSE offeredBy
    /\ blind' = (blind \/ ~Saw(p, plies))
    /\ UNCHANGED <<engineGame, watching, inbox, asked>>

(* The flag is found fallen by the move; or the game had been lost on time *)
(* already, and the refused move brings its end up again.                  *)
MoveTooLate(p) ==
    /\ FreeToAsk(p)
    /\ \/ Playing /\ ToMove = p /\ ending' = "timeout" /\ UNCHANGED asked
       \/ ending = "timeout" /\ Ask /\ UNCHANGED ending
    /\ Has(p, ToldTheEnd(p))
    /\ UNCHANGED <<engineGame, plies, offeredBy, watching, inbox, blind>>

(* trigger_ai_move: the engine's move, its flag, or nothing if the game    *)
(* had ended; if time ran out while it thought, the end once more.         *)
EngineErrands(n, ends) ==
    <<Tell("w", MoveMade(n)), Fan(MoveMade(n))>>
    \o (IF ends THEN <<Tell("w", GameOver), Fan(GameOver)>> ELSE <<>>)

trigger_ai_move ==
    /\ errands["w"] = <<Errand("think")>>
    /\ \/ \E ends \in BOOLEAN :
             /\ Playing /\ plies < MaxPlies
             /\ plies' = plies + 1
             /\ ending' = IF ends THEN "other" ELSE "none"
             /\ Has("w", EngineErrands(plies + 1, ends))
       \/ /\ Playing \/ ending = "timeout"
          /\ ending' = "timeout"
          /\ Has("w", <<Tell("w", GameOver), Fan(GameOver)>>)
          /\ UNCHANGED plies
       \/ /\ ~Playing
          /\ Has("w", <<>>)
          /\ UNCHANGED <<plies, ending>>
    /\ UNCHANGED <<engineGame, offeredBy, watching, inbox, asked, blind>>

resign(p) ==
    /\ FreeToAsk(p) /\ Playing
    /\ ending' = "other"
    /\ Has(p, ToldTheEnd(p))
    /\ UNCHANGED <<engineGame, plies, offeredBy, watching, inbox, asked, blind>>

offer_draw(p) ==
    /\ FreeToAsk(p) /\ Playing /\ ~engineGame /\ offeredBy = "none" /\ Ask
    /\ offeredBy' = p
    /\ Has(p, <<Tell(p, Notice("draw_offer_sent")), Tell(Across(p), Notice("draw_offered"))>>)
    /\ UNCHANGED <<engineGame, plies, ending, watching, inbox, blind>>

(* respond_to_draw: accepted, declined, or found to have expired. *)
respond_to_draw(p) ==
    /\ FreeToAsk(p) /\ Playing /\ offeredBy = Across(p)
    /\ offeredBy' = "none"
    /\ \/ /\ ending' = "other"
          /\ Has(p, ToldTheEnd(p))
       \/ /\ UNCHANGED ending
          /\ Has(p, <<Tell(p, Notice("draw_offer_resolved")), Tell(Across(p), Notice("draw_declined"))>>)
    /\ UNCHANGED <<engineGame, plies, watching, inbox, asked, blind>>

-----------------------------------------------------------------------------
(* expire_disconnected_games: a fallen flag, or an offer past its time. *)
UpkeepErrands == ToldTheEnd("w")
expire_on_time ==
    /\ errands["upkeep"] = <<>> /\ Playing
    /\ ending' = "timeout"
    /\ Has("upkeep", UpkeepErrands)
    /\ UNCHANGED <<engineGame, plies, offeredBy, watching, inbox, asked, blind>>

expire_draw_offer ==
    /\ errands["upkeep"] = <<>> /\ Playing /\ offeredBy # "none"
    /\ offeredBy' = "none"
    /\ Has("upkeep", <<Tell(offeredBy, Notice("draw_declined")),
                       Tell(Across(offeredBy), Notice("draw_offer_resolved"))>>)
    /\ UNCHANGED <<engineGame, plies, ending, watching, inbox, asked, blind>>

(* spectate: join the list, read the moves, read the board, answer.  A     *)
(* player's game_state reads the same way.                                 *)
OnboardingMutant == <<Errand("history"), Errand("join")>>
Onboarding == <<Errand("join"), Errand("history")>>
spectate ==
    /\ errands["watcher"] = <<>> /\ Playing /\ ~watching
    /\ Ask
    /\ Has("watcher", Onboarding)
    /\ UNCHANGED <<roomVars, inbox, blind>>

stop_spectating ==
    /\ errands["watcher"] = <<>> /\ watching
    /\ watching' = FALSE
    /\ UNCHANGED <<engineGame, plies, ending, offeredBy, errands, inbox, asked, blind>>

game_state(p) ==
    /\ FreeToAsk(p) /\ Ask
    /\ Has(p, <<Errand("history")>>)
    /\ UNCHANGED <<roomVars, inbox, blind>>

-----------------------------------------------------------------------------
(* A handler does its next errand.  broadcast_to_spectators copies the     *)
(* list of watchers first; add_spectator refuses a game that is over.      *)
Deliver(p, frame) ==
    inbox' = CASE frame.type = "move_made" -> [inbox EXCEPT ![p].moves = Append(@, frame.n)]
               [] frame.type = "state" -> [inbox EXCEPT ![p].states = @ \cup {frame.n}]
               [] frame.type = "game_over" -> [inbox EXCEPT ![p].over = TRUE]
               [] OTHER -> inbox

Proceed(h) ==
    /\ errands[h] # <<>>
    /\ LET e == Head(errands[h])
           rest(list) == errands' = [errands EXCEPT ![h] = list \o Tail(@)]
       IN  \/ e.do = "tell" /\ Deliver(e.to, e.frame) /\ rest(<<>>) /\ UNCHANGED roomVars
           \/ /\ e.do = "fan" /\ rest(IF watching THEN <<Tell("watcher", e.frame)>> ELSE <<>>)
              /\ UNCHANGED <<roomVars, inbox>>
           \/ /\ e.do = "join" /\ Playing
              /\ watching' = TRUE
              /\ rest(<<>>)
              /\ UNCHANGED <<engineGame, plies, ending, offeredBy, inbox>>
           \/ /\ e.do = "join" /\ ~Playing
              /\ errands' = [errands EXCEPT ![h] = <<>>]
              /\ UNCHANGED <<roomVars, inbox>>
           \/ /\ e.do = "history" /\ rest(<<Tell(h, StateFrame(plies))>>)
              /\ UNCHANGED <<roomVars, inbox>>
    /\ UNCHANGED <<asked, blind>>

CastNext ==
    \/ \E p \in Rivals : \/ make_move(p) \/ MoveTooLate(p) \/ resign(p)
                         \/ offer_draw(p) \/ respond_to_draw(p) \/ game_state(p)
    \/ trigger_ai_move \/ expire_on_time \/ expire_draw_offer
    \/ spectate \/ stop_spectating
    \/ \E h \in DOMAIN errands : Proceed(h)

CastSpec == CastInit /\ [][CastNext]_castVars

-----------------------------------------------------------------------------
Quiet == \A h \in DOMAIN errands : errands[h] = <<>>
Audience == Seated \cup (IF watching THEN {"watcher"} ELSE {})
InOrder(moves) == \A i \in DOMAIN moves : i > 1 => moves[i] > moves[i - 1]

(* As long as players answer the move they were sent, each of them is sent *)
(* the moves of the game one by one and in the order they were played,     *)
(* although the two handlers send without the room's lock.                 *)
PlayersSeeMovesInOrder ==
    ~blind => \A p \in Seated : \A i \in DOMAIN inbox[p].moves : inbox[p].moves[i] = i

(* Nobody misses a move for good: when all handlers are done, everybody    *)
(* who plays or watches has a state and every move made since.             *)
NobodyMissesAMove ==
    Quiet => \A p \in Audience :
       \E n \in inbox[p].states \cup (IF p = "watcher" THEN {} ELSE {0}) :
          (n + 1)..plies \subseteq ToSet(inbox[p].moves)

(* However a game ends, and whichever of the racing handlers ended it,     *)
(* everybody who plays or watches is told so.                              *)
EveryoneHearsTheEnd ==
    Quiet /\ ~Playing => \A p \in Audience : inbox[p].over

(* docs/PROTOCOL.md: "Within a single room, a move is committed under a    *)
(* per-`GameRoom` mutex before its `move_made` frame is emitted.  Two      *)
(* spectators may see the frame in a different order relative to each      *)
(* other's *other* live rooms, but within one room the sequence is total." *)
SequenceIsTotal == ~blind => \A p \in Audience : InOrder(inbox[p].moves)

(* The frames of a game, sent after the lock, still reach everybody: the   *)
(* moves, to the players in order, and the end.                            *)
EveryoneIsTold == PlayersSeeMovesInOrder /\ NobodyMissesAMove /\ EveryoneHearsTheEnd

=============================================================================

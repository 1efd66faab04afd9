----------------------------- MODULE Tournament -----------------------------
(***************************************************************************)
(* One scheduled event, from registration to its last round:               *)
(* src/tournament/tournament_manager.cpp on the tables of                  *)
(* tournament_repo.cpp.                                                    *)
(*                                                                         *)
(* All tournament code shares one database session.  A statement is atomic *)
(* on it; what a method does while it holds the session's operation guard  *)
(* or a transaction is one action here, and between two statements without *)
(* a guard anything may happen.  A statement may fail: a write then        *)
(* changes nothing, and a read returns no rows, which most callers cannot  *)
(* tell from an empty table.                                               *)
(*                                                                         *)
(* A game is played when both its players have checked in for a live       *)
(* round (the reserved room is the subject of GameRoom); its result comes  *)
(* back through the completion sink.                                       *)
(***************************************************************************)
EXTENDS Integers, Sequences, FiniteSets, SequencesExt, Swiss

CONSTANTS Players,        \* players that may enter
          Elo,            \* their ratings
          Formats,        \* formats to consider
          SwissRounds,    \* number of rounds of a Swiss event
          Deadline,       \* registration_deadline
          FirstStart,     \* first_round_starts_at
          Lead,           \* pairing lock before the first start (90 s)
          Duration,       \* round_duration_seconds
          QuickGames,     \* may a game end before a maintenance pass that is under way?
          MaxRounds,      \* bound: rounds of any event
          MaxDraws,       \* bound: drawn games
          Mishaps,        \* what may come between: "fault" (a failing statement),
                          \* "correction" (by the creator), "departure" (of a waiting player)
          MaxMishaps      \* bound: how many of them

ASSUME EntryAssumption == /\ Players \subseteq Nat \ {0} /\ IsFiniteSet(Players)
                          /\ Elo \in [Players -> Nat]
ASSUME FormatAssumption == /\ Formats \subseteq {"swiss", "winners_advance"}
                           /\ SwissRounds \in 1..MaxRounds
ASSUME ScheduleAssumption == /\ {Deadline, FirstStart, Lead} \subseteq Nat
                             /\ FirstStart > Deadline /\ Lead <= FirstStart
                             /\ Duration \in Nat \ {0}
ASSUME LimitAssumption == QuickGames \in BOOLEAN /\ {MaxRounds, MaxDraws, MaxMishaps} \subseteq Nat
                          /\ Mishaps \subseteq {"fault", "correction", "departure"}

VARIABLES
    now,                 \* wall clock
    format, status, registration_open, rounds, current_round,   \* tournaments
    round_status, earliest_start_at,                            \* tournament_rounds
    entered,             \* tournament_players
    totals,              \* their score, whites_played and received_bye
    result,              \* tournament_pairings: pairing -> result
    checkins,            \* tournament_round_checkins: <<round, player>>
    seat_allowed,        \* seats the rooms let a player return to: <<round, player>>
    game,                \* games of the rooms, by pairing, and how far they are
    creator,             \* the creator's correction under way
    tick,                \* the maintenance pass under way
    mishaps

eventVars == <<format, status, registration_open, rounds, current_round>>
roundVars == <<round_status, earliest_start_at>>
tableVars == <<entered, totals, result, checkins>>
vars == <<now, eventVars, roundVars, tableVars, seat_allowed, game, creator, tick, mishaps>>

-----------------------------------------------------------------------------
Rounds == 1..MaxRounds
Decisive == {"1-0", "0-1"}
Draw == "1/2-1/2"
GameResults == Decisive \cup {Draw}
NoBlack == 0
Idle == [step |-> "idle"]
Done == [step |-> "done"]

Pairings == DOMAIN result
InRound(res, r) == {p \in DOMAIN res : p.round = r}
Pair(p) == {p.white, p.black}
check_in_closes_at(r) == earliest_start_at[r] + Duration

(* Registration ends at its deadline or at the pairing lock. *)
RegistrationEnds == Min({Deadline, FirstStart - Lead})
EarliestRoundStart(r) == FirstStart + (r - 1) * Duration

Init ==
    /\ now = 0
    /\ format \in Formats
    /\ status = "registration" /\ registration_open = TRUE
    /\ rounds = IF format = "swiss" THEN SwissRounds ELSE 1
    /\ current_round = 0
    /\ round_status = [r \in Rounds |-> IF r <= rounds THEN "scheduled" ELSE "none"]
    /\ earliest_start_at = [r \in Rounds |-> IF r <= rounds THEN EarliestRoundStart(r) ELSE 0]
    /\ entered = {}
    /\ totals = [p \in Players |-> [score |-> 0, whites |-> 0, bye |-> FALSE]]
    /\ result = <<>>
    /\ checkins = {}
    /\ seat_allowed = {} /\ game = <<>>
    /\ creator = Idle
    /\ tick = Idle
    /\ mishaps = 0

Happen(kinds) == /\ kinds \subseteq Mishaps
                 /\ mishaps + Cardinality(kinds) <= MaxMishaps
                 /\ mishaps' = mishaps + Cardinality(kinds)
Fails == Happen({"fault"})
Works == UNCHANGED mishaps

-----------------------------------------------------------------------------
(* Registration *)

RegistrationGate == status = "registration" /\ registration_open /\ now < RegistrationEnds

Join(p) ==
    /\ RegistrationGate
    /\ entered' = entered \cup {p}
    /\ UNCHANGED <<now, eventVars, roundVars, totals, result, checkins, seat_allowed, game, creator, tick, mishaps>>

Leave(p) ==
    /\ RegistrationGate /\ p \in entered
    /\ entered' = entered \ {p}
    /\ UNCHANGED <<now, eventVars, roundVars, totals, result, checkins, seat_allowed, game, creator, tick, mishaps>>

MayReopen == now < RegistrationEnds /\ Pairings = {}

(* set_registration, and start, which closes registration after counting   *)
(* the players.                                                            *)
SetRegistration(open) ==
    /\ status \in {"registration", "scheduled"}
    /\ open => MayReopen
    /\ registration_open' = open
    /\ status' = IF open THEN "registration" ELSE "scheduled"
    /\ UNCHANGED <<now, format, rounds, current_round, roundVars, tableVars, seat_allowed, game, creator, tick, mishaps>>

-----------------------------------------------------------------------------
(* Standings *)

Wins(p, res) == {pr \in DOMAIN res : \/ res[pr] \in {"1-0", "bye"} /\ pr.white = p
                                     \/ res[pr] = "0-1" /\ pr.black = p}
Draws(p, res) == {pr \in DOMAIN res : res[pr] = Draw /\ p \in Pair(pr)}

(* What every statement that records a result recomputes; the score counts *)
(* half points.                                                            *)
Totals(res) ==
    [p \in Players |->
       [score |-> 2 * Cardinality(Wins(p, res)) + Cardinality(Draws(p, res)),
        whites |-> Cardinality({pr \in DOMAIN res : /\ pr.white = p /\ pr.black # NoBlack
                                                    /\ res[pr] # "pending"}),
        bye |-> \E pr \in DOMAIN res : pr.white = p /\ res[pr] = "bye"]]

Record(pr, res) ==
    /\ result' = [result EXCEPT ![pr] = res]
    /\ totals' = Totals(result')

-----------------------------------------------------------------------------
(* Who goes on, and the pairs of a round *)

AdvancesFrom(res, pr) ==
    CASE res[pr] \in {"1-0", "bye"} -> {pr.white}
      [] res[pr] = "0-1" -> {pr.black}
      [] res[pr] = Draw -> Pair(pr)
      [] OTHER -> {}
Survivors(res, r) == UNION {AdvancesFrom(res, pr) : pr \in InRound(res, r)}
DrawsOf(res, r, pair) ==
    Cardinality({pr \in DOMAIN res : pr.round <= r /\ res[pr] = Draw /\ Pair(pr) = pair})

DrawCap(n) == n >= 2

NotReplaying(advancing, replays) == advancing \ UNION {Pair(pr) : pr \in replays}

AdvancingMutant(res, r) ==
    entered \cap UNION {AdvancesFrom(res, pr) : pr \in {q \in InRound(res, r - 1) : res[q] # "bye"}}
Advancing(res, r) == entered \cap Survivors(res, r - 1)

(* The pairs of round r as generate_round_pairings deals them, from the    *)
(* pairings it has read: replays of first draws with colours reversed,     *)
(* then the Swiss pairs of the others who are still in.                    *)
Deal(r, res) ==
    LET winners == format = "winners_advance"
        replays == IF winners /\ r > 1
                   THEN {pr \in InRound(res, r - 1) : res[pr] = Draw /\ ~DrawCap(DrawsOf(res, r - 1, Pair(pr)))}
                   ELSE {}
        pool == IF winners /\ r > 1
                THEN NotReplaying(Advancing(res, r), replays)
                ELSE entered
        met == {Pair(pr) : pr \in {q \in DOMAIN res : q.black # NoBlack}}
        capped == IF winners THEN {m \in met : DrawCap(DrawsOf(res, MaxRounds, m))} ELSE {}
        standing == [p \in pool |-> [elo |-> Elo[p], score |-> totals[p].score,
                                     whites |-> totals[p].whites, bye |-> totals[p].bye]]
    IN SetToSeq({<<pr.black, pr.white>> : pr \in replays})
         \o pair_swiss_round(standing, pool, met, capped)

Row(r, pair) == [round |-> r, white |-> pair[1], black |-> pair[2]]
FirstResult(pr) == IF pr.black = NoBlack THEN "bye" ELSE "pending"
Insert(res, r, pairs) ==
    [pr \in DOMAIN res \cup {Row(r, pair) : pair \in pairs} |->
        IF pr \in DOMAIN res THEN res[pr] ELSE FirstResult(pr)]

(* The two UNIQUE constraints of tournament_pairings. *)
RowTaken(r, pair) ==
    \E p \in InRound(result, r) :
        p.white = pair[1] \/ (p.black = pair[2] /\ pair[2] # NoBlack)

-----------------------------------------------------------------------------
(* maybe_advance_after_result, under the operation guard.  cut says which  *)
(* statement fails: one of the first three, the allocation of the next     *)
(* round, or the last one.                                                 *)

RoundComplete(r) == InRound(result, r) # {} /\ \A p \in InRound(result, r) : result[p] # "pending"
EliminationOverMutant(r) == Cardinality(Survivors(result, r)) <= 1
EliminationOver(r) ==
    LET left == Survivors(result, r)
    IN \A a, b \in left : a < b => DrawCap(DrawsOf(result, r, {a, b}))
LastRound(r) == IF format = "swiss" THEN r >= rounds ELSE EliminationOver(r)

Cuts == {"none", "first", "allocate", "last"}
AllocateRound(r) ==
    /\ rounds' = Max({rounds, r})
    /\ IF round_status[r] = "none"
       THEN /\ round_status' = [round_status EXCEPT ![r] = "scheduled", ![r - 1] = "completed"]
            /\ earliest_start_at' =
                 [earliest_start_at EXCEPT ![r] = Max({now, EarliestRoundStart(r)})]
       ELSE /\ round_status' = [round_status EXCEPT ![r - 1] = "completed"]
            /\ UNCHANGED earliest_start_at

(* Bound: a further round must fit the model. *)
RoundToSpare(r) == RoundComplete(r) /\ ~LastRound(r) => format = "swiss" \/ r < MaxRounds

MaybeAdvance(r, cut) ==
    /\ IF cut = "none" THEN Works ELSE Fails
    /\ RoundToSpare(r)
    /\ IF ~RoundComplete(r) \/ cut = "first"
       THEN UNCHANGED <<status, rounds, current_round, roundVars>>
       ELSE /\ IF format = "winners_advance" /\ ~LastRound(r) /\ cut # "allocate"
               THEN AllocateRound(r + 1)
               ELSE /\ round_status' = [round_status EXCEPT ![r] = "completed"]
                    /\ UNCHANGED <<rounds, earliest_start_at>>
            /\ status' = IF cut = "none" /\ LastRound(r) THEN "completed" ELSE status
            /\ current_round' = IF cut = "none" /\ ~LastRound(r) THEN r + 1 ELSE current_round

-----------------------------------------------------------------------------
(* Check-in.  The statements before the INSERT read rows that only a       *)
(* correction by the creator can change.                                   *)

CheckIn(p, r) ==
    /\ p \in entered /\ r \in Rounds
    /\ round_status[r] \in {"scheduled", "live"}
    /\ check_in_closes_at(r) >= now
    /\ format = "winners_advance" /\ r > 1 => p \in Survivors(result, r - 1)
    /\ \A pr \in InRound(result, r) : p \in Pair(pr) => result[pr] # "bye"
    /\ checkins' = checkins \cup {<<r, p>>}
    /\ UNCHANGED <<now, eventVars, roundVars, entered, totals, result, seat_allowed, game, creator, tick, mishaps>>

(* on_disconnect of a connection that still waits for its game.  The row   *)
(* goes; a room that has seen it keeps letting the player back in.         *)
CheckOut(p, r) ==
    /\ <<r, p>> \in checkins
    /\ Happen({"departure"})
    /\ \A pr \in DOMAIN game : pr.round = r => p \notin Pair(pr)
    /\ checkins' = checkins \ {<<r, p>>}
    /\ \/ UNCHANGED seat_allowed
       \/ /\ round_status[r] = "live"
          /\ \E pr \in InRound(result, r) : p \in Pair(pr) /\ result[pr] = "pending"
          /\ seat_allowed' = seat_allowed \cup {<<r, p>>}
    /\ UNCHANGED <<now, eventVars, roundVars, entered, totals, result, game, creator, tick>>

-----------------------------------------------------------------------------
(* Games.  A room exists for every pending pairing of a live round; its    *)
(* game starts when both players sit in it.                                *)

CheckedIn(pr) == \A p \in Pair(pr) : <<pr.round, p>> \in checkins
GameStarts(pr) ==
    /\ result[pr] = "pending" /\ round_status[pr.round] = "live"
    /\ pr \notin DOMAIN game
    /\ \A p \in Pair(pr) : <<pr.round, p>> \in checkins \cup seat_allowed
    /\ game' = [p \in DOMAIN game \cup {pr} |-> IF p = pr THEN [step |-> "playing"] ELSE game[p]]
    /\ UNCHANGED <<now, eventVars, roundVars, tableVars, seat_allowed, creator, tick, mishaps>>

GameAt(pr, step) == game[pr].step = step
DrawnSoFar == Cardinality({pr \in Pairings : result[pr] = Draw})
                + Cardinality({pr \in DOMAIN game : game[pr] \in [step : {"saved", "write"}, res : {Draw}]})

(* The saved game's result reaches on_tournament_game_persisted. *)
GameOver(pr, res) ==
    /\ GameAt(pr, "playing") /\ (QuickGames \/ tick = Idle)
    /\ res = Draw => DrawnSoFar < MaxDraws
    /\ game' = [game EXCEPT ![pr] = [step |-> "saved", res |-> res]]
    /\ UNCHANGED <<now, eventVars, roundVars, tableVars, seat_allowed, creator, tick, mishaps>>

(* record_game_result looks the pairing up; only a pending one goes on. *)
LookUpPairing(pr) ==
    /\ GameAt(pr, "saved")
    /\ \/ /\ Works
          /\ game' = [game EXCEPT ![pr] = IF result[pr] = "pending" THEN [@ EXCEPT !.step = "write"] ELSE Done]
       \/ Fails /\ game' = [game EXCEPT ![pr] = Done]
    /\ UNCHANGED <<now, eventVars, roundVars, tableVars, seat_allowed, creator, tick>>

(* set_pairing_result writes a pending row, or the same result again. *)
CanRecordMutant(pr, res) == TRUE
CanRecord(pr, res) == result[pr] \in {"pending", res}

RecordGameResult(pr) ==
    /\ GameAt(pr, "write")
    /\ \/ /\ CanRecord(pr, game[pr].res) /\ Works
          /\ Record(pr, game[pr].res)
          /\ game' = [game EXCEPT ![pr] = [step |-> "advance"]]
       \/ /\ ~CanRecord(pr, game[pr].res) /\ Works
          /\ game' = [game EXCEPT ![pr] = Done]
          /\ UNCHANGED <<totals, result>>
       \/ /\ Fails
          /\ game' = [game EXCEPT ![pr] = Done]
          /\ UNCHANGED <<totals, result>>
    /\ UNCHANGED <<now, eventVars, roundVars, entered, checkins, seat_allowed, creator, tick>>

AdvanceAfterGame(pr) ==
    /\ GameAt(pr, "advance")
    /\ \E cut \in Cuts : MaybeAdvance(pr.round, cut)
    /\ game' = [game EXCEPT ![pr] = Done]
    /\ UNCHANGED <<now, format, registration_open, tableVars, seat_allowed, creator, tick>>

-----------------------------------------------------------------------------
(* override_result: the guard of an elimination event, read in a statement *)
(* of its own; when that read fails the guard is skipped.                  *)

StageLocked(r) == format = "winners_advance" /\ (current_round > r \/ status = "completed")

OverrideCheck(pr, res) ==
    /\ creator.step = "idle"
    /\ res = Draw => DrawnSoFar < MaxDraws
    /\ Happen(IF StageLocked(pr.round) THEN {"correction", "fault"} ELSE {"correction"})
    /\ creator' = [step |-> "write", pairing |-> pr, res |-> res]
    /\ UNCHANGED <<now, eventVars, roundVars, tableVars, seat_allowed, game, tick>>

(* A bye cannot become anything else: the table's shape constraint.        *)
OverrideWrite ==
    /\ creator.step = "write"
    /\ \/ /\ creator.pairing.black # NoBlack
          /\ Record(creator.pairing, creator.res) /\ Works
          /\ creator' = [creator EXCEPT !.step = "advance"]
       \/ /\ creator.pairing.black = NoBlack
          /\ creator' = Idle /\ Works
          /\ UNCHANGED <<totals, result>>
       \/ /\ Fails
          /\ creator' = Idle
          /\ UNCHANGED <<totals, result>>
    /\ UNCHANGED <<now, eventVars, roundVars, entered, checkins, seat_allowed, game, tick>>

OverrideAdvance ==
    /\ creator.step = "advance"
    /\ \E cut \in Cuts : MaybeAdvance(creator.pairing.round, cut)
    /\ creator' = Idle
    /\ UNCHANGED <<now, format, registration_open, tableVars, seat_allowed, game, tick>>

-----------------------------------------------------------------------------
(* maintenance_tick.  A pass holds the maintenance mutex and does, in this *)
(* order: close registration, pair round one, start the round that is due, *)
(* judge the no-shows.  A statement that finds nothing to do leaves no     *)
(* trace, so the four begin here from an idle tick, each when the earlier  *)
(* ones have nothing to do; what one of them does with several statements  *)
(* takes several steps, and ends the pass when one fails.                  *)

TickAbort == Fails /\ tick' = Idle
TickGoto(step) == Works /\ tick' = [tick EXCEPT !.step = step]
At(step) == tick.step = step

TickClose ==
    /\ At("idle")
    /\ status = "registration" /\ RegistrationEnds <= now
    /\ status' = "scheduled" /\ registration_open' = FALSE
    /\ UNCHANGED <<now, format, rounds, current_round, roundVars, tableVars, seat_allowed, game,
                   creator, tick, mishaps>>

(* Round one is paired in one transaction, once. *)
PreviewDue == /\ status = "scheduled" /\ round_status[1] = "scheduled"
              /\ earliest_start_at[1] <= now + Lead
              /\ InRound(result, 1) = {} /\ Cardinality(entered) >= 2
TickPreview ==
    /\ At("idle") /\ PreviewDue
    /\ result' = Insert(result, 1, ToSet(Deal(1, result)))
    /\ totals' = Totals(result')
    /\ UNCHANGED <<now, eventVars, roundVars, entered, checkins, seat_allowed, game, creator, tick, mishaps>>

(* A round becomes live by one conditional UPDATE.  Round one is paired by *)
(* then, unless the players could not be read.                             *)
ClaimableMutant(r) == /\ round_status[r] = "scheduled"
                      /\ earliest_start_at[r] <= now
                      /\ status \in {"scheduled", "in_progress"}
Claimable(r) == /\ round_status[r] = "scheduled"
                /\ earliest_start_at[r] <= now
                /\ status \in {"scheduled", "in_progress"}
                /\ r > 1 => round_status[r - 1] = "completed"
TickClaim(r) ==
    /\ At("idle") /\ Claimable(r)
    /\ IF PreviewDue THEN Fails ELSE Works
    /\ round_status' = [round_status EXCEPT ![r] = "live"]
    /\ tick' = [step |-> "status", round |-> r]
    /\ UNCHANGED <<now, eventVars, earliest_start_at, tableVars, seat_allowed, game, creator>>

TickStatus ==
    /\ At("status")
    /\ \/ TickGoto("round") /\ status' = "in_progress"
       \/ TickAbort /\ UNCHANGED status
    /\ UNCHANGED <<now, format, registration_open, rounds, current_round, roundVars, tableVars,
                   seat_allowed, game, creator>>

TickRound ==
    /\ At("round")
    /\ \/ TickGoto("deal") /\ current_round' = tick.round
       \/ TickAbort /\ UNCHANGED current_round
    /\ UNCHANGED <<now, format, status, registration_open, rounds, roundVars, tableVars,
                   seat_allowed, game, creator>>

(* generate_round_pairings when the round has no rows.  The first read may *)
(* fail (no rows are seen), and so may the read of the history.            *)
TickDeal ==
    /\ At("deal")
    /\ LET deal(res) == tick' = [step |-> "insert", round |-> tick.round,
                                 todo |-> Deal(tick.round, res)] IN
         \/ InRound(result, tick.round) # {} /\ Works /\ tick' = Idle
         \/ InRound(result, tick.round) = {} /\ Deal(tick.round, result) # <<>>
              /\ Works /\ deal(result)
         \/ InRound(result, tick.round) = {} /\ Deal(tick.round, result) = <<>>
              /\ Works /\ tick' = Idle
         \/ InRound(result, tick.round) # {} /\ Fails /\ deal(result)
         \/ InRound(result, tick.round) = {} /\ Deal(tick.round, <<>>) # <<>> /\ Fails /\ deal(<<>>)
         \/ TickAbort
    /\ UNCHANGED <<now, eventVars, roundVars, tableVars, seat_allowed, game, creator>>

TickInsert ==
    /\ At("insert")
    /\ LET pair == Head(tick.todo) IN
         \/ /\ ~RowTaken(tick.round, pair) /\ Works
            /\ result' = Insert(result, tick.round, {pair})
            /\ tick' = IF Len(tick.todo) = 1
                       THEN [step |-> "recompute", round |-> tick.round]
                       ELSE [tick EXCEPT !.todo = Tail(@)]
         \/ RowTaken(tick.round, pair) /\ Works /\ tick' = Idle /\ UNCHANGED result
         \/ TickAbort /\ UNCHANGED result
    /\ UNCHANGED <<now, eventVars, roundVars, entered, totals, checkins, seat_allowed, game, creator>>

TickRecompute ==
    /\ At("recompute")
    /\ \/ TickGoto("advance") /\ totals' = Totals(result)
       \/ TickAbort /\ UNCHANGED totals
    /\ UNCHANGED <<now, eventVars, roundVars, entered, result, checkins, seat_allowed, game, creator>>

TickAdvance ==
    /\ At("advance")
    /\ \E cut \in Cuts : MaybeAdvance(tick.round, cut)
    /\ tick' = Idle
    /\ UNCHANGED <<now, format, registration_open, tableVars, seat_allowed, game, creator>>

(* No-shows: live rounds whose check-in is over and that have a pending    *)
(* pairing with a player missing; then the check-ins are read.             *)
Missing(pr) == \E p \in Pair(pr) : <<pr.round, p>> \notin checkins
Expired(r) == /\ round_status[r] = "live" /\ check_in_closes_at(r) <= now
              /\ \E pr \in InRound(result, r) : result[pr] = "pending" /\ Missing(pr)
TickExpired(r) ==
    /\ At("idle") /\ Expired(r)
    /\ tick' = [step |-> "checkins", round |-> r]
    /\ UNCHANGED <<now, eventVars, roundVars, tableVars, seat_allowed, game, creator, mishaps>>

no_show_result(white_in, black_in) ==
    CASE white_in /\ ~black_in -> "1-0"
      [] ~white_in /\ black_in -> "0-1"
      [] ~white_in /\ ~black_in -> "double_forfeit"
      [] OTHER -> "pending"
Judge(pr, checked) == no_show_result(pr.white \in checked, pr.black \in checked)

TickCheckins ==
    /\ At("checkins")
    /\ LET read(checked) == tick' = [step |-> "pairings", round |-> tick.round,
                                     checked |-> checked] IN
         \/ Works /\ read({p \in Players : <<tick.round, p>> \in checkins})
         \/ Fails /\ read({})
    /\ UNCHANGED <<now, eventVars, roundVars, tableVars, seat_allowed, game, creator>>

(* The pairings are read once, then judged with one statement each. *)
TickPairings ==
    /\ At("pairings")
    /\ LET judged(rows) == tick' = [step |-> "forfeit", round |-> tick.round,
                                    todo |-> SetToSeq({<<pr, Judge(pr, tick.checked)>> : pr \in rows})]
           open == {pr \in InRound(result, tick.round) :
                      result[pr] = "pending" /\ Judge(pr, tick.checked) # "pending"}
       IN (Works /\ judged(open)) \/ (Fails /\ judged({}))
    /\ UNCHANGED <<now, eventVars, roundVars, tableVars, seat_allowed, game, creator>>

TickForfeit ==
    /\ At("forfeit")
    /\ \/ /\ tick.todo = <<>> /\ Works
          /\ tick' = [step |-> "advance", round |-> tick.round]
          /\ UNCHANGED <<result, totals>>
       \/ /\ tick.todo # <<>>
          /\ LET pr == Head(tick.todo)[1]
                 res == Head(tick.todo)[2] IN
               \/ CanRecord(pr, res) /\ Works /\ Record(pr, res)
                    /\ tick' = [tick EXCEPT !.todo = Tail(@)]
               \/ ~CanRecord(pr, res) /\ Works /\ tick' = Idle /\ UNCHANGED <<result, totals>>
               \/ TickAbort /\ UNCHANGED <<result, totals>>
    /\ UNCHANGED <<now, eventVars, roundVars, entered, checkins, seat_allowed, game, creator>>

-----------------------------------------------------------------------------
(* Time matters while the start or the end of a check-in is ahead. *)
Time ==
    /\ \/ now < FirstStart
       \/ \E r \in Rounds : /\ round_status[r] \in {"scheduled", "live"}
                            /\ status # "completed" /\ now < check_in_closes_at(r)
    /\ now' = now + 1
    /\ UNCHANGED <<eventVars, roundVars, tableVars, seat_allowed, game, creator, tick, mishaps>>

Maintenance ==
    \/ TickClose \/ TickPreview
    \/ \E r \in Rounds : TickClaim(r) \/ TickExpired(r)
    \/ TickStatus \/ TickRound \/ TickDeal \/ TickInsert \/ TickRecompute
    \/ TickCheckins \/ TickPairings \/ TickForfeit \/ TickAdvance

Play(pr) == \/ GameStarts(pr)
            \/ pr \in DOMAIN game /\ \/ \E res \in GameResults : GameOver(pr, res)
                                     \/ LookUpPairing(pr) \/ RecordGameResult(pr)
                                     \/ AdvanceAfterGame(pr)

Correction == \/ \E pr \in Pairings, res \in GameResults \cup {"double_forfeit"} : OverrideCheck(pr, res)
              \/ OverrideWrite \/ OverrideAdvance

Next == \/ \E p \in Players : \/ Join(p) \/ Leave(p)
                              \/ \E r \in Rounds : CheckIn(p, r) \/ CheckOut(p, r)
        \/ \E open \in BOOLEAN : SetRegistration(open)
        \/ \E pr \in Pairings : Play(pr)
        \/ Correction
        \/ Maintenance
        \/ Time

(* Time passes, the maintenance pass runs every second, a room whose       *)
(* players are there starts its game, every started game ends (GameRoom)   *)
(* and is recorded.  Players and the creator owe nothing.  The second      *)
(* conjunct is weak fairness of Maintenance with its enabling condition    *)
(* and its steps written out, which spares TLC dealing rounds to find them.*)
MaintenanceDue ==
    \/ ~At("idle") /\ (At("advance") => RoundToSpare(tick.round))
    \/ status = "registration" /\ RegistrationEnds <= now
    \/ PreviewDue
    \/ \E r \in Rounds : Claimable(r) \/ Expired(r)
MaintenanceStep == \/ tick' # tick
                   \/ TickClose
                   \/ At("idle") /\ DOMAIN result' # Pairings

Fairness == /\ WF_vars(Time)
            /\ []<>~MaintenanceDue \/ []<><<MaintenanceStep>>_vars
            /\ WF_vars(\E pr \in Pairings : CheckedIn(pr) /\ GameStarts(pr))
            /\ WF_vars(\E pr \in DOMAIN game : Play(pr))

Spec == Init /\ [][Next]_vars /\ Fairness

-----------------------------------------------------------------------------
(* Correctness *)

Statuses == {"registration", "scheduled", "in_progress", "completed"}
PairingRows == [round : Rounds, white : Players, black : Players \cup {NoBlack}]
Results == GameResults \cup {"pending", "bye", "double_forfeit"}

(* Every variable keeps the shape of its table row or local state, and a   *)
(* result fits its pairing: a bye has no second player and only a bye may  *)
(* lack one (tournament_pairings, migration 0010).                         *)
TypeOK ==
    /\ now \in Nat
    /\ format \in Formats /\ status \in Statuses /\ registration_open \in BOOLEAN
    /\ rounds \in Rounds /\ current_round \in 0..MaxRounds + 1
    /\ round_status \in [Rounds -> {"none", "scheduled", "live", "completed"}]
    /\ earliest_start_at \in [Rounds -> Nat]
    /\ entered \subseteq Players
    /\ totals \in [Players -> [score : Nat, whites : Nat, bye : BOOLEAN]]
    /\ Pairings \subseteq PairingRows
    /\ \A pr \in Pairings : result[pr] \in Results /\ (result[pr] = "bye" <=> pr.black = NoBlack)
    /\ checkins \cup seat_allowed \subseteq Rounds \X Players
    /\ DOMAIN game \subseteq Pairings

(* Rounds begin one after the other: a round is live, over or has pairings *)
(* only when every earlier one is over (start_due_round), whatever fails,  *)
(* is corrected or comes late.                                             *)
RoundsInOrder ==
    \A q, r \in Rounds :
        /\ q < r /\ (round_status[r] \in {"live", "completed"} \/ InRound(result, r) # {})
        => round_status[q] = "completed"

(* A decided pairing changes only by the creator's correction: neither a   *)
(* late game result, nor a no-show decision made on rows read earlier, nor *)
(* a repeated one replaces it (set_pairing_result).                        *)
DecidedStays ==
    [][\A pr \in Pairings :
         result[pr] # "pending" /\ result'[pr] # result[pr] =>
           creator.step = "write" /\ creator.pairing = pr /\ creator'.step = "advance"]_vars

(* No player sits in two pairings of a round, on either side: the UNIQUE   *)
(* constraints say so per colour only, generate_round_pairings must do the *)
(* rest.  Two byes have nobody in common: a round may hold several.        *)
OnePairingPerRound ==
    \A pr, q \in Pairings : pr # q /\ pr.round = q.round => Pair(pr) \cap Pair(q) \subseteq {NoBlack}

(* Once a round is dealt it holds everyone who should play it: the whole   *)
(* registered field, or in an elimination event exactly the survivors of   *)
(* the round before.  Nobody is forgotten, and nobody who lost or who      *)
(* registered after the pairings were published gets in.                   *)
Field(r) == IF format = "swiss" \/ r = 1 THEN entered ELSE Survivors(result, r - 1)
WholeFieldPaired ==
    \A r \in Rounds : InRound(result, r) # {} /\ ~At("insert") =>
        (UNION {Pair(pr) : pr \in InRound(result, r)}) \ {NoBlack} = Field(r)

(* Two players of an elimination event who draw meet again in the next     *)
(* round with colours reversed, and draw at most twice                     *)
(* (generate_round_pairings).                                              *)
DrawsReplayed ==
    format = "winners_advance" =>
        \A pr \in Pairings : result[pr] = Draw =>
            CASE DrawsOf(result, pr.round, Pair(pr)) > 2 -> FALSE
              [] DrawsOf(result, pr.round, Pair(pr)) = 1 /\ InRound(result, pr.round + 1) # {}
                   /\ ~At("insert") ->
                   Row(pr.round + 1, <<pr.black, pr.white>>) \in Pairings
              [] OTHER -> TRUE

(* An event whose first round is paired comes to its end, whoever fails to *)
(* check in or leaves and however many rounds draws and survivors add      *)
(* (maintenance_tick, maybe_advance_after_result).                         *)
EventCompletes == (Pairings # {}) ~> (status = "completed")

(* Every round pairs exactly the players it must: nobody twice, nobody     *)
(* left out, and a drawn pair once more with colours reversed.             *)
FieldIsPaired == OnePairingPerRound /\ WholeFieldPaired /\ DrawsReplayed

(* The tables stay well formed and rounds open one after the other,        *)
(* although statements fail between two writes.                            *)
RoundsAreSound == TypeOK /\ RoundsInOrder

=============================================================================

----------------------------- MODULE Completion -----------------------------
(***************************************************************************)
(* From the end of a game to the ledger: GameCompletionService on the      *)
(* worker pool, PostgresGameStore and save_completed_game on the one       *)
(* persistence session, the tournament sink, and the pool's shutdown.      *)
(*                                                                         *)
(* A worker executes one SQL statement per action.  A statement succeeds,  *)
(* is refused by the server (the transaction is then aborted) or loses the *)
(* connection, which nothing re-opens; COMMIT may take effect and lose its *)
(* answer.  The session's operation mutex is held from the probe to the    *)
(* end of the save, as in save_completed_game.                             *)
(*                                                                         *)
(* Games are fixed by the constants; a rematch takes the ratings of the    *)
(* room it follows, every other game those in the players table.           *)
(***************************************************************************)
EXTENDS Integers, Sequences, FiniteSets

CONSTANTS Games,          \* games that may be played, 1..n
          Players,        \* durable player ids
          WhiteOf,        \* the white player of each game
          BlackOf,        \* the black player; 0 for the engine or nobody
          Rated,          \* games between two players
          AiGames,        \* games against the engine
          Tournament,     \* games that belong to a tournament pairing
          RematchOf,      \* the game each one is a rematch of; 0 for none
          Workers,        \* pool threads; main.cpp insists on one to eight
          FirstElo,       \* ratings before the first game
          Gain,           \* Gain[d]: round(K * (1 - expected score)) at rating lead d
          HalfGain,       \* HalfGain[d]: round(K * (1/2 - expected score))
          Outcomes,       \* bound: results games may end with
          MaxFaults,      \* bound: failing statements
          MaxRepeats,     \* bound: repeated deliveries of an event
          MaxCrashes      \* bound: process crashes

ASSUME GamesAssumption ==
    /\ Games \subseteq Nat \ {0} /\ Players \subseteq Nat \ {0}
    /\ Rated \cup AiGames \cup Tournament \subseteq Games
    /\ Rated \cap AiGames = {} /\ Tournament \subseteq Rated
    /\ WhiteOf \in [Games -> Players]
    /\ BlackOf \in [Games -> Players \cup {0}]
    /\ \A g \in Rated : BlackOf[g] \in Players
    /\ RematchOf \in [Games -> Games \cup {0}]
ASSUME RatingAssumption == FirstElo \in [Players -> Nat]
ASSUME BoundAssumption == {MaxFaults, MaxRepeats, MaxCrashes} \subseteq Nat
ASSUME WorkerAssumption == 0 \notin Workers
ASSUME PoolAssumption == Workers # {}

VARIABLES
    phase,        \* "new", "playing", "over" or "lost" (process died)
    res,          \* result of a finished game
    elo_at,       \* ratings captured in the room: [white, black]
    tasks,        \* TaskQueue: <<kind, game>>
    stopped,      \* TaskQueue::stopped_
    pc, cur,      \* each worker's next statement and its game
    owner,        \* holder of the session's operation mutex, 0 for none
    online,       \* the persistence session is connected
    txn,          \* "IDLE", "OPEN" or "ABORTED"
    sqlstate,     \* Database::last_sqlstate_
    work,         \* the open transaction's view: [rows, record, elo]
    rows, record, elo,   \* committed tables
    outcome,      \* last outcome reported for each game
    replay,       \* tournament_pairings.replay_game_id is set
    pairing,      \* tournament_pairings.result
    faults, repeats, crashes

roomVars == <<phase, res, elo_at>>
poolVars == <<tasks, stopped>>
sessionVars == <<owner, online, txn, sqlstate, work>>
tableVars == <<rows, record, elo>>
sinkVars == <<replay, pairing>>
boundVars == <<faults, repeats, crashes>>
vars == <<roomVars, poolVars, pc, cur, sessionVars, tableVars, outcome,
          sinkVars, boundVars>>

Ledger == INSTANCE GameLedger WITH rows <- rows, record <- record

ASSUME OutcomeAssumption == Outcomes \subseteq Ledger!Results

-----------------------------------------------------------------------------
(* calculate_elo, with the two rounded products as tables *)

Floor0(x) == IF x < 0 THEN 0 ELSE x
Delta(own, other, score) ==
    CASE score = "win" -> Gain[own - other]
      [] score = "loss" -> -Gain[other - own]
      [] OTHER -> HalfGain[own - other]
WhiteScore(r) == CASE r = "1-0" -> "win" [] r = "0-1" -> "loss" [] OTHER -> "draw"
BlackScore(r) == CASE r = "0-1" -> "win" [] r = "1-0" -> "loss" [] OTHER -> "draw"
WhiteNew(g) == Floor0(elo_at[g].white
                 + Delta(elo_at[g].white, elo_at[g].black, WhiteScore(res[g])))
BlackNew(g) == Floor0(elo_at[g].black
                 + Delta(elo_at[g].black, elo_at[g].white, BlackScore(res[g])))

-----------------------------------------------------------------------------
(* The transaction view while no transaction is open. *)
NoView == [rows |-> [g \in Games |-> Ledger!NoRow],
           record |-> [p \in Players |-> Ledger!NewRecord], elo |-> FirstElo]

Init == /\ phase = [g \in Games |-> "new"]
        /\ res = [g \in Games |-> "*"]
        /\ elo_at = [g \in Games |-> [white |-> 0, black |-> 0]]
        /\ tasks = <<>> /\ stopped = FALSE
        /\ pc = [w \in Workers |-> "pop"] /\ cur = [w \in Workers |-> 0]
        /\ owner = 0 /\ online = TRUE /\ txn = "IDLE" /\ sqlstate = ""
        /\ rows = [g \in Games |-> Ledger!NoRow]
        /\ record = [p \in Players |-> Ledger!NewRecord]
        /\ elo = FirstElo
        /\ work = NoView
        /\ outcome = [g \in Games |-> "none"]
        /\ replay = [g \in Tournament |-> FALSE]
        /\ pairing = [g \in Tournament |-> "pending"]
        /\ faults = 0 /\ repeats = 0 /\ crashes = 0

-----------------------------------------------------------------------------
(* Rooms *)

(* The engine's rating is a fixed one; a seat nobody took has none. *)
Elo(p) == IF p \in Players THEN elo[p] ELSE 0

(* What a room is created with: its players' ratings or, for the rematch   *)
(* respond_to_rematch makes, those of the old room with the seats swapped. *)
RatingsAtStart(g) ==
    LET old == RematchOf[g] IN
    IF old = 0 THEN [white |-> Elo(WhiteOf[g]), black |-> Elo(BlackOf[g])]
               ELSE [white |-> elo_at[old].black, black |-> elo_at[old].white]

StartGame(g) ==
    /\ phase[g] = "new" /\ ~stopped
    /\ RematchOf[g] # 0 => phase[RematchOf[g]] = "over"
    /\ phase' = [phase EXCEPT ![g] = "playing"]
    /\ elo_at' = [elo_at EXCEPT ![g] = RatingsAtStart(g)]
    /\ UNCHANGED <<res, poolVars, pc, cur, sessionVars, tableVars, outcome, sinkVars, boundVars>>

(* A game somebody plays ends with a result, a room nobody joined without. *)
Ends(g, r) ==
    /\ phase' = [phase EXCEPT ![g] = "over"]
    /\ res' = [res EXCEPT ![g] = IF g \in Rated \cup AiGames THEN r ELSE "*"]
    /\ tasks' = Append(tasks, <<"persist", g>>)

(* A request that ends the game arrives while the event loop runs. *)
SubmitRequest(g) ==
    /\ phase[g] = "playing" /\ ~stopped
    /\ \A i \in 1..Len(tasks) : tasks[i] # <<"request", g>>
    /\ \A w \in Workers : ~(pc[w] = "request" /\ cur[w] = g)
    /\ tasks' = Append(tasks, <<"request", g>>)
    /\ UNCHANGED <<roomVars, stopped, pc, cur, sessionVars, tableVars, outcome, sinkVars, boundVars>>

(* The maintenance pass ends a game (flag, abandonment). *)
MaintenanceEnds(g, r) ==
    /\ phase[g] = "playing" /\ ~stopped
    /\ Ends(g, r)
    /\ UNCHANGED <<elo_at, stopped, pc, cur, sessionVars, tableVars, outcome, sinkVars, boundVars>>

(* A second delivery of the same GameCompleted event. *)
Redeliver(g) ==
    /\ repeats < MaxRepeats /\ ~stopped
    /\ phase[g] = "over"
    /\ repeats' = repeats + 1
    /\ tasks' = Append(tasks, <<"persist", g>>)
    /\ UNCHANGED <<roomVars, stopped, pc, cur, sessionVars, tableVars, outcome, sinkVars, faults, crashes>>

-----------------------------------------------------------------------------
(* TaskQueue and worker_loop *)

Goto(w, label) == pc' = [pc EXCEPT ![w] = label]

Pop(w) ==
    /\ pc[w] = "pop" /\ tasks # <<>>
    /\ tasks' = Tail(tasks)
    /\ cur' = [cur EXCEPT ![w] = Head(tasks)[2]]
    /\ Goto(w, Head(tasks)[1])
    /\ UNCHANGED <<roomVars, stopped, sessionVars, tableVars, outcome,
                   sinkVars, boundVars>>

ExitsMutant(w) == stopped
Exits(w) == stopped /\ tasks = <<>>
WorkerExit(w) ==
    /\ pc[w] = "pop" /\ Exits(w)
    /\ Goto(w, "exited")
    /\ UNCHANGED <<roomVars, poolVars, cur, sessionVars, tableVars, outcome, sinkVars, boundVars>>

(* The request's handler finishes the game, and the completion listener    *)
(* hands the snapshot to the executor: one more task for the pool.         *)
Request(w, r) ==
    /\ pc[w] = "request"
    /\ IF phase[cur[w]] = "playing"
       THEN Ends(cur[w], r)
       ELSE UNCHANGED <<phase, res, tasks>>
    /\ Goto(w, "pop")
    /\ UNCHANGED <<elo_at, stopped, cur, sessionVars, tableVars, outcome, sinkVars, boundVars>>

(* main: the event loop and its maintenance have ended, shutdown begins. *)
Shutdown ==
    /\ ~stopped
    /\ stopped' = TRUE
    /\ UNCHANGED <<roomVars, tasks, pc, cur, sessionVars, tableVars, outcome, sinkVars, boundVars>>

-----------------------------------------------------------------------------
(* persist_completed *)

Report(g, o) == outcome' = [outcome EXCEPT ![g] = o]
ReleaseSession == owner' = 0

(* A room nobody joined has no second identity: nothing is stored. *)
Storable(g) == g \in Rated \cup AiGames
Persist(w) ==
    /\ pc[w] = "persist"
    /\ IF Storable(cur[w])
       THEN owner = 0 /\ owner' = w /\ Goto(w, "probe") /\ UNCHANGED outcome
       ELSE Report(cur[w], "skipped") /\ Goto(w, "pop") /\ UNCHANGED owner
    /\ UNCHANGED <<roomVars, poolVars, cur, online, txn, sqlstate, work, tableVars,
                   sinkVars, boundVars>>

(* How a statement can go wrong: refused, or the connection is lost.       *)
(* Without a connection exec returns at once and last_sqlstate_ stays.     *)
Refused(code) == /\ txn' = IF txn = "IDLE" THEN "IDLE" ELSE "ABORTED"
                 /\ sqlstate' = code
                 /\ UNCHANGED <<online, work>>
Dropped == /\ online' = FALSE /\ txn' = "IDLE" /\ sqlstate' = ""
           /\ work' = NoView
Fault == /\ faults < MaxFaults /\ faults' = faults + 1
         /\ txn # "ABORTED"
         /\ Refused("other") \/ Dropped
StatementFails ==
    \/ online /\ Fault
    \/ online /\ txn = "ABORTED" /\ Refused("25P02") /\ UNCHANGED faults
    \/ ~online /\ UNCHANGED <<online, txn, sqlstate, work, faults>>
Executes == online /\ txn # "ABORTED" /\ sqlstate' = "" /\ UNCHANGED <<online, faults>>

saveUnchanged == <<roomVars, poolVars, cur, sinkVars, repeats, crashes>>

SaveReturns(w, o) ==
    /\ Report(cur[w], o)
    /\ ReleaseSession
    /\ IF o \in {"saved", "already"}
       THEN Goto(w, "sink")
       ELSE Goto(w, "pop")

(* The idempotency probe.  A probe that fails is treated as a miss. *)
Probe(w) ==
    /\ pc[w] = "probe" /\ owner = w
    /\ \/ /\ Executes
          /\ IF rows[cur[w]] # Ledger!NoRow
             THEN SaveReturns(w, "already")
             ELSE Goto(w, "begin") /\ UNCHANGED <<owner, outcome>>
          /\ UNCHANGED <<txn, work>>
       \/ StatementFails /\ Goto(w, "begin") /\ UNCHANGED <<owner, outcome>>
    /\ UNCHANGED <<tableVars, saveUnchanged>>

Begin(w) ==
    /\ pc[w] = "begin" /\ owner = w
    /\ \/ /\ Executes
          /\ txn' = "OPEN"
          /\ work' = [rows |-> rows, record |-> record, elo |-> elo]
          /\ Goto(w, "insert") /\ UNCHANGED <<owner, outcome>>
       \/ StatementFails /\ Goto(w, "classify") /\ UNCHANGED <<owner, outcome>>
    /\ UNCHANGED <<tableVars, saveUnchanged>>

(* One statement of the transaction: view is the transaction's view after  *)
(* it, next the statement that follows.                                    *)
Statement(w, label, view, next) ==
    /\ pc[w] = label /\ owner = w
    /\ \/ /\ Executes /\ work' = view /\ Goto(w, next) /\ UNCHANGED txn
       \/ StatementFails /\ Goto(w, "rollback")
    /\ UNCHANGED <<owner, tableVars, outcome, saveUnchanged>>

(* INSERT INTO games, under the unique index on completion_uuid. *)
Insert(w) ==
    /\ pc[w] = "insert" /\ owner = w
    /\ \/ /\ Executes /\ work.rows[cur[w]] = Ledger!NoRow
          /\ work' = [work EXCEPT !.rows[cur[w]] = res[cur[w]]]
          /\ Goto(w, "times") /\ UNCHANGED txn
       \/ /\ online /\ txn = "OPEN" /\ work.rows[cur[w]] # Ledger!NoRow
          /\ Refused("23505") /\ Goto(w, "rollback") /\ UNCHANGED faults
       \/ StatementFails /\ Goto(w, "rollback")
    /\ UNCHANGED <<owner, tableVars, outcome, saveUnchanged>>

(* INSERT INTO move_times, one per ply. *)
Times(w) ==
    Statement(w, "times", work, IF cur[w] \in Rated THEN "white" ELSE "commit")

UpdateWhite(w) ==
    Statement(w, "white",
              [work EXCEPT !.record = Ledger!ApplyWhite(@, cur[w], res[cur[w]]),
                           !.elo[WhiteOf[cur[w]]] = WhiteNew(cur[w])],
              "black")

UpdateBlack(w) ==
    Statement(w, "black",
              [work EXCEPT !.record = Ledger!ApplyBlack(@, cur[w], res[cur[w]]),
                           !.elo[BlackOf[cur[w]]] = BlackNew(cur[w])],
              "commit")

(* COMMIT: the tables take the transaction's view.  When the connection    *)
(* breaks the effect may still be there although the call failed.          *)
MakeDurableMutant == rows' = work.rows /\ UNCHANGED <<record, elo>>
MakeDurable == rows' = work.rows /\ record' = work.record /\ elo' = work.elo
Commit(w) ==
    /\ pc[w] = "commit" /\ owner = w
    /\ \/ /\ Executes /\ MakeDurable
          /\ txn' = "IDLE" /\ work' = NoView /\ SaveReturns(w, "saved")
       \/ /\ StatementFails /\ Goto(w, "rollback")
          /\ UNCHANGED <<tableVars, owner, outcome>>
       \/ /\ online /\ faults < MaxFaults /\ faults' = faults + 1
          /\ Dropped /\ MakeDurable
          /\ Goto(w, "rollback") /\ UNCHANGED <<owner, outcome>>
    /\ UNCHANGED saveUnchanged

RollbackMutant(w) ==
    /\ pc[w] = "rollback" /\ owner = w
    /\ Goto(w, "classify")
    /\ UNCHANGED <<online, faults, txn, sqlstate, owner, work, tableVars, outcome, saveUnchanged>>
(* ROLLBACK, whose success clears last_sqlstate_ like that of any other    *)
(* statement.  Without a connection there is no transaction left.          *)
Rollback(w) ==
    /\ pc[w] = "rollback" /\ owner = w
    /\ \/ /\ txn' = "IDLE" /\ work' = NoView
          /\ sqlstate' = IF online THEN "" ELSE sqlstate
          /\ UNCHANGED <<online, faults>>
       \/ online /\ faults < MaxFaults /\ faults' = faults + 1 /\ Dropped
    /\ Goto(w, "classify")
    /\ UNCHANGED <<owner, tableVars, outcome, saveUnchanged>>

(* PostgresGameStore::save_completed_game after a failed save: a unique    *)
(* violation would be looked up again, everything else is reported.        *)
Classify(w) ==
    /\ pc[w] = "classify" /\ owner = w
    /\ IF sqlstate = "23505" /\ online /\ rows[cur[w]] # Ledger!NoRow
       THEN SaveReturns(w, "already")
       ELSE SaveReturns(w, "failed")
    /\ UNCHANGED <<online, faults, txn, sqlstate, work, tableVars, saveUnchanged>>

-----------------------------------------------------------------------------
(* on_tournament_game_persisted, on the tournament session.  Each of the   *)
(* two statements may fail; the failure is logged and nothing is retried.  *)

sinkUnchanged == <<roomVars, poolVars, cur, sessionVars, tableVars, outcome, repeats, crashes>>

SinkMutant(w) ==
    /\ pc[w] = "sink"
    /\ IF cur[w] \in Tournament THEN Goto(w, "result") ELSE Goto(w, "pop")
    /\ UNCHANGED <<faults, sinkVars, sinkUnchanged>>
Sink(w) ==
    /\ pc[w] = "sink"
    /\ IF cur[w] \in Tournament
       THEN \/ /\ replay' = [replay EXCEPT ![cur[w]] = TRUE]
               /\ Goto(w, "result") /\ UNCHANGED <<pairing, faults>>
            \/ /\ faults < MaxFaults /\ faults' = faults + 1
               /\ Goto(w, "pop") /\ UNCHANGED sinkVars
       ELSE Goto(w, "pop") /\ UNCHANGED <<faults, sinkVars>>
    /\ UNCHANGED sinkUnchanged

(* record_game_result: a conditional update of a pending pairing. *)
RecordGameResult(w) ==
    /\ pc[w] = "result"
    /\ Goto(w, "pop")
    /\ \/ /\ pairing' = [pairing EXCEPT ![cur[w]] =
                           IF @ = "pending" THEN res[cur[w]] ELSE @]
          /\ UNCHANGED <<replay, faults>>
       \/ faults < MaxFaults /\ faults' = faults + 1 /\ UNCHANGED sinkVars
    /\ UNCHANGED sinkUnchanged

-----------------------------------------------------------------------------
(* The process dies and is started again: rooms, queue and session are new *)
(* and only the committed tables are left.                                 *)
Crash ==
    /\ crashes < MaxCrashes
    /\ crashes' = crashes + 1
    /\ phase' = [g \in Games |-> IF phase[g] = "new" THEN "new" ELSE "lost"]
    /\ tasks' = <<>> /\ stopped' = FALSE
    /\ pc' = [w \in Workers |-> "pop"] /\ cur' = [w \in Workers |-> 0]
    /\ owner' = 0 /\ online' = TRUE /\ txn' = "IDLE" /\ sqlstate' = ""
    /\ work' = NoView
    /\ UNCHANGED <<res, elo_at, tableVars, outcome, sinkVars, faults, repeats>>

(* All workers have joined: main returns. *)
Done == /\ \A w \in Workers : pc[w] = "exited"
        /\ UNCHANGED vars

Work(w) == \/ Pop(w) \/ WorkerExit(w)
           \/ \E r \in Outcomes : Request(w, r)
           \/ Persist(w) \/ Probe(w) \/ Begin(w) \/ Insert(w) \/ Times(w)
           \/ UpdateWhite(w) \/ UpdateBlack(w) \/ Commit(w)
           \/ Rollback(w) \/ Classify(w)
           \/ Sink(w) \/ RecordGameResult(w)

Next == \/ \E g \in Games : \/ StartGame(g) \/ SubmitRequest(g) \/ Redeliver(g)
                            \/ \E r \in Outcomes : MaintenanceEnds(g, r)
        \/ \E w \in Workers : Work(w)
        \/ Shutdown \/ Crash \/ Done

(* A pool thread keeps running its task and then takes the next one.       *)
Fairness == \A w \in Workers : WF_vars(Work(w))

Spec == Init /\ [][Next]_vars /\ Fairness

-----------------------------------------------------------------------------
(* Properties *)

Labels == {"pop", "request", "persist", "probe", "begin", "insert", "times",
           "white", "black", "commit", "rollback", "classify", "sink", "result",
           "exited"}

(* Every variable holds a value of its type. *)
TypeOK ==
    /\ phase \in [Games -> {"new", "playing", "over", "lost"}]
    /\ res \in [Games -> Ledger!Results \cup {"*"}]
    /\ elo_at \in [Games -> [white : Nat, black : Nat]]
    /\ tasks \in Seq({"request", "persist"} \X Games)
    /\ stopped \in BOOLEAN
    /\ pc \in [Workers -> Labels]
    /\ cur \in [Workers -> Games \cup {0}]
    /\ owner \in Workers \cup {0}
    /\ online \in BOOLEAN
    /\ txn \in {"IDLE", "OPEN", "ABORTED"}
    /\ sqlstate \in {"", "23505", "25P02", "other"}
    /\ rows \in [Games -> Ledger!Results \cup {Ledger!NoRow}]
    /\ elo \in [Players -> Nat]
    /\ outcome \in [Games -> {"none", "saved", "already", "failed", "skipped"}]
    /\ replay \in [Tournament -> BOOLEAN]
    /\ pairing \in [Tournament -> Ledger!Results \cup {"pending"}]

(* Every seat of every stored rated game is counted once in its player's   *)
(* record, whichever statement failed, however often the event came and    *)
(* wherever the process died.                                              *)
Seats(p, scores) ==
    ({g \in Rated : /\ rows[g] # Ledger!NoRow /\ WhiteOf[g] = p
                    /\ WhiteScore(rows[g]) \in scores} \X {"w"})
      \cup ({g \in Rated : /\ rows[g] # Ledger!NoRow /\ BlackOf[g] = p
                           /\ BlackScore(rows[g]) \in scores} \X {"b"})
RecordsMatchGames ==
    \A p \in Players :
      /\ record[p].wins = Cardinality(Seats(p, {"win"}))
      /\ record[p].losses = Cardinality(Seats(p, {"loss"}))
      /\ record[p].draws = Cardinality(Seats(p, {"draw"}))
      /\ record[p].games_played = Cardinality(Seats(p, {"win", "loss", "draw"}))

(* The shared session is never handed on inside somebody's transaction. *)
SessionCleanBetweenSaves == owner = 0 => txn = "IDLE"

(* A pairing is resolved only by a game that is durable and linked, with   *)
(* the result that is stored.                                              *)
StandingsBehindReplay ==
    \A g \in Tournament :
      pairing[g] # "pending" => replay[g] /\ rows[g] = pairing[g]

(* When the last worker has left, no task is left behind. *)
DrainedBeforeExit ==
    (\A w \in Workers : pc[w] = "exited") => tasks = <<>>

(* The statements of save_completed_game implement one atomic entry of the *)
(* ledger.                                                                 *)
ImplementsLedger == Ledger!Spec

(* Every finished game is dealt with: saved, skipped, or its failure       *)
(* logged, unless the process dies first.                                  *)
EveryGameSettled ==
    \A g \in Games : (phase[g] = "over") ~> (outcome[g] # "none" \/ phase[g] = "lost")

-----------------------------------------------------------------------------
(* What a comment says, and the code does not do *)

(* game_repo.cpp: transactions for different games touching the same       *)
(* player do not clobber each other, that is a saved game moves both       *)
(* ratings by what it is worth.                                            *)
RatingsAccumulate ==
    [][\A g \in Rated : rows[g] = Ledger!NoRow /\ rows'[g] # Ledger!NoRow =>
         elo'[WhiteOf[g]] - elo[WhiteOf[g]] = WhiteNew(g) - elo_at[g].white]_vars

(* Whatever fails, a save leaves the records equal to the stored games and *)
(* the session outside a transaction, and the process does not exit before *)
(* the queue is empty.                                                     *)
SavesAreClean == TypeOK /\ RecordsMatchGames /\ SessionCleanBetweenSaves /\ DrainedBeforeExit

=============================================================================

-------------------------- MODULE CompletionProofs --------------------------
(***************************************************************************)
(* Finished games and the tables, for any games, players and workers, any  *)
(* number of failing statements, repeated events and crashes.  The         *)
(* statements of save_completed_game take effect together and once per     *)
(* game, the players' records count the stored games, the shared session   *)
(* is handed on clean, shutdown drains the pool, and a pairing follows a   *)
(* stored game only.                                                       *)
(***************************************************************************)
EXTENDS Completion, FiniteSetTheorems, TLAPS

(* A worker between the probe and the end of the save. *)
Inside == {"insert", "times", "white", "black", "commit"}
Saving == {"probe", "begin", "rollback", "classify"} \cup Inside

(* Queued and running saves are saves of games that are over. *)
OverHasResult ==
    \A g \in Rated \cup AiGames : phase[g] = "over" => res[g] \in Ledger!Results
TasksOver ==
    \A i \in 1..Len(tasks) :
      tasks[i][1] = "persist" => phase[tasks[i][2]] = "over"
SavesOver ==
    \A w \in Workers :
      /\ pc[w] = "request" => cur[w] \in Games
      /\ pc[w] \in Saving \cup {"persist"} =>
           cur[w] \in Games /\ phase[cur[w]] = "over"
      /\ pc[w] \in Saving => cur[w] \in Rated \cup AiGames
Base == /\ phase \in [Games -> {"new", "playing", "over", "lost"}]
        /\ res \in [Games -> Ledger!Results \cup {"*"}]
        /\ tasks \in Seq({"request", "persist"} \X Games)
        /\ pc \in [Workers -> Labels]
        /\ cur \in [Workers -> Games \cup {0}]
        /\ owner \in Workers \cup {0}
SaveOfOverGame == Base /\ OverHasResult /\ TasksOver /\ SavesOver

(* The operation mutex keeps the other workers out of the session, and     *)
(* inside the transaction the session is connected and not aborted.        *)
OneInside == /\ \A w \in Workers : pc[w] \in Saving => owner = w
             /\ \A w \in Workers : pc[w] \in Inside => online /\ txn = "OPEN"

(* What the open transaction has done so far, statement by statement. *)
ViewAt(label, g) ==
    /\ work = [rows |-> work.rows, record |-> work.record, elo |-> work.elo]
    /\ work.rows \in [Games -> Ledger!Results \cup {Ledger!NoRow}]
    /\ label = "insert" => work.rows = rows
    /\ label # "insert" => /\ rows[g] = Ledger!NoRow
                           /\ work.rows = [rows EXCEPT ![g] = res[g]]
    /\ label \in {"insert", "times", "white"} => work.record = record
    /\ label = "black" => work.record = Ledger!ApplyWhite(record, g, res[g])
    /\ label = "commit" =>
         work.record = IF g \in Rated
                       THEN Ledger!ApplyBlack(Ledger!ApplyWhite(record, g, res[g]),
                                              g, res[g])
                       ELSE record
    /\ label \in {"white", "black"} => g \in Rated
View == \A w \in Workers : pc[w] \in Inside => ViewAt(pc[w], cur[w])

LedgerInv == SaveOfOverGame /\ OneInside /\ View

-----------------------------------------------------------------------------
(* What the actions have in common *)

(* A worker inside a save goes on: it stays in the save or leaves it. *)
Advance(w) ==
    /\ pc[w] \in Saving
    /\ UNCHANGED <<phase, res, tasks, cur>>
    /\ \E l \in Saving \cup {"sink", "pop"} :
         /\ pc' = [pc EXCEPT ![w] = l]
         /\ l \in Saving => UNCHANGED owner
         /\ l \notin Saving => owner' = 0

(* Every statement of a save leaves rooms, queue and game alone and hands  *)
(* the operation mutex on only when the save is over.                      *)
LEMMA StatementsAdvance ==
    ASSUME NEW w \in Workers,
           \/ Probe(w) \/ Begin(w) \/ Insert(w) \/ Times(w) \/ UpdateWhite(w)
           \/ UpdateBlack(w) \/ Commit(w) \/ Rollback(w) \/ Classify(w)
    PROVE  Advance(w)
<1> USE DEF Advance, Saving, Inside, Goto, saveUnchanged, roomVars, poolVars
<1>1. CASE Probe(w)
  BY <1>1 DEF Probe, SaveReturns, ReleaseSession
<1>2. CASE Begin(w)
  BY <1>2 DEF Begin
<1>3. CASE Insert(w)
  BY <1>3 DEF Insert
<1>4. CASE Times(w)
  BY <1>4 DEF Times, Statement
<1>5. CASE UpdateWhite(w)
  BY <1>5 DEF UpdateWhite, Statement
<1>6. CASE UpdateBlack(w)
  BY <1>6 DEF UpdateBlack, Statement
<1>7. CASE Commit(w)
  BY <1>7 DEF Commit, SaveReturns, ReleaseSession
<1>8. CASE Rollback(w)
  BY <1>8 DEF Rollback
<1>9. CASE Classify(w)
  BY <1>9 DEF Classify, SaveReturns, ReleaseSession
<1> QED
  BY <1>1, <1>2, <1>3, <1>4, <1>5, <1>6, <1>7, <1>8, <1>9

(* A game ends and its completion is queued. *)
LEMMA EndStep ==
    ASSUME SaveOfOverGame, NEW g \in Games, NEW r \in Ledger!Results,
           phase[g] = "playing",
           Ends(g, r),
           UNCHANGED <<owner, cur>>,
           \/ UNCHANGED pc
           \/ \E w \in Workers : pc' = [pc EXCEPT ![w] = "pop"]
    PROVE  SaveOfOverGame'
<1> USE GamesAssumption DEF SaveOfOverGame, Base, Labels, Ends
<1>a. res' \in [Games -> Ledger!Results \cup {"*"}]
  OBVIOUS
<1>b. phase' \in [Games -> {"new", "playing", "over", "lost"}]
  OBVIOUS
<1>c. tasks' \in Seq({"request", "persist"} \X Games)
  OBVIOUS
<1>1. Base'
  BY <1>a, <1>b, <1>c
<1>2. OverHasResult'
  BY DEF OverHasResult
<1>3. TasksOver'
  BY DEF TasksOver
<1>4. SavesOver'
  BY DEF SavesOver, Saving, Inside
<1> QED
  BY <1>1, <1>2, <1>3, <1>4

(* Every step keeps queued and running saves to games that are over. *)
LEMMA OverStep == SaveOfOverGame /\ [Next]_vars => SaveOfOverGame'
<1> SUFFICES ASSUME SaveOfOverGame, [Next]_vars PROVE SaveOfOverGame'
  OBVIOUS
<1> USE GamesAssumption, WorkerAssumption
    DEF SaveOfOverGame, Base, OverHasResult, TasksOver, SavesOver, Labels, roomVars,
        poolVars
<1>1. CASE UNCHANGED vars
  BY <1>1 DEF vars, sessionVars
<1>2. ASSUME NEW g \in Games, StartGame(g) PROVE SaveOfOverGame'
  BY <1>2 DEF StartGame, sessionVars
<1>4. ASSUME NEW g \in Games, SubmitRequest(g) PROVE SaveOfOverGame'
  BY <1>4 DEF SubmitRequest, sessionVars
<1>5. ASSUME NEW g \in Games, Redeliver(g) PROVE SaveOfOverGame'
  BY <1>5 DEF Redeliver, sessionVars
<1>6. ASSUME NEW g \in Games, NEW r \in Outcomes, MaintenanceEnds(g, r)
      PROVE  SaveOfOverGame'
  BY <1>6, EndStep, OutcomeAssumption DEF MaintenanceEnds, sessionVars
<1>7. ASSUME NEW w \in Workers, Pop(w) PROVE SaveOfOverGame'
  <2>1. Head(tasks) = tasks[1] /\ 1 \in 1..Len(tasks)
    BY <1>7 DEF Pop
  <2>2. Base' /\ OverHasResult'
    BY <1>7, <2>1 DEF Pop, Goto, sessionVars
  <2>3. TasksOver'
    BY <1>7 DEF Pop
  <2>4. SavesOver'
    BY <1>7, <2>1 DEF Pop, Goto, Saving, Inside
  <2> QED
    BY <2>2, <2>3, <2>4
<1>8. ASSUME NEW w \in Workers, WorkerExit(w) PROVE SaveOfOverGame'
  BY <1>8 DEF WorkerExit, Goto, sessionVars, Saving, Inside
<1>9. ASSUME NEW w \in Workers, NEW r \in Outcomes, Request(w, r)
      PROVE  SaveOfOverGame'
  <2>1. CASE phase[cur[w]] = "playing"
    BY <1>9, <2>1, EndStep, OutcomeAssumption DEF Request, Goto, sessionVars
  <2>2. CASE phase[cur[w]] # "playing"
    BY <1>9, <2>2 DEF Request, Goto, sessionVars, Saving, Inside
  <2> QED
    BY <2>1, <2>2
<1>10. ASSUME NEW w \in Workers, Persist(w) PROVE SaveOfOverGame'
  <2>1. /\ pc[w] = "persist" /\ UNCHANGED <<phase, res, tasks, cur>>
        /\ owner' \in Workers \cup {0}
    BY <1>10 DEF Persist
  <2>2. \/ pc' = [pc EXCEPT ![w] = "pop"]
        \/ pc' = [pc EXCEPT ![w] = "probe"] /\ cur[w] \in Rated \cup AiGames
    BY <1>10 DEF Persist, Goto, Storable
  <2>3. Base' /\ OverHasResult' /\ TasksOver'
    BY <2>1, <2>2
  <2>4. SavesOver'
    BY <2>1, <2>2 DEF Saving, Inside
  <2> QED
    BY <2>3, <2>4
<1>11. ASSUME NEW w \in Workers, Advance(w) PROVE SaveOfOverGame'
  <2> PICK l \in Saving \cup {"sink", "pop"} :
             pc' = [pc EXCEPT ![w] = l] /\ (owner' = 0 \/ UNCHANGED owner)
    BY <1>11 DEF Advance
  <2>1. pc[w] \in Saving /\ UNCHANGED <<phase, res, tasks, cur>>
    BY <1>11 DEF Advance
  <2>2. Base' /\ OverHasResult' /\ TasksOver'
    BY <2>1 DEF Saving, Inside
  <2>3. SavesOver'
    BY <2>1 DEF Saving, Inside
  <2> QED
    BY <2>2, <2>3
<1>12. ASSUME NEW w \in Workers, Sink(w) PROVE SaveOfOverGame'
  BY <1>12 DEF Sink, Goto, sinkUnchanged, sessionVars, Saving, Inside
<1>13. ASSUME NEW w \in Workers, RecordGameResult(w) PROVE SaveOfOverGame'
  <2>1. UNCHANGED <<phase, res, tasks, cur, owner>> /\ pc' = [pc EXCEPT ![w] = "pop"]
    BY <1>13 DEF RecordGameResult, Goto, sinkUnchanged, sessionVars
  <2> QED
    BY <2>1 DEF Saving, Inside
<1>14. CASE Shutdown
  BY <1>14 DEF Shutdown, sessionVars
<1>15. CASE Crash
  <2>1. /\ phase' = [g \in Games |-> IF phase[g] = "new" THEN "new" ELSE "lost"]
        /\ tasks' = <<>> /\ owner' = 0 /\ UNCHANGED res
        /\ pc' = [w \in Workers |-> "pop"] /\ cur' = [w \in Workers |-> 0]
    BY <1>15 DEF Crash
  <2>2. Base'
    BY <2>1
  <2>3. TasksOver' /\ SavesOver'
    BY <2>1 DEF Saving, Inside
  <2>4. OverHasResult'
    BY <2>1
  <2> QED
    BY <2>2, <2>3, <2>4
<1>16. CASE Done
  BY <1>16 DEF Done, vars, sessionVars
<1> QED
  BY <1>1, <1>2, <1>4, <1>5, <1>6, <1>7, <1>8, <1>9, <1>10, <1>11, <1>12,
     <1>13, <1>14, <1>15, <1>16, StatementsAdvance DEF Next, Work

(* While one worker is in a save all others are out of it, so a statement  *)
(* only has to be right for the worker that executes it.                   *)
LEMMA AloneInSession ==
    ASSUME SaveOfOverGame, OneInside, NEW w \in Workers, Advance(w),
           pc'[w] \in Inside =>
             online' /\ txn' = "OPEN" /\ ViewAt(pc[w], cur[w])'
    PROVE  OneInside' /\ View'
<1> USE WorkerAssumption DEF SaveOfOverGame, Base
<1> PICK l \in Saving \cup {"sink", "pop"} :
           /\ pc' = [pc EXCEPT ![w] = l]
           /\ l \in Saving => UNCHANGED owner
  BY DEF Advance
<1>1. owner = w /\ \A v \in Workers : v # w => pc[v] \notin Saving
  BY DEF OneInside, Advance
<1>2. \A v \in Workers : v # w => pc'[v] \notin Saving
  BY <1>1
<1>3. pc'[w] = l /\ (pc'[w] \in Saving => owner' = w)
  BY <1>1
<1>4. Inside \subseteq Saving
  BY DEF Saving
<1>5. OneInside'
  BY <1>2, <1>3, <1>4 DEF OneInside
<1>6. View'
  BY <1>2, <1>3, <1>4 DEF View
<1> QED
  BY <1>5, <1>6

(* Steps that leave the session and the tables alone. *)
LEMMA OutsideSession ==
    ASSUME SaveOfOverGame, OneInside, View, SavesOver',
           UNCHANGED <<owner, online, txn, work, rows, record>>,
           \A w \in Workers : pc'[w] \in Saving => pc'[w] = pc[w] /\ cur'[w] = cur[w],
           \A g \in Games : phase[g] = "over" => res'[g] = res[g]
    PROVE  OneInside' /\ View'
<1>1. OneInside'
  BY DEF OneInside, Saving
<1>2. ASSUME NEW w \in Workers, pc'[w] \in Inside PROVE ViewAt(pc[w], cur[w])'
  <2>1. pc'[w] = pc[w] /\ cur'[w] = cur[w] /\ ViewAt(pc[w], cur[w])
    BY <1>2 DEF View, Saving
  <2>2. res'[cur[w]] = res[cur[w]]
    BY <1>2, <2>1 DEF SaveOfOverGame, SavesOver, Saving
  <2> QED
    BY <2>1, <2>2 DEF ViewAt, Ledger!ApplyWhite, Ledger!ApplyBlack
<1> QED
  BY <1>1, <1>2 DEF View

TableType == rows \in [Games -> Ledger!Results \cup {Ledger!NoRow}]

(* A statement either fails, and the worker leaves the transaction, or     *)
(* leaves the view that the next statement expects.                        *)
LEMMA StatementStep ==
    ASSUME LedgerInv, TableType, NEW w \in Workers,
           \/ Begin(w) \/ Insert(w) \/ Times(w) \/ UpdateWhite(w) \/ UpdateBlack(w),
           pc'[w] \in Inside
    PROVE  online' = online /\ online /\ txn' = "OPEN" /\ ViewAt(pc[w], cur[w])'
<1> DEFINE g == cur[w]
<1> USE DEF LedgerInv, Inside
<1>1. pc \in [Workers -> Labels] /\ cur' = cur /\ res' = res /\ rows' = rows
      /\ record' = record
  BY DEF SaveOfOverGame, Base, Begin, Insert, Times, UpdateWhite, UpdateBlack,
     Statement, saveUnchanged, roomVars, tableVars
<1>2. pc[w] \in Inside => /\ online /\ txn = "OPEN" /\ ViewAt(pc[w], g)
                          /\ g \in Games /\ res[g] \in Ledger!Results
  BY DEF OneInside, View, SaveOfOverGame, SavesOver, OverHasResult, Saving
<1>3. CASE Begin(w)
  <2>1. /\ pc'[w] = "insert" /\ online /\ online' = online /\ txn' = "OPEN"
        /\ work' = [rows |-> rows, record |-> record, elo |-> elo]
    BY <1>1, <1>3 DEF Begin, Executes, Goto
  <2> QED
    BY <1>1, <2>1 DEF ViewAt, TableType
<1>4. CASE Insert(w)
  <2>1. /\ pc[w] = "insert" /\ pc'[w] = "times" /\ online /\ online' = online /\ txn' = txn
        /\ work' = [work EXCEPT !.rows[g] = res[g]]
        /\ work.rows[g] = Ledger!NoRow
    BY <1>1, <1>4 DEF Insert, Executes, Goto
  <2>2. work' = [rows |-> [rows EXCEPT ![g] = res[g]], record |-> record,
                 elo |-> work.elo]
    BY <1>2, <2>1 DEF ViewAt
  <2>3. /\ rows[g] = Ledger!NoRow
        /\ [rows EXCEPT ![g] = res[g]] \in [Games -> Ledger!Results \cup {Ledger!NoRow}]
    BY <1>2, <2>1 DEF ViewAt, TableType
  <2> QED
    BY <1>1, <1>2, <2>1, <2>2, <2>3 DEF ViewAt
<1>5. CASE Times(w)
  <2>1. /\ pc[w] = "times" /\ online /\ online' = online /\ txn' = txn /\ work' = work
        /\ pc'[w] = IF g \in Rated THEN "white" ELSE "commit"
    BY <1>1, <1>5 DEF Times, Statement, Executes, Goto
  <2> QED
    BY <1>1, <1>2, <2>1 DEF ViewAt
<1>6. CASE UpdateWhite(w)
  <2>1. /\ pc[w] = "white" /\ pc'[w] = "black" /\ online /\ online' = online /\ txn' = txn
        /\ work' = [work EXCEPT !.record = Ledger!ApplyWhite(@, g, res[g]),
                                !.elo[WhiteOf[g]] = WhiteNew(g)]
    BY <1>1, <1>6 DEF UpdateWhite, Statement, Executes, Goto
  <2>2. /\ work'.rows = work.rows
        /\ work'.record = Ledger!ApplyWhite(record, g, res[g])
        /\ work' = [rows |-> work'.rows, record |-> work'.record, elo |-> work'.elo]
    BY <1>2, <2>1 DEF ViewAt
  <2> QED
    BY <1>1, <1>2, <2>1, <2>2 DEF ViewAt, Ledger!ApplyWhite
<1>7. CASE UpdateBlack(w)
  <2>1. /\ pc[w] = "black" /\ pc'[w] = "commit" /\ online /\ online' = online /\ txn' = txn
        /\ work' = [work EXCEPT !.record = Ledger!ApplyBlack(@, g, res[g]),
                                !.elo[BlackOf[g]] = BlackNew(g)]
    BY <1>1, <1>7 DEF UpdateBlack, Statement, Executes, Goto
  <2>2. /\ work'.rows = work.rows
        /\ work'.record = Ledger!ApplyBlack(Ledger!ApplyWhite(record, g, res[g]),
                                            g, res[g])
        /\ work' = [rows |-> work'.rows, record |-> work'.record, elo |-> work'.elo]
    BY <1>2, <2>1 DEF ViewAt
  <2> QED
    BY <1>1, <1>2, <2>1, <2>2 DEF ViewAt, Ledger!ApplyWhite, Ledger!ApplyBlack
<1> QED
  BY <1>3, <1>4, <1>5, <1>6, <1>7

(* COMMIT is the only step that touches the tables. *)
LEMMA TablesStep ==
    ASSUME [Next]_vars
    PROVE  \/ UNCHANGED <<rows, record>>
           \/ \E w \in Workers : Commit(w) /\ MakeDurable
BY DEF Next, Work, vars, tableVars, StartGame, SubmitRequest,
   MaintenanceEnds, Redeliver, Pop, WorkerExit, Request, Shutdown, Persist, Probe,
   Begin, Statement, Insert, Times, UpdateWhite, UpdateBlack, Commit, Rollback,
   Classify, Sink, sinkUnchanged, RecordGameResult, Crash, Done

(* A COMMIT that takes effect enters the worker's game in the ledger. *)
LEMMA CommitEnters ==
    ASSUME LedgerInv, NEW w \in Workers, Commit(w), MakeDurable
    PROVE  Ledger!Enter(cur[w], res[cur[w]]) /\ cur[w] \in Games
           /\ res[cur[w]] \in Ledger!Results
<1> DEFINE g == cur[w]
<1>1. /\ pc[w] = "commit" /\ ViewAt("commit", g)
      /\ g \in Games /\ res[g] \in Ledger!Results
  BY DEF LedgerInv, View, Commit, Inside, Saving, SaveOfOverGame, SavesOver,
     OverHasResult
<1> QED
  BY <1>1 DEF ViewAt, MakeDurable, Ledger!Enter

(* Every step keeps one worker inside the session and its view of the      *)
(* tables at what its statements so far have done.                         *)
LEMMA LedgerInvStep == LedgerInv /\ TableType /\ [Next]_vars => LedgerInv' /\ TableType'
<1> SUFFICES ASSUME LedgerInv, TableType, [Next]_vars
             PROVE  LedgerInv' /\ TableType'
  OBVIOUS
<1> USE DEF LedgerInv
<1>1. SaveOfOverGame'
  BY OverStep
<1>2. TableType'
  <2>1. CASE UNCHANGED <<rows, record>>
    BY <2>1 DEF TableType
  <2>2. ASSUME NEW w \in Workers, Commit(w), MakeDurable PROVE TableType'
    BY <2>2, CommitEnters DEF Ledger!Enter, TableType
  <2> QED
    BY <2>1, <2>2, TablesStep
<1>3. OneInside' /\ View'
  <2> DEFINE Goal == OneInside' /\ View'
  <2> USE WorkerAssumption
  <2>1. ASSUME UNCHANGED <<owner, online, txn, work, rows, record, pc, cur>>,
               \A g \in Games : phase[g] = "over" => res'[g] = res[g]
        PROVE  Goal
    BY <1>1, <2>1, OutsideSession DEF SaveOfOverGame
  <2>2. ASSUME UNCHANGED <<owner, online, txn, work, rows, record>>,
               \A g \in Games : phase[g] = "over" => res'[g] = res[g],
               NEW w \in Workers, NEW l \in Labels \ Saving,
               pc' = [pc EXCEPT ![w] = l], \A v \in Workers : v # w => cur'[v] = cur[v]
        PROVE  Goal
    <3>1. \A v \in Workers : pc'[v] \in Saving => pc'[v] = pc[v] /\ cur'[v] = cur[v]
      BY <2>2 DEF SaveOfOverGame, Base
    <3> QED
      BY <1>1, <2>2, <3>1, OutsideSession DEF SaveOfOverGame
  <2>3. ASSUME NEW w \in Workers,
               \/ Begin(w) \/ Insert(w) \/ Times(w) \/ UpdateWhite(w) \/ UpdateBlack(w)
        PROVE  Goal
    <3>1. Advance(w)
      BY <2>3, StatementsAdvance
    <3>2. pc'[w] \in Inside => online' /\ txn' = "OPEN" /\ ViewAt(pc[w], cur[w])'
      <4>1. pc'[w] \in Inside => online' = online /\ online /\ txn' = "OPEN"
                                   /\ ViewAt(pc[w], cur[w])'
        BY <2>3, StatementStep
      <4> QED
        BY <4>1, Zenon
    <3> QED
      BY <3>1, <3>2, AloneInSession
  <2>4. ASSUME NEW w \in Workers, Probe(w) \/ Commit(w) \/ Rollback(w) \/ Classify(w)
        PROVE  Goal
    <3>1. Advance(w)
      BY <2>4, StatementsAdvance
    <3>2. pc'[w] \notin Inside
      BY <2>4 DEF SaveOfOverGame, Base, Probe, Commit, Rollback, Classify,
         SaveReturns, Goto, Inside
    <3> QED
      BY <3>1, <3>2, AloneInSession
  <2>5. ASSUME NEW w \in Workers, Persist(w) PROVE Goal
    <3>1. CASE ~Storable(cur[w])
      <4>1. /\ pc' = [pc EXCEPT ![w] = "pop"]
            /\ UNCHANGED <<owner, online, txn, work, rows, record, res, cur>>
        BY <2>5, <3>1 DEF Persist, Goto, roomVars, tableVars
      <4>2. "pop" \in Labels \ Saving
        BY DEF Labels, Saving, Inside
      <4> QED
        BY <2>2, <4>1, <4>2
    <3>2. CASE Storable(cur[w])
      <4>1. /\ owner = 0 /\ owner' = w /\ pc' = [pc EXCEPT ![w] = "probe"]
            /\ UNCHANGED <<online, txn>>
        BY <2>5, <3>2 DEF Persist, Goto
      <4>2. \A v \in Workers : pc[v] \notin Saving
        BY <4>1 DEF OneInside
      <4>3. \A v \in Workers : v # w => pc'[v] \notin Saving
        BY <4>1, <4>2 DEF SaveOfOverGame, Base
      <4>4. pc'[w] = "probe"
        BY <4>1 DEF SaveOfOverGame, Base
      <4> QED
        BY <4>1, <4>3, <4>4 DEF OneInside, View, Saving, Inside
    <3> QED
      BY <3>1, <3>2
  <2>6. CASE UNCHANGED vars
    BY <2>1, <2>6 DEF vars, sessionVars, tableVars, roomVars
  <2>7. ASSUME NEW g \in Games,
               StartGame(g) \/ SubmitRequest(g) \/ Redeliver(g)
        PROVE  Goal
    <3>1. UNCHANGED <<owner, online, txn, work, rows, record, pc, cur, res>>
      BY <2>7 DEF StartGame, SubmitRequest, Redeliver, sessionVars,
         tableVars, roomVars
    <3> QED
      BY <2>1, <3>1
  <2>8. ASSUME NEW g \in Games, NEW r \in Outcomes, MaintenanceEnds(g, r)
        PROVE  Goal
    <3>1. UNCHANGED <<owner, online, txn, work, rows, record, pc, cur>>
      BY <2>8 DEF MaintenanceEnds, sessionVars, tableVars
    <3>2. \A h \in Games : phase[h] = "over" => res'[h] = res[h]
      BY <2>8 DEF MaintenanceEnds, Ends, SaveOfOverGame, Base
    <3> QED
      BY <2>1, <3>1, <3>2
  <2>9. ASSUME NEW w \in Workers, Pop(w) PROVE Goal
    <3>1. /\ UNCHANGED <<owner, online, txn, work, rows, record, res>>
          /\ \A v \in Workers : v # w => cur'[v] = cur[v]
          /\ pc' = [pc EXCEPT ![w] = Head(tasks)[1]]
      BY <2>9 DEF Pop, Goto, sessionVars, tableVars, roomVars, SaveOfOverGame, Base
    <3>2. Head(tasks)[1] \in {"request", "persist"}
      BY <2>9 DEF Pop, SaveOfOverGame, Base
    <3>3. Head(tasks)[1] \in Labels \ Saving
      BY <3>2 DEF Labels, Saving, Inside
    <3> QED
      BY <2>2, <3>1, <3>3
  <2>10. ASSUME NEW w \in Workers, WorkerExit(w) PROVE Goal
    <3>1. /\ UNCHANGED <<owner, online, txn, work, rows, record, res, cur>>
          /\ pc' = [pc EXCEPT ![w] = "exited"]
      BY <2>10 DEF WorkerExit, Goto, sessionVars, tableVars, roomVars
    <3>2. "exited" \in Labels \ Saving
      BY DEF Labels, Saving, Inside
    <3> QED
      BY <2>2, <3>1, <3>2
  <2>11. ASSUME NEW w \in Workers, NEW r \in Outcomes, Request(w, r)
         PROVE  Goal
    <3>1. /\ UNCHANGED <<owner, online, txn, work, rows, record, cur>>
          /\ pc' = [pc EXCEPT ![w] = "pop"]
      BY <2>11 DEF Request, Goto, sessionVars, tableVars
    <3>2. "pop" \in Labels \ Saving
      BY DEF Labels, Saving, Inside
    <3>3. \A h \in Games : phase[h] = "over" => res'[h] = res[h]
      BY <2>11 DEF Request, Ends, SaveOfOverGame, Base
    <3> QED
      BY <2>2, <3>1, <3>2, <3>3
  <2>12. ASSUME NEW w \in Workers, Sink(w) \/ RecordGameResult(w) PROVE Goal
    <3>1. /\ UNCHANGED <<owner, online, txn, work, rows, record, cur, res>>
          /\ \/ pc' = [pc EXCEPT ![w] = "pop"]
             \/ pc' = [pc EXCEPT ![w] = "result"]
      BY <2>12 DEF Sink, RecordGameResult, Goto, sinkUnchanged, sessionVars, tableVars,
         roomVars
    <3>2. "pop" \in Labels \ Saving /\ "result" \in Labels \ Saving
      BY DEF Labels, Saving, Inside
    <3> QED
      BY <2>2, <3>1, <3>2
  <2>13. CASE Shutdown
    <3>1. UNCHANGED <<owner, online, txn, work, rows, record, pc, cur, res>>
      BY <2>13 DEF Shutdown, sessionVars, tableVars, roomVars
    <3> QED
      BY <2>1, <3>1
  <2>14. CASE Crash
    BY <2>14 DEF Crash, OneInside, View, Saving, Inside
  <2>15. CASE Done
    BY <2>6, <2>15 DEF Done
  <2> QED
    BY <2>3, <2>4, <2>5, <2>6, <2>7, <2>8, <2>9, <2>10, <2>11, <2>12, <2>13, <2>14,
       <2>15 DEF Next, Work
<1> QED
  BY <1>1, <1>2, <1>3

(* The server starts with no save under way. *)
LEMMA LedgerInvInit == Init => LedgerInv /\ TableType
<1> SUFFICES ASSUME Init PROVE LedgerInv /\ TableType
  OBVIOUS
<1>a. /\ phase = [g \in Games |-> "new"] /\ res = [g \in Games |-> "*"]
      /\ tasks = <<>> /\ owner = 0
      /\ pc = [w \in Workers |-> "pop"] /\ cur = [w \in Workers |-> 0]
  BY DEF Init
<1>b. tasks \in Seq({"request", "persist"} \X Games) /\ Len(tasks) = 0
  BY <1>a
<1>1. Base
  BY <1>a, <1>b DEF Base, Labels
<1>2. OverHasResult /\ TasksOver /\ SavesOver
  BY <1>a, <1>b, GamesAssumption DEF OverHasResult, TasksOver, SavesOver, Saving, Inside
<1>3. OneInside /\ View
  BY DEF Init, OneInside, View, Saving, Inside
<1>4. TableType
  BY DEF Init, TableType
<1> QED
  BY <1>1, <1>2, <1>3, <1>4 DEF LedgerInv, SaveOfOverGame

(* The games table and the players' records change only together, once per *)
(* game, and by what the game's result is worth.                           *)
THEOREM PersistenceImplementsLedger == Spec => ImplementsLedger
<1>1. Init => Ledger!Init
  BY DEF Init, Ledger!Init
<1>2. LedgerInv /\ TableType /\ [Next]_vars => [Ledger!Next]_<<rows, record>>
  <2> SUFFICES ASSUME LedgerInv, TableType, [Next]_vars
               PROVE  [Ledger!Next]_<<rows, record>>
    OBVIOUS
  <2>1. ASSUME NEW w \in Workers, Commit(w), MakeDurable PROVE Ledger!Next
    BY <2>1, CommitEnters DEF Ledger!Next
  <2> QED
    BY <2>1, TablesStep
<1> QED
  BY <1>1, <1>2, LedgerInvInit, LedgerInvStep, PTL DEF Spec, ImplementsLedger, Ledger!Spec

-----------------------------------------------------------------------------
(* The players' records count the stored games *)

RecordOfAPlayer == [wins : Nat, losses : Nat, draws : Nat, games_played : Nat]
ScoreSets == {{"win"}, {"loss"}, {"draw"}, {"win", "loss", "draw"}}
One(b) == IF b THEN 1 ELSE 0

(* What a game with that result adds to the scores of a player. *)
WhiteSeat(g, r, p, S) == IF WhiteOf[g] = p /\ WhiteScore(r) \in S THEN 1 ELSE 0
BlackSeat(g, r, p, S) == IF BlackOf[g] = p /\ BlackScore(r) \in S THEN 1 ELSE 0

(* The seats of a player in stored games are finitely many: games are      *)
(* stored one by one.                                                      *)
SeatsFinite == \A p \in Players, S \in ScoreSets : IsFiniteSet(Seats(p, S))
RecordsInv == /\ record \in [Players -> RecordOfAPlayer]
              /\ SeatsFinite
              /\ RecordsMatchGames

(* What it means to be counted among the seats of a player. *)
LEMMA InSeats ==
    ASSUME NEW p, NEW S, NEW x
    PROVE  x \in Seats(p, S) <=>
             \E h \in Rated :
               /\ rows[h] # Ledger!NoRow
               /\ \/ x = <<h, "w">> /\ WhiteOf[h] = p /\ WhiteScore(rows[h]) \in S
                  \/ x = <<h, "b">> /\ BlackOf[h] = p /\ BlackScore(rows[h]) \in S
BY DEF Seats

(* Storing one more rated game counts each of its two seats once. *)
LEMMA OneMoreGame ==
    ASSUME NEW g \in Rated, NEW r \in Ledger!Results, TableType,
           rows[g] = Ledger!NoRow, rows' = [rows EXCEPT ![g] = r],
           NEW p, NEW S, IsFiniteSet(Seats(p, S))
    PROVE  /\ IsFiniteSet(Seats(p, S)')
           /\ Cardinality(Seats(p, S)') =
                Cardinality(Seats(p, S))
                  + WhiteSeat(g, r, p, S) + BlackSeat(g, r, p, S)
<1> DEFINE white == WhiteOf[g] = p /\ WhiteScore(r) \in S
           black == BlackOf[g] = p /\ BlackScore(r) \in S
           old == Seats(p, S)
           mid == IF white THEN old \cup {<<g, "w">>} ELSE old
           new == IF black THEN mid \cup {<<g, "b">>} ELSE mid
<1>1. <<g, "w">> \notin old /\ <<g, "b">> \notin old /\ <<g, "b">> \notin mid
  BY InSeats
<1>2. rows'[g] = r /\ r # Ledger!NoRow /\ \A h \in Rated : h # g => rows'[h] = rows[h]
  BY GamesAssumption DEF TableType, Ledger!Results, Ledger!NoRow
<1>3. Seats(p, S)' = new
  <2>1. ASSUME NEW x
        PROVE  x \in Seats(p, S)' <=>
                 \E h \in Rated :
                   /\ rows'[h] # Ledger!NoRow
                   /\ \/ x = <<h, "w">> /\ WhiteOf[h] = p /\ WhiteScore(rows'[h]) \in S
                      \/ x = <<h, "b">> /\ BlackOf[h] = p /\ BlackScore(rows'[h]) \in S
    BY DEF Seats, WhiteScore, BlackScore
  <2>2. ASSUME NEW x PROVE x \in Seats(p, S)' <=> x \in new
    <3>1. x \in new <=> \/ x \in old
                        \/ white /\ x = <<g, "w">>
                        \/ black /\ x = <<g, "b">>
      OBVIOUS
    <3>2. x \in old <=>
             \E h \in Rated :
               /\ rows[h] # Ledger!NoRow
               /\ \/ x = <<h, "w">> /\ WhiteOf[h] = p /\ WhiteScore(rows[h]) \in S
                  \/ x = <<h, "b">> /\ BlackOf[h] = p /\ BlackScore(rows[h]) \in S
      BY InSeats
    <3> HIDE DEF old, mid, new
    <3> QED
      BY <1>2, <2>1, <3>1, <3>2
  <2> QED
    BY <2>2
<1>4. IsFiniteSet(mid) /\ Cardinality(mid) = Cardinality(old) + One(white)
  BY <1>1, FS_AddElement, FS_CardinalityType DEF One
<1>5. IsFiniteSet(new) /\ Cardinality(new) = Cardinality(mid) + One(black)
  <2> HIDE DEF mid
  <2>1. CASE black
    BY <1>1, <1>4, <2>1, FS_AddElement DEF One
  <2>2. CASE ~black
    <3>1. new = mid /\ One(black) = 0
      BY <2>2 DEF One
    <3>2. Cardinality(mid) \in Nat
      BY <1>4, FS_CardinalityType
    <3> HIDE DEF new, black
    <3> QED
      BY <1>4, <3>1, <3>2
  <2> QED
    BY <2>1, <2>2
<1>6. WhiteSeat(g, r, p, S) = One(white) /\ BlackSeat(g, r, p, S) = One(black)
  BY DEF WhiteSeat, BlackSeat, One
<1> QED
  <2> HIDE DEF old, mid, new, white, black
  <2>1. old = Seats(p, S)
    BY DEF old
  <2> QED
    BY <1>3, <1>4, <1>5, <1>6, <2>1

(* One more game of that score has been counted in a player's row. *)
Tallied(new, rec, score) ==
    /\ new \in RecordOfAPlayer
    /\ new.wins = rec.wins + One(score = "win")
    /\ new.losses = rec.losses + One(score = "loss")
    /\ new.draws = rec.draws + One(score = "draw")
    /\ new.games_played = rec.games_played + 1

(* SQL_UPDATE_WINNER, _LOSER and _DRAWER. *)
LEMMA Tallies ==
    ASSUME NEW rec \in RecordOfAPlayer
    PROVE  /\ Tallied(Ledger!Won(rec), rec, "win")
           /\ Tallied(Ledger!Lost(rec), rec, "loss")
           /\ Tallied(Ledger!Drew(rec), rec, "draw")
<1>1. Tallied(Ledger!Won(rec), rec, "win")
  <2> DEFINE first == [rec EXCEPT !.wins = @ + 1]
  <2>1. first \in RecordOfAPlayer
    BY DEF RecordOfAPlayer
  <2>2. Ledger!Won(rec) = [first EXCEPT !.games_played = @ + 1]
    BY DEF Ledger!Won
  <2>3. [first EXCEPT !.games_played = @ + 1] \in RecordOfAPlayer
    <3> HIDE DEF first
    <3> QED
      BY <2>1 DEF RecordOfAPlayer
  <2>4. /\ Ledger!Won(rec).wins = rec.wins + One("win" = "win")
        /\ Ledger!Won(rec).losses = rec.losses + One("win" = "loss")
        /\ Ledger!Won(rec).draws = rec.draws + One("win" = "draw")
        /\ Ledger!Won(rec).games_played = rec.games_played + 1
    BY DEF RecordOfAPlayer, Ledger!Won, One
  <2> QED
    BY <2>2, <2>3, <2>4 DEF Tallied
<1>2. Tallied(Ledger!Lost(rec), rec, "loss")
  <2> DEFINE first == [rec EXCEPT !.losses = @ + 1]
  <2>1. first \in RecordOfAPlayer
    BY DEF RecordOfAPlayer
  <2>2. Ledger!Lost(rec) = [first EXCEPT !.games_played = @ + 1]
    BY DEF Ledger!Lost
  <2>3. [first EXCEPT !.games_played = @ + 1] \in RecordOfAPlayer
    <3> HIDE DEF first
    <3> QED
      BY <2>1 DEF RecordOfAPlayer
  <2>4. /\ Ledger!Lost(rec).wins = rec.wins + One("loss" = "win")
        /\ Ledger!Lost(rec).losses = rec.losses + One("loss" = "loss")
        /\ Ledger!Lost(rec).draws = rec.draws + One("loss" = "draw")
        /\ Ledger!Lost(rec).games_played = rec.games_played + 1
    BY DEF RecordOfAPlayer, Ledger!Lost, One
  <2> QED
    BY <2>2, <2>3, <2>4 DEF Tallied
<1>3. Tallied(Ledger!Drew(rec), rec, "draw")
  <2> DEFINE first == [rec EXCEPT !.draws = @ + 1]
  <2>1. first \in RecordOfAPlayer
    BY DEF RecordOfAPlayer
  <2>2. Ledger!Drew(rec) = [first EXCEPT !.games_played = @ + 1]
    BY DEF Ledger!Drew
  <2>3. [first EXCEPT !.games_played = @ + 1] \in RecordOfAPlayer
    <3> HIDE DEF first
    <3> QED
      BY <2>1 DEF RecordOfAPlayer
  <2>4. /\ Ledger!Drew(rec).wins = rec.wins + One("draw" = "win")
        /\ Ledger!Drew(rec).losses = rec.losses + One("draw" = "loss")
        /\ Ledger!Drew(rec).draws = rec.draws + One("draw" = "draw")
        /\ Ledger!Drew(rec).games_played = rec.games_played + 1
    BY DEF RecordOfAPlayer, Ledger!Drew, One
  <2> QED
    BY <2>2, <2>3, <2>4 DEF Tallied
<1> QED
  BY <1>1, <1>2, <1>3

(* The updates of the two players' rows, as the result selects them. *)
LEMMA UpdateCounts ==
    ASSUME NEW rec \in RecordOfAPlayer, NEW r \in Ledger!Results
    PROVE  /\ Tallied(Ledger!WhiteUpdate(r, rec), rec, WhiteScore(r))
           /\ Tallied(Ledger!BlackUpdate(r, rec), rec, BlackScore(r))
BY Tallies
DEF Ledger!Results, WhiteScore, BlackScore, Ledger!WhiteUpdate, Ledger!BlackUpdate

(* A game and its effect on the records enter the tables together. *)
LEMMA RecordsStep ==
    ASSUME RecordsInv, TableType, NEW g \in Games, NEW r \in Ledger!Results,
           Ledger!Enter(g, r)
    PROVE  RecordsInv'
<1> USE GamesAssumption
<1>1. rows[g] = Ledger!NoRow /\ rows' = [rows EXCEPT ![g] = r]
  BY DEF Ledger!Enter
<1>2. CASE g \notin Rated
  <2>1. record' = record /\ \A h \in Rated : rows'[h] = rows[h]
    BY <1>1, <1>2 DEF Ledger!Enter
  <2>2. \A p, S : Seats(p, S)' = Seats(p, S)
    BY <2>1 DEF Seats, WhiteScore, BlackScore
  <2> QED
    BY <2>1, <2>2 DEF RecordsInv, SeatsFinite, RecordsMatchGames
<1>3. CASE g \in Rated
  <2> DEFINE w == WhiteOf[g]
             b == BlackOf[g]
             mid == Ledger!ApplyWhite(record, g, r)
  <2>1. w \in Players /\ b \in Players
    BY <1>3
  <2>2. record \in [Players -> RecordOfAPlayer]
    BY DEF RecordsInv
  <2>3. /\ mid = [record EXCEPT ![w] = Ledger!WhiteUpdate(r, record[w])]
        /\ record' = [mid EXCEPT ![b] = Ledger!BlackUpdate(r, mid[b])]
    BY <1>3 DEF Ledger!Enter, Ledger!ApplyWhite, Ledger!ApplyBlack
  <2>4. mid \in [Players -> RecordOfAPlayer]
    <3>1. Ledger!WhiteUpdate(r, record[w]) \in RecordOfAPlayer
      BY <2>1, <2>2, UpdateCounts DEF Tallied
    <3> QED
      BY <2>2, <2>3, <3>1
  <2>5. record' \in [Players -> RecordOfAPlayer]
    <3>1. Ledger!BlackUpdate(r, mid[b]) \in RecordOfAPlayer
      BY <2>1, <2>4, UpdateCounts DEF Tallied
    <3> HIDE DEF mid
    <3> QED
      BY <2>3, <2>4, <3>1
  <2>6. ASSUME NEW p \in Players
        PROVE  /\ record'[p].wins = record[p].wins
                     + WhiteSeat(g, r, p, {"win"})
                     + BlackSeat(g, r, p, {"win"})
               /\ record'[p].losses = record[p].losses
                     + WhiteSeat(g, r, p, {"loss"})
                     + BlackSeat(g, r, p, {"loss"})
               /\ record'[p].draws = record[p].draws
                     + WhiteSeat(g, r, p, {"draw"})
                     + BlackSeat(g, r, p, {"draw"})
               /\ record'[p].games_played = record[p].games_played
                     + WhiteSeat(g, r, p, {"win", "loss", "draw"})
                     + BlackSeat(g, r, p, {"win", "loss", "draw"})
    <3>1. IF w = p THEN Tallied(mid[p], record[p], WhiteScore(r))
                   ELSE mid[p] = record[p]
      BY <2>1, <2>2, <2>3, UpdateCounts
    <3>2. IF b = p THEN Tallied(record'[p], mid[p], BlackScore(r))
                   ELSE record'[p] = mid[p]
      BY <2>1, <2>3, <2>4, UpdateCounts
    <3>3. /\ record[p].wins \in Nat /\ record[p].losses \in Nat
          /\ record[p].draws \in Nat /\ record[p].games_played \in Nat
      BY <2>2 DEF RecordOfAPlayer
    <3>4. /\ WhiteScore(r) \in {"win", "loss", "draw"}
          /\ BlackScore(r) \in {"win", "loss", "draw"}
      BY DEF WhiteScore, BlackScore
    <3> HIDE DEF mid
    <3> QED
      BY <3>1, <3>2, <3>3, <3>4 DEF Tallied, One, WhiteSeat, BlackSeat
  <2>7. ASSUME NEW p \in Players, NEW S \in ScoreSets
        PROVE  /\ IsFiniteSet(Seats(p, S)')
               /\ Cardinality(Seats(p, S)') =
                    Cardinality(Seats(p, S))
                      + WhiteSeat(g, r, p, S) + BlackSeat(g, r, p, S)
    <3>1. IsFiniteSet(Seats(p, S))
      BY DEF RecordsInv, SeatsFinite
    <3> QED
      BY <1>1, <1>3, <3>1, OneMoreGame
  <2>8. SeatsFinite'
    BY <2>7 DEF SeatsFinite
  <2>9. RecordsMatchGames'
    <3> SUFFICES ASSUME NEW p \in Players
        PROVE  /\ record'[p].wins = Cardinality(Seats(p, {"win"})')
               /\ record'[p].losses = Cardinality(Seats(p, {"loss"})')
               /\ record'[p].draws = Cardinality(Seats(p, {"draw"})')
               /\ record'[p].games_played =
                    Cardinality(Seats(p, {"win", "loss", "draw"})')
      BY DEF RecordsMatchGames
    <3>1. /\ record[p].wins = Cardinality(Seats(p, {"win"}))
          /\ record[p].losses = Cardinality(Seats(p, {"loss"}))
          /\ record[p].draws = Cardinality(Seats(p, {"draw"}))
          /\ record[p].games_played = Cardinality(Seats(p, {"win", "loss", "draw"}))
      BY DEF RecordsInv, RecordsMatchGames
    <3>2. {{"win"}, {"loss"}, {"draw"}, {"win", "loss", "draw"}} \subseteq ScoreSets
      BY DEF ScoreSets
    <3>3. record'[p].wins = Cardinality(Seats(p, {"win"})')
      BY <2>6, <2>7, <3>1, <3>2
    <3>4. record'[p].losses = Cardinality(Seats(p, {"loss"})')
      BY <2>6, <2>7, <3>1, <3>2
    <3>5. record'[p].draws = Cardinality(Seats(p, {"draw"})')
      BY <2>6, <2>7, <3>1, <3>2
    <3>6. record'[p].games_played = Cardinality(Seats(p, {"win", "loss", "draw"})')
      BY <2>6, <2>7, <3>1, <3>2
    <3> QED
      BY <3>3, <3>4, <3>5, <3>6
  <2> QED
    BY <2>5, <2>8, <2>9 DEF RecordsInv
<1> QED
  BY <1>2, <1>3

(* Nothing is stored, and nobody has played. *)
LEMMA RecordsInit == Init => RecordsInv
<1> SUFFICES ASSUME Init PROVE RecordsInv
  OBVIOUS
<1>1. \A g \in Rated : rows[g] = Ledger!NoRow
  BY GamesAssumption DEF Init
<1>2. \A p, S : Seats(p, S) = {}
  BY <1>1 DEF Seats
<1>3. \A p \in Players : record[p] = [wins |-> 0, losses |-> 0, draws |-> 0,
                                     games_played |-> 0]
  BY DEF Init, Ledger!NewRecord
<1>4. record \in [Players -> RecordOfAPlayer]
  BY DEF Init, Ledger!NewRecord, RecordOfAPlayer
<1> QED
  BY <1>2, <1>3, <1>4, FS_EmptySet DEF RecordsInv, SeatsFinite, RecordsMatchGames

(* game_repo.cpp, save_completed_game: the wins, losses, draws and games   *)
(* played of every player are those of the stored games.                   *)
THEOREM RecordsCountGames == Spec => []RecordsMatchGames
<1> DEFINE Inv == LedgerInv /\ TableType /\ RecordsInv
<1>1. Init => Inv
  BY LedgerInvInit, RecordsInit
<1>2. Inv /\ [Next]_vars => Inv'
  <2> SUFFICES ASSUME Inv, [Next]_vars PROVE RecordsInv'
    BY LedgerInvStep
  <2>1. CASE UNCHANGED <<rows, record>>
    <3>1. \A p, S : Seats(p, S)' = Seats(p, S)
      BY <2>1 DEF Seats, WhiteScore, BlackScore
    <3> QED
      BY <2>1, <3>1 DEF RecordsInv, SeatsFinite, RecordsMatchGames
  <2>2. ASSUME NEW w \in Workers, Commit(w), MakeDurable PROVE RecordsInv'
    BY <2>2, CommitEnters, RecordsStep
  <2> QED
    BY <2>1, <2>2, TablesStep
<1>3. Inv => RecordsMatchGames
  BY DEF RecordsInv
<1> QED
  BY <1>1, <1>2, <1>3, PTL DEF Spec

-----------------------------------------------------------------------------
(* Who may be inside a transaction *)

(* A transaction that was begun and not ended belongs to the worker that   *)
(* holds the operation mutex, and that worker is about to end it.          *)
InTxn == Inside \cup {"rollback"}
TxnOwned == txn # "IDLE" => owner \in Workers /\ pc[owner] \in InTxn

(* Every step keeps an open transaction with the holder of the mutex. *)
LEMMA TxnStep ==
    ASSUME SaveOfOverGame, TxnOwned, [Next]_vars
    PROVE  TxnOwned'
<1> USE WorkerAssumption DEF TxnOwned
<1>0. pc \in [Workers -> Labels]
  BY DEF SaveOfOverGame, Base
<1>1. ASSUME UNCHANGED <<owner, txn, pc>> PROVE TxnOwned'
  BY <1>1
<1>2. ASSUME UNCHANGED <<owner, txn>>, NEW w \in Workers, pc[w] \notin InTxn,
             NEW l, pc' = [pc EXCEPT ![w] = l]
      PROVE  TxnOwned'
  BY <1>0, <1>2
<1>3. ASSUME txn' = "IDLE" PROVE TxnOwned'
  BY <1>3
<1>4. ASSUME NEW w \in Workers, NEW l \in InTxn, owner = w, owner' = owner,
             pc' = [pc EXCEPT ![w] = l]
      PROVE  TxnOwned'
  BY <1>0, <1>4
<1>5. ASSUME NEW w \in Workers, Persist(w) PROVE TxnOwned'
  <2>1. CASE Storable(cur[w])
    <3>1. owner = 0 /\ txn' = txn
      BY <1>5, <2>1 DEF Persist
    <3> QED
      BY <1>3, <3>1
  <2>2. CASE ~Storable(cur[w])
    <3>1. /\ UNCHANGED <<owner, txn>> /\ pc[w] \notin InTxn
          /\ pc' = [pc EXCEPT ![w] = "pop"]
      BY <1>5, <2>2 DEF Persist, Goto, InTxn, Inside
    <3> QED
      BY <1>2, <3>1
  <2> QED
    BY <2>1, <2>2
<1>6. ASSUME NEW w \in Workers, Probe(w) PROVE TxnOwned'
  <2>1. owner = w /\ pc[w] = "probe"
    BY <1>6 DEF Probe
  <2>2. txn = "IDLE"
    BY <2>1 DEF InTxn, Inside
  <2>3. txn' = "IDLE"
    BY <1>6, <2>2 DEF Probe, StatementFails, Fault, Refused, Dropped
  <2> QED
    BY <2>3
<1>7. ASSUME NEW w \in Workers, Begin(w) PROVE TxnOwned'
  <2>1. owner = w /\ pc[w] = "begin"
    BY <1>7 DEF Begin
  <2>2. txn = "IDLE"
    BY <2>1 DEF InTxn, Inside
  <2>3. \/ txn' = "IDLE"
        \/ pc' = [pc EXCEPT ![w] = "insert"] /\ owner' = owner
    BY <1>7, <2>2 DEF Begin, StatementFails, Fault, Refused, Dropped, Goto
  <2> QED
    BY <1>3, <1>4, <2>1, <2>3 DEF InTxn, Inside
<1>8. ASSUME NEW w \in Workers,
             Insert(w) \/ Times(w) \/ UpdateWhite(w) \/ UpdateBlack(w)
      PROVE  TxnOwned'
  <2>1. owner = w /\ owner' = owner
    BY <1>8 DEF Insert, Times, UpdateWhite, UpdateBlack, Statement
  <2>2. \E l \in InTxn : pc' = [pc EXCEPT ![w] = l]
    BY <1>8 DEF Insert, Times, UpdateWhite, UpdateBlack, Statement, Goto, InTxn, Inside
  <2> QED
    BY <1>4, <2>1, <2>2
<1>9. ASSUME NEW w \in Workers, Commit(w) PROVE TxnOwned'
  <2>1. owner = w
    BY <1>9 DEF Commit
  <2>2. \/ txn' = "IDLE"
        \/ pc' = [pc EXCEPT ![w] = "rollback"] /\ owner' = owner
    BY <1>9 DEF Commit, Goto
  <2> QED
    BY <1>3, <1>4, <2>1, <2>2 DEF InTxn
<1>10. ASSUME NEW w \in Workers, Rollback(w) PROVE TxnOwned'
  BY <1>3, <1>10 DEF Rollback, Dropped
<1>11. ASSUME NEW w \in Workers, Classify(w) PROVE TxnOwned'
  <2>1. owner = w /\ pc[w] = "classify" /\ txn' = txn
    BY <1>11 DEF Classify
  <2>2. txn = "IDLE"
    BY <2>1 DEF InTxn, Inside
  <2> QED
    BY <2>1, <2>2
<1>12. ASSUME NEW w \in Workers,
              \/ Pop(w) \/ WorkerExit(w) \/ Sink(w) \/ RecordGameResult(w)
              \/ \E r \in Outcomes : Request(w, r)
       PROVE  TxnOwned'
  <2>1. UNCHANGED <<owner, txn>> /\ pc[w] \notin InTxn
    BY <1>12 DEF Pop, WorkerExit, Sink, RecordGameResult, Request, sinkUnchanged,
       sessionVars, InTxn, Inside
  <2>2. \E l : pc' = [pc EXCEPT ![w] = l]
    BY <1>12 DEF Pop, WorkerExit, Sink, RecordGameResult, Request, Goto
  <2> QED
    BY <1>2, <2>1, <2>2
<1>13. ASSUME UNCHANGED vars \/ Shutdown \/ Done PROVE TxnOwned'
  BY <1>1, <1>13 DEF vars, sessionVars, Shutdown, Done
<1>14. CASE Crash
  BY <1>3, <1>14 DEF Crash
<1>15. ASSUME NEW g \in Games,
              \/ StartGame(g) \/ SubmitRequest(g) \/ Redeliver(g)
              \/ \E r \in Outcomes : MaintenanceEnds(g, r)
       PROVE  TxnOwned'
  BY <1>1, <1>15 DEF StartGame, SubmitRequest, Redeliver, MaintenanceEnds, sessionVars
<1> QED
  BY <1>5, <1>6, <1>7, <1>8, <1>9, <1>10, <1>11, <1>12, <1>13, <1>14, <1>15
  DEF Next, Work

(* database.cpp and game_repo.cpp: whoever takes the persistence session's *)
(* operation mutex finds no transaction of an earlier save, whichever      *)
(* statement of it failed.                                                 *)
THEOREM SessionsHandedOnClean == Spec => []SessionCleanBetweenSaves
<1> DEFINE Inv == LedgerInv /\ TableType /\ TxnOwned
<1>1. Init => Inv
  BY LedgerInvInit DEF Init, TxnOwned
<1>2. Inv /\ [Next]_vars => Inv'
  BY LedgerInvStep, TxnStep DEF LedgerInv
<1>3. Inv => SessionCleanBetweenSaves
  BY WorkerAssumption DEF TxnOwned, SessionCleanBetweenSaves
<1> QED
  BY <1>1, <1>2, <1>3, PTL DEF Spec

-----------------------------------------------------------------------------
(* The pool's shutdown *)

(* A worker only leaves a queue that is stopped and empty, and what is     *)
(* stopped is not submitted to; a worker that still runs may.              *)
DrainInv == /\ \A w \in Workers : pc[w] = "exited" => stopped
            /\ DrainedBeforeExit

(* Every step keeps the queue empty once the last worker has left. *)
LEMMA DrainStep ==
    ASSUME SaveOfOverGame, DrainInv, [Next]_vars
    PROVE  DrainInv'
<1> USE DEF DrainInv, DrainedBeforeExit
<1>0. pc \in [Workers -> Labels] /\ \E w \in Workers : TRUE
  BY PoolAssumption DEF SaveOfOverGame, Base
<1>1. ASSUME UNCHANGED <<pc, tasks, stopped>> PROVE DrainInv'
  BY <1>1
<1>2. ASSUME NEW w \in Workers, NEW l, l # "exited", pc[w] # "exited",
             pc' = [pc EXCEPT ![w] = l], stopped' = stopped
      PROVE  DrainInv'
  BY <1>0, <1>2
<1>3. ASSUME UNCHANGED <<pc, stopped>>, ~stopped PROVE DrainInv'
  BY <1>0, <1>3
<1>4. ASSUME NEW w \in Workers, WorkerExit(w) PROVE DrainInv'
  BY <1>0, <1>4 DEF WorkerExit, Exits, Goto, poolVars
<1>5. ASSUME NEW w \in Workers, Pop(w) PROVE DrainInv'
  <2>1. Head(tasks)[1] \in {"request", "persist"}
    BY <1>5 DEF Pop, SaveOfOverGame, Base
  <2> QED
    BY <1>2, <1>5, <2>1 DEF Pop, Goto
<1>6. ASSUME NEW w \in Workers, Advance(w), stopped' = stopped PROVE DrainInv'
  <2>1. PICK l \in Saving \cup {"sink", "pop"} : pc' = [pc EXCEPT ![w] = l]
    BY <1>6 DEF Advance
  <2>2. l # "exited" /\ pc[w] # "exited"
    BY <1>6 DEF Advance, Saving, Inside
  <2> QED
    BY <1>2, <1>6, <2>1, <2>2
<1>7. ASSUME NEW w \in Workers,
             \/ Probe(w) \/ Begin(w) \/ Insert(w) \/ Times(w) \/ UpdateWhite(w)
             \/ UpdateBlack(w) \/ Commit(w) \/ Rollback(w) \/ Classify(w)
      PROVE  DrainInv'
  <2>1. stopped' = stopped
    BY <1>7 DEF Probe, Begin, Insert, Times, UpdateWhite, UpdateBlack, Commit,
       Rollback, Classify, Statement, saveUnchanged, poolVars
  <2> QED
    BY <1>6, <1>7, <2>1, StatementsAdvance
<1>8. ASSUME NEW w \in Workers,
             \/ Persist(w) \/ Sink(w) \/ RecordGameResult(w)
             \/ \E r \in Outcomes : Request(w, r)
      PROVE  DrainInv'
  <2>1. stopped' = stopped /\ pc[w] # "exited"
    BY <1>8 DEF Persist, Sink, RecordGameResult, Request, sinkUnchanged, poolVars
  <2>2. \E l \in {"probe", "pop", "result"} : pc' = [pc EXCEPT ![w] = l]
    BY <1>8 DEF Persist, Sink, RecordGameResult, Request, Goto
  <2> QED
    BY <1>2, <2>1, <2>2
<1>9. ASSUME UNCHANGED vars \/ Done PROVE DrainInv'
  BY <1>1, <1>9 DEF vars, poolVars, Done
<1>10. CASE Shutdown
  BY <1>10 DEF Shutdown
<1>11. CASE Crash
  BY <1>0, <1>11 DEF Crash
<1>12. ASSUME NEW g \in Games,
              \/ StartGame(g) \/ SubmitRequest(g) \/ Redeliver(g)
              \/ \E r \in Outcomes : MaintenanceEnds(g, r)
       PROVE  DrainInv'
  <2>1. UNCHANGED <<pc, stopped>> /\ ~stopped
    BY <1>12 DEF StartGame, SubmitRequest, Redeliver, MaintenanceEnds, poolVars
  <2> QED
    BY <1>3, <2>1
<1> QED
  BY <1>4, <1>5, <1>7, <1>8, <1>9, <1>10, <1>11, <1>12 DEF Next, Work

(* thread_pool.cpp, shutdown: whatever was submitted before the queue was  *)
(* stopped, or by a task that was still running, is done before the last   *)
(* worker leaves.                                                          *)
THEOREM PoolDrains == Spec => []DrainedBeforeExit
<1> DEFINE Inv == LedgerInv /\ TableType /\ DrainInv
<1>1. Init => Inv
  BY LedgerInvInit DEF Init, DrainInv, DrainedBeforeExit
<1>2. Inv /\ [Next]_vars => Inv'
  BY LedgerInvStep, DrainStep DEF LedgerInv
<1>3. Inv => DrainedBeforeExit
  BY DEF DrainInv
<1> QED
  BY <1>1, <1>2, <1>3, PTL DEF Spec

-----------------------------------------------------------------------------
(* The standings behind the ledger *)

(* A stored game is over and stored with its result. *)
StoredIsOver ==
    \A g \in Games : rows[g] # Ledger!NoRow =>
      phase[g] \in {"over", "lost"} /\ rows[g] = res[g]

(* A worker in the tournament sink handles a game that is stored, and when *)
(* it records the result the pairing is already linked to it.              *)
SinkStored ==
    \A w \in Workers :
      /\ pc[w] \in {"sink", "result"} => cur[w] \in Games /\ rows[cur[w]] # Ledger!NoRow
      /\ pc[w] = "result" => cur[w] \in Tournament /\ replay[cur[w]]
SinkTypes == /\ replay \in [Tournament -> BOOLEAN]
             /\ pairing \in [Tournament -> Ledger!Results \cup {"pending"}]

StandingsInv == SinkTypes /\ StoredIsOver /\ SinkStored /\ StandingsBehindReplay

(* A game that has ended keeps its result, and stays over but for a crash. *)
LEMMA EndedStays ==
    ASSUME SaveOfOverGame, [Next]_vars, NEW g \in Games, phase[g] \in {"over", "lost"}
    PROVE  phase'[g] \in {"over", "lost"} /\ res'[g] = res[g]
<1> USE DEF SaveOfOverGame, Base
<1>1. ASSUME NEW h \in Games, NEW r, phase[h] = "playing", Ends(h, r)
      PROVE  phase'[g] \in {"over", "lost"} /\ res'[g] = res[g]
  BY <1>1 DEF Ends
<1>2. CASE UNCHANGED <<phase, res>>
  BY <1>2
<1>3. CASE Crash
  BY <1>3 DEF Crash
<1>4. ASSUME NEW h \in Games, StartGame(h)
      PROVE  phase'[g] \in {"over", "lost"} /\ res'[g] = res[g]
  BY <1>4 DEF StartGame
<1>5. ASSUME NEW w \in Workers, NEW r \in Outcomes, Request(w, r)
      PROVE  phase'[g] \in {"over", "lost"} /\ res'[g] = res[g]
  <2>1. cur[w] \in Games
    BY <1>5 DEF Request, SavesOver
  <2> QED
    BY <1>1, <1>2, <1>5, <2>1 DEF Request
<1> QED
  BY <1>1, <1>2, <1>3, <1>4, <1>5
  DEF Next, Work, vars, roomVars, SubmitRequest, MaintenanceEnds, Redeliver, Pop,
     WorkerExit, Shutdown, Persist, Probe, Begin, Statement, Insert, Times,
     UpdateWhite, UpdateBlack, Commit, Rollback, Classify, saveUnchanged, Sink,
     sinkUnchanged, RecordGameResult, Done

(* A row that is there stays, and one that is new is the result of a game  *)
(* that is over.                                                           *)
LEMMA RowsStay ==
    ASSUME LedgerInv, TableType, [Next]_vars, NEW g \in Games, rows'[g] # Ledger!NoRow
    PROVE  \/ rows[g] # Ledger!NoRow /\ rows'[g] = rows[g]
           \/ /\ rows[g] = Ledger!NoRow /\ rows'[g] = res[g]
              /\ phase[g] = "over"
<1>1. CASE UNCHANGED <<rows, record>>
  BY <1>1
<1>2. ASSUME NEW w \in Workers, Commit(w), MakeDurable
      PROVE  \/ rows[g] # Ledger!NoRow /\ rows'[g] = rows[g]
             \/ /\ rows[g] = Ledger!NoRow /\ rows'[g] = res[g]
                /\ phase[g] = "over"
  <2>1. Ledger!Enter(cur[w], res[cur[w]]) /\ cur[w] \in Games
    BY <1>2, CommitEnters
  <2>2. phase[cur[w]] = "over"
    BY <1>2 DEF Commit, LedgerInv, SaveOfOverGame, SavesOver, Saving, Inside
  <2> QED
    BY <2>1, <2>2 DEF Ledger!Enter, TableType
<1> QED
  BY <1>1, <1>2, TablesStep

(* Nothing is unlinked, and a pairing only leaves "pending" by the worker  *)
(* that records its game's result.                                         *)
SinkEffect ==
    /\ replay' \in [Tournament -> BOOLEAN]
    /\ pairing' \in [Tournament -> Ledger!Results \cup {"pending"}]
    /\ \A g \in Tournament :
         /\ replay[g] => replay'[g]
         /\ \/ pairing'[g] = pairing[g]
            \/ \E w \in Workers : /\ pc[w] = "result" /\ cur[w] = g
                                  /\ pairing'[g] = res[g]

(* What a step can do to the pairings of the tournament. *)
LEMMA SinkSteps ==
    ASSUME TableType, StandingsInv, [Next]_vars
    PROVE  SinkEffect
<1> USE DEF SinkEffect, StandingsInv, SinkTypes
<1>1. CASE UNCHANGED sinkVars
  BY <1>1 DEF sinkVars
<1>2. ASSUME NEW w \in Workers, Sink(w) PROVE SinkEffect
  <2>1. /\ pairing' = pairing
        /\ \/ replay' = replay
           \/ cur[w] \in Tournament /\ replay' = [replay EXCEPT ![cur[w]] = TRUE]
    BY <1>2 DEF Sink, sinkVars
  <2> QED
    BY <2>1
<1>3. ASSUME NEW w \in Workers, RecordGameResult(w) PROVE SinkEffect
  <2>1. CASE UNCHANGED sinkVars
    BY <1>1, <2>1
  <2>2. CASE ~UNCHANGED sinkVars
    <3>1. /\ pc[w] = "result" /\ replay' = replay
          /\ pairing' = [pairing EXCEPT ![cur[w]] =
                            IF @ = "pending" THEN res[cur[w]] ELSE @]
      BY <1>3, <2>2 DEF RecordGameResult
    <3>2. cur[w] \in Tournament /\ cur[w] \in Games
      BY <3>1 DEF SinkStored
    <3>3. res[cur[w]] \in Ledger!Results
      BY <3>1, <3>2 DEF SinkStored, StoredIsOver, TableType
    <3> QED
      BY <3>1, <3>2, <3>3
  <2> QED
    BY <2>1, <2>2
<1> QED
  BY <1>1, <1>2, <1>3
  DEF Next, Work, vars, StartGame, SubmitRequest, MaintenanceEnds, Redeliver, Pop,
     WorkerExit, Request, Shutdown, Persist, Probe, Begin, Statement, Insert, Times,
     UpdateWhite, UpdateBlack, Commit, Rollback, Classify, saveUnchanged, Crash, Done

(* How a worker gets into the sink: with a save that found or stored the   *)
(* game; how it gets to the result: with the pairing linked.               *)
LEMMA SinkEntered ==
    ASSUME LedgerInv, StandingsInv, [Next]_vars, NEW w \in Workers,
           pc'[w] \in {"sink", "result"}
    PROVE  /\ cur'[w] = cur[w]
           /\ \/ pc[w] = pc'[w]
              \/ /\ pc'[w] = "sink" /\ pc[w] \in Saving
                 /\ \/ rows[cur[w]] # Ledger!NoRow
                    \/ Commit(w) /\ MakeDurable
              \/ /\ pc'[w] = "result" /\ pc[w] = "sink"
                 /\ cur[w] \in Tournament /\ replay'[cur[w]]
<1> DEFINE Goal == /\ cur'[w] = cur[w]
                   /\ \/ pc[w] = pc'[w]
                      \/ /\ pc'[w] = "sink" /\ pc[w] \in Saving
                         /\ \/ rows[cur[w]] # Ledger!NoRow
                            \/ Commit(w) /\ MakeDurable
                      \/ /\ pc'[w] = "result" /\ pc[w] = "sink"
                         /\ cur[w] \in Tournament /\ replay'[cur[w]]
<1>0. /\ pc \in [Workers -> Labels] /\ cur \in [Workers -> Games \cup {0}]
      /\ tasks \in Seq({"request", "persist"} \X Games)
      /\ replay \in [Tournament -> BOOLEAN]
  BY DEF LedgerInv, SaveOfOverGame, Base, StandingsInv, SinkTypes
<1>1. CASE UNCHANGED <<pc, cur>>
  BY <1>1
<1>2. ASSUME NEW v \in Workers, NEW l, l \notin {"sink", "result"},
             pc' = [pc EXCEPT ![v] = l], \A x \in Workers : x # v => cur'[x] = cur[x]
      PROVE  Goal
  BY <1>0, <1>2
<1>3. ASSUME NEW v \in Workers, Pop(v) PROVE Goal
  <2>1. Head(tasks)[1] \in {"request", "persist"}
    BY <1>0, <1>3 DEF Pop
  <2>2. \A x \in Workers : x # v => cur'[x] = cur[x]
    BY <1>0, <1>3 DEF Pop
  <2> QED
    BY <1>2, <1>3, <2>1, <2>2 DEF Pop, Goto
<1>4. ASSUME NEW v \in Workers, Probe(v) \/ Classify(v) PROVE Goal
  <2>1. cur' = cur /\ pc[v] \in Saving
    BY <1>4 DEF Probe, Classify, saveUnchanged, Saving
  <2>2. \E l \in Labels : /\ pc' = [pc EXCEPT ![v] = l]
                          /\ l \in {"sink", "result"} =>
                               l = "sink" /\ rows[cur[v]] # Ledger!NoRow
    BY <1>4 DEF Probe, Classify, SaveReturns, Goto, Labels
  <2>3. PICK l \in Labels : /\ pc' = [pc EXCEPT ![v] = l]
                            /\ l \in {"sink", "result"} =>
                                 l = "sink" /\ rows[cur[v]] # Ledger!NoRow
    BY <2>2
  <2>4. CASE w # v
    BY <1>0, <2>1, <2>3, <2>4
  <2>5. CASE w = v
    <3>1. pc'[w] = l
      BY <1>0, <2>3, <2>5
    <3>2. pc'[w] = "sink" /\ rows[cur[w]] # Ledger!NoRow
      BY <2>3, <2>5, <3>1
    <3>3. cur'[w] = cur[w] /\ pc[w] \in Saving
      BY <2>1, <2>5
    <3> QED
      BY <3>2, <3>3
  <2> QED
    BY <2>4, <2>5
<1>5. ASSUME NEW v \in Workers, Commit(v) PROVE Goal
  <2>1. cur' = cur /\ pc[v] \in Saving
    BY <1>5 DEF Commit, saveUnchanged, Saving, Inside
  <2>2. \E l \in Labels : /\ pc' = [pc EXCEPT ![v] = l]
                          /\ l \in {"sink", "result"} => l = "sink" /\ MakeDurable
    BY <1>5 DEF Commit, SaveReturns, Goto, Labels
  <2> QED
    BY <1>0, <1>5, <2>1, <2>2
<1>6. ASSUME NEW v \in Workers, Sink(v) PROVE Goal
  <2>1. cur' = cur /\ pc[v] = "sink"
    BY <1>6 DEF Sink, sinkUnchanged
  <2>2. \/ pc' = [pc EXCEPT ![v] = "pop"]
        \/ /\ pc' = [pc EXCEPT ![v] = "result"] /\ cur[v] \in Tournament
           /\ replay' = [replay EXCEPT ![cur[v]] = TRUE]
    BY <1>6 DEF Sink, Goto
  <2> QED
    BY <1>0, <2>1, <2>2
<1>7. ASSUME NEW v \in Workers,
             \/ Begin(v) \/ Insert(v) \/ Times(v) \/ UpdateWhite(v) \/ UpdateBlack(v)
             \/ Rollback(v) \/ Persist(v) \/ WorkerExit(v) \/ RecordGameResult(v)
             \/ \E r \in Outcomes : Request(v, r)
      PROVE  Goal
  <2>1. cur' = cur
    BY <1>7 DEF Begin, Insert, Times, UpdateWhite, UpdateBlack, Rollback, Persist,
       WorkerExit, RecordGameResult, Request, Statement, saveUnchanged, sinkUnchanged
  <2>2. \E l \in Labels \ {"sink", "result"} : pc' = [pc EXCEPT ![v] = l]
    BY <1>7 DEF Begin, Insert, Times, UpdateWhite, UpdateBlack, Rollback, Persist,
       WorkerExit, RecordGameResult, Request, Statement, Goto, Labels
  <2> QED
    BY <1>2, <2>1, <2>2
<1>8. CASE Crash
  BY <1>8 DEF Crash
<1>9. ASSUME NEW g \in Games,
             \/ StartGame(g) \/ SubmitRequest(g) \/ Redeliver(g)
             \/ \E r \in Outcomes : MaintenanceEnds(g, r)
      PROVE  Goal
  BY <1>1, <1>9 DEF StartGame, SubmitRequest, Redeliver, MaintenanceEnds
<1>10. ASSUME UNCHANGED vars \/ Shutdown \/ Done PROVE Goal
  BY <1>1, <1>10 DEF vars, Shutdown, Done
<1> QED
  BY <1>3, <1>4, <1>5, <1>6, <1>7, <1>8, <1>9, <1>10 DEF Next, Work

(* Every step keeps the standings behind the stored games. *)
LEMMA StandingsStep ==
    ASSUME LedgerInv, TableType, StandingsInv, [Next]_vars
    PROVE  StandingsInv'
<1> USE GamesAssumption
<1>1. LedgerInv' /\ TableType'
  BY LedgerInvStep
<1>2. SaveOfOverGame
  BY DEF LedgerInv
<1>3. SinkEffect
  BY SinkSteps
<1>4. \A g \in Games : rows[g] # Ledger!NoRow => rows'[g] = rows[g]
  <2> SUFFICES ASSUME NEW g \in Games, rows[g] # Ledger!NoRow PROVE rows'[g] = rows[g]
    OBVIOUS
  <2>1. CASE UNCHANGED <<rows, record>>
    BY <2>1
  <2>2. ASSUME NEW w \in Workers, Commit(w), MakeDurable PROVE rows'[g] = rows[g]
    BY <2>2, CommitEnters DEF Ledger!Enter, TableType
  <2> QED
    BY <2>1, <2>2, TablesStep
<1>5. StoredIsOver'
  <2> SUFFICES ASSUME NEW g \in Games, rows'[g] # Ledger!NoRow
               PROVE  phase'[g] \in {"over", "lost"} /\ rows'[g] = res'[g]
    BY DEF StoredIsOver
  <2>1. phase[g] \in {"over", "lost"} /\ rows'[g] = res[g]
    BY RowsStay DEF StandingsInv, StoredIsOver
  <2> QED
    BY <1>2, <2>1, EndedStays
<1>6. SinkStored'
  <2> SUFFICES ASSUME NEW w \in Workers, pc'[w] \in {"sink", "result"}
               PROVE  /\ cur'[w] \in Games /\ rows'[cur'[w]] # Ledger!NoRow
                      /\ pc'[w] = "result" => cur'[w] \in Tournament /\ replay'[cur'[w]]
    BY DEF SinkStored
  <2>1. cur'[w] = cur[w]
    BY SinkEntered
  <2>2. CASE pc[w] = pc'[w]
    <3>1. /\ cur[w] \in Games /\ rows[cur[w]] # Ledger!NoRow
          /\ pc[w] = "result" => cur[w] \in Tournament /\ replay[cur[w]]
      BY <2>2 DEF StandingsInv, SinkStored
    <3>2. rows'[cur[w]] # Ledger!NoRow
      BY <1>4, <3>1
    <3>3. pc[w] = "result" => replay'[cur[w]]
      BY <1>3, <3>1 DEF SinkEffect
    <3> QED
      BY <2>1, <2>2, <3>1, <3>2, <3>3
  <2>3. CASE pc'[w] = "sink" /\ pc[w] \in Saving /\ rows[cur[w]] # Ledger!NoRow
    <3>1. cur[w] \in Games
      BY <1>2, <2>3 DEF SaveOfOverGame, SavesOver
    <3> QED
      BY <1>4, <2>1, <2>3, <3>1
  <2>4. CASE pc'[w] = "sink" /\ Commit(w) /\ MakeDurable
    <3>1. /\ Ledger!Enter(cur[w], res[cur[w]]) /\ cur[w] \in Games
          /\ res[cur[w]] \in Ledger!Results
      BY <2>4, CommitEnters
    <3> QED
      BY <2>1, <2>4, <3>1 DEF Ledger!Enter, TableType, Ledger!Results, Ledger!NoRow
  <2>5. CASE /\ pc'[w] = "result" /\ pc[w] = "sink"
             /\ cur[w] \in Tournament /\ replay'[cur[w]]
    BY <1>4, <2>1, <2>5 DEF StandingsInv, SinkStored
  <2> QED
    BY <2>2, <2>3, <2>4, <2>5, SinkEntered
<1>7. StandingsBehindReplay'
  <2> SUFFICES ASSUME NEW g \in Tournament, pairing'[g] # "pending"
               PROVE  replay'[g] /\ rows'[g] = pairing'[g]
    BY DEF StandingsBehindReplay
  <2>1. g \in Games
    OBVIOUS
  <2>2. CASE pairing'[g] = pairing[g]
    <3>1. replay[g] /\ rows[g] = pairing[g] /\ pairing[g] \in Ledger!Results
      BY <2>2 DEF StandingsInv, SinkTypes, StandingsBehindReplay
    <3> QED
      BY <1>3, <1>4, <2>1, <2>2, <3>1 DEF SinkEffect, Ledger!Results, Ledger!NoRow
  <2>3. ASSUME NEW w \in Workers, pc[w] = "result", cur[w] = g, pairing'[g] = res[g]
        PROVE  replay'[g] /\ rows'[g] = pairing'[g]
    <3>1. replay[g] /\ rows[g] # Ledger!NoRow
      BY <2>3 DEF StandingsInv, SinkStored
    <3>2. rows[g] = res[g]
      BY <2>1, <3>1 DEF StandingsInv, StoredIsOver
    <3> QED
      BY <1>3, <1>4, <2>1, <2>3, <3>1, <3>2 DEF SinkEffect
  <2> QED
    BY <1>3, <2>2, <2>3 DEF SinkEffect
<1>8. SinkTypes'
  BY <1>3 DEF SinkEffect, SinkTypes
<1> QED
  BY <1>5, <1>6, <1>7, <1>8 DEF StandingsInv

(* tournament_repo.cpp, record_game_result, called by the completion sink: *)
(* a pairing is decided only by a stored game it is linked to, with the    *)
(* stored result, through failures, repeated deliveries and crashes.       *)
THEOREM StandingsFollowReplay == Spec => []StandingsBehindReplay
<1> DEFINE Inv == LedgerInv /\ TableType /\ StandingsInv
<1>1. Init => Inv
  <2> SUFFICES ASSUME Init PROVE StandingsInv
    BY LedgerInvInit
  <2>1. /\ replay = [g \in Tournament |-> FALSE]
        /\ pairing = [g \in Tournament |-> "pending"]
        /\ rows = [g \in Games |-> Ledger!NoRow] /\ pc = [w \in Workers |-> "pop"]
    BY DEF Init
  <2>2. SinkTypes
    BY <2>1 DEF SinkTypes
  <2> QED
    BY <2>1, <2>2 DEF StandingsInv, StoredIsOver, SinkStored, StandingsBehindReplay
<1>2. Inv /\ [Next]_vars => Inv'
  BY LedgerInvStep, StandingsStep
<1>3. Inv => StandingsBehindReplay
  BY DEF StandingsInv
<1> QED
  BY <1>1, <1>2, <1>3, PTL DEF Spec


-----------------------------------------------------------------------------
(* Types, ratings among them *)

(* calculate_elo rounds to an integer for any two ratings. *)
GainsAreIntegers == \A d \in Int : Gain[d] \in Int /\ HalfGain[d] \in Int

SwitchTypes == /\ stopped \in BOOLEAN /\ online \in BOOLEAN
               /\ txn \in {"IDLE", "OPEN", "ABORTED"}
               /\ sqlstate \in {"", "23505", "25P02", "other"}
               /\ outcome \in [Games -> {"none", "saved", "already", "failed", "skipped"}]
RatingTypes == /\ elo_at \in [Games -> [white : Nat, black : Nat]]
               /\ elo \in [Players -> Nat]
               /\ work = [rows |-> work.rows, record |-> work.record, elo |-> work.elo]
               /\ work.elo \in [Players -> Nat]

(* What calculate_elo returns is a rating: it never goes below zero. *)
LEMMA NewRatings ==
    ASSUME GainsAreIntegers, RatingTypes, NEW g \in Games
    PROVE  WhiteNew(g) \in Nat /\ BlackNew(g) \in Nat
<1>1. elo_at[g].white \in Nat /\ elo_at[g].black \in Nat
  BY DEF RatingTypes
<1>2. ASSUME NEW a \in Nat, NEW b \in Nat, NEW s PROVE Delta(a, b, s) \in Int
  <2>1. a - b \in Int /\ b - a \in Int
    OBVIOUS
  <2>2. Gain[a - b] \in Int /\ Gain[b - a] \in Int /\ HalfGain[a - b] \in Int
    BY <2>1 DEF GainsAreIntegers
  <2> QED
    BY <2>2 DEF Delta
<1>3. ASSUME NEW x \in Int PROVE Floor0(x) \in Nat
  BY DEF Floor0
<1>4. /\ Delta(elo_at[g].white, elo_at[g].black, WhiteScore(res[g])) \in Int
      /\ Delta(elo_at[g].black, elo_at[g].white, BlackScore(res[g])) \in Int
  BY <1>1, <1>2
<1> QED
  BY <1>1, <1>3, <1>4 DEF WhiteNew, BlackNew

(* Every step keeps the session's switches in their ranges. *)
LEMMA SwitchStep == Base /\ SavesOver /\ SwitchTypes /\ [Next]_vars => SwitchTypes'
<1> SUFFICES ASSUME Base, SavesOver, SwitchTypes, [Next]_vars PROVE SwitchTypes'
  OBVIOUS
<1> USE DEF SwitchTypes
<1>1. CASE UNCHANGED <<stopped, online, txn, sqlstate, outcome>>
  BY <1>1
<1>2. ASSUME StatementFails PROVE online' \in BOOLEAN
            /\ txn' \in {"IDLE", "OPEN", "ABORTED"}
            /\ sqlstate' \in {"", "23505", "25P02", "other"}
  BY <1>2 DEF StatementFails, Fault, Refused, Dropped
<1>3. ASSUME Executes PROVE online' \in BOOLEAN /\ sqlstate' = ""
  BY <1>3 DEF Executes
<1>4. ASSUME NEW w \in Workers,
             NEW o \in {"saved", "already", "failed", "skipped"}, Report(cur[w], o)
      PROVE  outcome' \in [Games -> {"none", "saved", "already", "failed", "skipped"}]
  BY <1>4 DEF Report
<1>5. ASSUME NEW w \in Workers,
             \/ Begin(w) \/ Insert(w) \/ Times(w) \/ UpdateWhite(w) \/ UpdateBlack(w)
      PROVE  SwitchTypes'
  <2>1. stopped' = stopped /\ outcome' = outcome
    BY <1>5 DEF Begin, Insert, Times, UpdateWhite, UpdateBlack, Statement, saveUnchanged,
       poolVars
  <2>2. \/ StatementFails
        \/ Executes /\ txn' \in {"OPEN", txn}
        \/ Refused("23505")
    BY <1>5 DEF Begin, Insert, Times, UpdateWhite, UpdateBlack, Statement
  <2> QED
    BY <1>2, <1>3, <2>1, <2>2 DEF Refused
<1>6. ASSUME NEW w \in Workers, Probe(w) PROVE SwitchTypes'
  <2>1. stopped' = stopped
    BY <1>6 DEF Probe, saveUnchanged, poolVars
  <2>2. \/ StatementFails
        \/ Executes /\ txn' = txn
    BY <1>6 DEF Probe
  <2>3. outcome' = outcome \/ Report(cur[w], "already")
    BY <1>6 DEF Probe, SaveReturns
  <2> QED
    BY <1>2, <1>3, <1>4, <2>1, <2>2, <2>3
<1>7. ASSUME NEW w \in Workers, Commit(w) PROVE SwitchTypes'
  <2>1. stopped' = stopped
    BY <1>7 DEF Commit, saveUnchanged, poolVars
  <2>2. \/ StatementFails \/ Dropped
        \/ Executes /\ txn' = "IDLE"
    BY <1>7 DEF Commit
  <2>3. outcome' = outcome \/ Report(cur[w], "saved")
    BY <1>7 DEF Commit, SaveReturns
  <2> QED
    BY <1>2, <1>3, <1>4, <2>1, <2>2, <2>3 DEF Dropped
<1>8. ASSUME NEW w \in Workers, Rollback(w) PROVE SwitchTypes'
  BY <1>8 DEF Rollback, Dropped, saveUnchanged, poolVars
<1>9. ASSUME NEW w \in Workers, Classify(w) PROVE SwitchTypes'
  <2>1. UNCHANGED <<stopped, online, txn, sqlstate>>
    BY <1>9 DEF Classify, saveUnchanged, poolVars
  <2>2. Report(cur[w], "already") \/ Report(cur[w], "failed")
    BY <1>9 DEF Classify, SaveReturns
  <2> QED
    BY <1>4, <2>1, <2>2
<1>10. ASSUME NEW w \in Workers, Persist(w) PROVE SwitchTypes'
  <2>1. UNCHANGED <<stopped, online, txn, sqlstate>>
    BY <1>10 DEF Persist, poolVars
  <2>2. outcome' = outcome \/ Report(cur[w], "skipped")
    BY <1>10 DEF Persist
  <2> QED
    BY <1>4, <2>1, <2>2
<1>11. CASE Shutdown \/ Crash
  BY <1>11 DEF Shutdown, Crash, sessionVars
<1> QED
  BY <1>1, <1>5, <1>6, <1>7, <1>8, <1>9, <1>10, <1>11
  DEF Next, Work, vars, poolVars, sessionVars, StartGame, SubmitRequest, Redeliver,
     MaintenanceEnds, Pop, WorkerExit, Request, Sink, sinkUnchanged, RecordGameResult, Done

(* A statement's effect on the transaction's view and on the tables. *)
LEMMA RatingsMove ==
    ASSUME [Next]_vars
    PROVE  /\ \/ work' = work \/ work' = NoView
              \/ work' = [rows |-> rows, record |-> record, elo |-> elo]
              \/ \E w \in Workers : Insert(w) \/ UpdateWhite(w) \/ UpdateBlack(w)
           /\ elo' = elo \/ elo' = work.elo
           /\ elo_at' = elo_at \/ \E g \in Games : StartGame(g)
BY DEF Next, Work, vars, roomVars, tableVars, sessionVars, StartGame, SubmitRequest,
   MaintenanceEnds, Redeliver, Pop, WorkerExit, Request, Shutdown, Persist, Probe, Begin,
   Statement, Times, Commit, Rollback, Classify, saveUnchanged, Sink, sinkUnchanged,
   RecordGameResult, Crash, Done, Executes, StatementFails, Fault, Refused, Dropped,
   MakeDurable, Insert, UpdateWhite, UpdateBlack

(* Every step keeps ratings natural numbers. *)
LEMMA RatingStep ==
    ASSUME GainsAreIntegers, Base, SavesOver, RatingTypes, [Next]_vars
    PROVE  RatingTypes'
<1> USE GamesAssumption, RatingAssumption DEF RatingTypes
<1>1. elo' \in [Players -> Nat]
  BY RatingsMove
<1>2. ASSUME NEW g \in Games, StartGame(g)
      PROVE  elo_at' \in [Games -> [white : Nat, black : Nat]]
  <2>1. \A p : Elo(p) \in Nat
    BY DEF Elo
  <2>2. RematchOf[g] # 0 => RematchOf[g] \in Games
    OBVIOUS
  <2>3. RatingsAtStart(g) \in [white : Nat, black : Nat]
    BY <2>1, <2>2 DEF RatingsAtStart
  <2> QED
    BY <1>2, <2>3 DEF StartGame
<1>3. elo_at' \in [Games -> [white : Nat, black : Nat]]
  BY <1>2, RatingsMove
<1> DEFINE Shape == /\ work' = [rows |-> work'.rows, record |-> work'.record,
                                elo |-> work'.elo]
                    /\ work'.elo \in [Players -> Nat]
<1>4. ASSUME work' = NoView PROVE Shape
  BY <1>4 DEF NoView
<1>5. ASSUME work' = [rows |-> rows, record |-> record, elo |-> elo] PROVE Shape
  BY <1>5
<1>6. ASSUME NEW w \in Workers, Insert(w) \/ UpdateWhite(w) \/ UpdateBlack(w)
      PROVE  Shape
  <2>1. pc[w] \in Saving /\ cur[w] \in Games
    BY <1>6 DEF Insert, UpdateWhite, UpdateBlack, Statement, Saving, Inside, SavesOver
  <2>2. WhiteNew(cur[w]) \in Nat /\ BlackNew(cur[w]) \in Nat
    BY <2>1, NewRatings
  <2>3. \/ work' \in {work, NoView}
        \/ work' = [work EXCEPT !.rows[cur[w]] = res[cur[w]]]
        \/ work' = [work EXCEPT !.record = Ledger!ApplyWhite(@, cur[w], res[cur[w]]),
                                !.elo[WhiteOf[cur[w]]] = WhiteNew(cur[w])]
        \/ work' = [work EXCEPT !.record = Ledger!ApplyBlack(@, cur[w], res[cur[w]]),
                                !.elo[BlackOf[cur[w]]] = BlackNew(cur[w])]
    BY <1>6 DEF Insert, UpdateWhite, UpdateBlack, Statement, StatementFails, Fault,
       Refused, Dropped
  <2>4. ASSUME NEW p, NEW n \in Nat
        PROVE  [work.elo EXCEPT ![p] = n] \in [Players -> Nat]
    OBVIOUS
  <2>5. CASE work' \in {work, NoView}
    BY <1>4, <2>5
  <2>6. CASE work' = [work EXCEPT !.rows[cur[w]] = res[cur[w]]]
    BY <2>6
  <2>7. CASE work' = [work EXCEPT !.record = Ledger!ApplyWhite(@, cur[w], res[cur[w]]),
                                  !.elo[WhiteOf[cur[w]]] = WhiteNew(cur[w])]
    BY <2>2, <2>4, <2>7
  <2>8. CASE work' = [work EXCEPT !.record = Ledger!ApplyBlack(@, cur[w], res[cur[w]]),
                                  !.elo[BlackOf[cur[w]]] = BlackNew(cur[w])]
    BY <2>2, <2>4, <2>8
  <2> QED
    BY <2>3, <2>5, <2>6, <2>7, <2>8
<1>7. Shape
  BY <1>4, <1>5, <1>6, RatingsMove
<1> QED
  BY <1>1, <1>3, <1>7

(* game_repo.cpp and thread_pool.cpp: every variable keeps its type, the   *)
(* records count the stored games, the session is handed on outside a      *)
(* transaction and the queue is empty when the pool is gone, provided the  *)
(* Elo formula returns integers.                                           *)
THEOREM SavesStayClean == GainsAreIntegers => (Spec => []SavesAreClean)
<1> DEFINE Types == /\ LedgerInv /\ TableType /\ StandingsInv /\ SwitchTypes
                    /\ RatingTypes
<1> SUFFICES ASSUME GainsAreIntegers PROVE Spec => []SavesAreClean
  OBVIOUS
<1>1. Init => Types
  <2> SUFFICES ASSUME Init PROVE StandingsInv /\ SwitchTypes /\ RatingTypes
    BY LedgerInvInit
  <2>1. StandingsInv
    BY DEF Init, StandingsInv, SinkTypes, StoredIsOver, SinkStored, StandingsBehindReplay
  <2>2. SwitchTypes
    BY DEF Init, SwitchTypes
  <2>3. RatingTypes
    BY RatingAssumption DEF Init, RatingTypes, NoView
  <2> QED
    BY <2>1, <2>2, <2>3
<1>2. Types /\ [Next]_vars => Types'
  BY LedgerInvStep, StandingsStep, SwitchStep, RatingStep DEF LedgerInv, SaveOfOverGame
<1>3. Types => TypeOK
  BY DEF TypeOK, LedgerInv, SaveOfOverGame, Base, TableType, StandingsInv, SinkTypes,
     SwitchTypes, RatingTypes
<1>4. Spec => []TypeOK
  BY <1>1, <1>2, <1>3, PTL DEF Spec
<1> QED
  BY <1>4, RecordsCountGames, SessionsHandedOnClean, PoolDrains, PTL DEF SavesAreClean

=============================================================================

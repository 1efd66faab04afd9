----------------------------- MODULE GameLedger -----------------------------
(***************************************************************************)
(* What persistence promises: a ledger of finished games in which a game   *)
(* and its effect on the players' records appear together, and at most     *)
(* once.  Completion implements it statement by statement.                 *)
(***************************************************************************)
EXTENDS Integers, FiniteSets

CONSTANTS Games, Players, WhiteOf, BlackOf, Rated

Results == {"1-0", "0-1", "1/2-1/2"}
NoRow == "none"
NewRecord == [wins |-> 0, losses |-> 0, draws |-> 0, games_played |-> 0]

VARIABLES rows,      \* games table: the result stored for each game, or NoRow
          record     \* players table: the aggregate record of each player

(* The record after one more game won, lost or drawn. *)
Won(r) == [r EXCEPT !.wins = @ + 1, !.games_played = @ + 1]
Lost(r) == [r EXCEPT !.losses = @ + 1, !.games_played = @ + 1]
Drew(r) == [r EXCEPT !.draws = @ + 1, !.games_played = @ + 1]

(* SQL_UPDATE_WINNER, _LOSER and _DRAWER, as the result selects them. *)
WhiteUpdate(res, r) == CASE res = "1-0" -> Won(r)
                         [] res = "0-1" -> Lost(r)
                         [] OTHER -> Drew(r)
BlackUpdate(res, r) == CASE res = "1-0" -> Lost(r)
                         [] res = "0-1" -> Won(r)
                         [] OTHER -> Drew(r)

ApplyWhite(rec, g, res) == [rec EXCEPT ![WhiteOf[g]] = WhiteUpdate(res, @)]
ApplyBlack(rec, g, res) == [rec EXCEPT ![BlackOf[g]] = BlackUpdate(res, @)]

Init == /\ rows = [g \in Games |-> NoRow]
        /\ record = [p \in Players |-> NewRecord]

Enter(g, res) ==
    /\ rows[g] = NoRow
    /\ rows' = [rows EXCEPT ![g] = res]
    /\ record' = IF g \in Rated
                 THEN ApplyBlack(ApplyWhite(record, g, res), g, res)
                 ELSE record

Next == \E g \in Games, res \in Results : Enter(g, res)

Spec == Init /\ [][Next]_<<rows, record>>

=============================================================================

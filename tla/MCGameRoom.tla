----------------------------- MODULE MCGameRoom -----------------------------
(* Constants of the GameRoom runs: player 2 has connection 2, player 1 the  *)
(* others (a refreshed browser, or a second tab).                           *)
EXTENDS GameRoom

MCOwner == [f \in Conns |-> IF f = 2 THEN 2 ELSE 1]

=============================================================================

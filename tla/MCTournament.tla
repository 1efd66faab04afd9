---------------------------- MODULE MCTournament ----------------------------
(* Instances of Tournament: ratings fall with the player's number, so      *)
(* that the rating gaps of the possible rounds differ.                     *)
EXTENDS Tournament

MCElo == [p \in Players |-> 1600 - 100 * p]

=============================================================================

------------------------------- MODULE MCLive -------------------------------
(***************************************************************************)
(* What must eventually happen: in the completion pipeline and on the      *)
(* connections, each under the fairness of its threads.  The two share no  *)
(* state.  A behaviour is of the games, while no connection is served, or  *)
(* of the connections, while no game is played: scene says which.          *)
(***************************************************************************)
EXTENDS MCCompletion, Transport

VARIABLE scene

LiveInit == /\ scene \in {"games", "connections"}
            /\ Init
            /\ IF scene = "games" THEN TInitOff ELSE TInit

LiveNext == /\ UNCHANGED scene
            /\ \/ scene = "games" /\ Next /\ UNCHANGED tVars
               \/ scene = "connections" /\ TNext /\ UNCHANGED vars

LiveSpec == LiveInit /\ [][LiveNext]_<<scene, vars, tVars>> /\ Fairness /\ TFairness
=============================================================================

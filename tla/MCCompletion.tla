---------------------------- MODULE MCCompletion ----------------------------
(* Instances of Completion.  Ratings start at 1200, or so low that a loss  *)
(* would take them below zero; the tables hold the values calculate_elo    *)
(* rounds to with K = 32 at the leads that occur.                          *)
EXTENDS Completion, TLC

MCFirstElo == [p \in Players |-> 1200]
LowFirstElo == [p \in Players |-> 8]
MCGain == [lead \in Int |-> IF lead < 0 THEN 17 ELSE IF lead = 0 THEN 16 ELSE 15]
MCHalfGain == [lead \in Int |-> IF lead < 0 THEN 1 ELSE IF lead = 0 THEN 0 ELSE -1]

NoRematch == [g \in Games |-> 0]
SecondIsRematch == [g \in Games |-> IF g = 2 THEN 1 ELSE 0]

(* 1: between the two players; 2: against the engine. *)
MixedWhite == 1 :> 1 @@ 2 :> 1
MixedBlack == 1 :> 2 @@ 2 :> 0

(* 1: between the two players; 2: its rematch; 3: a room nobody joined. *)
SeriesWhite == 1 :> 1 @@ 2 :> 2 @@ 3 :> 2
SeriesBlack == 1 :> 2 @@ 2 :> 1 @@ 3 :> 0

(* 1 and its rematch only. *)
PairWhite == 1 :> 1 @@ 2 :> 2
PairBlack == 1 :> 2 @@ 2 :> 1

(* One game. *)
OneWhite == 1 :> 1
OneBlack == 1 :> 2

=============================================================================

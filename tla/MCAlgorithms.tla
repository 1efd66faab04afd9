---------------------------- MODULE MCAlgorithms ----------------------------
(***************************************************************************)
(* The parts of the server that compute: the rules, notations and          *)
(* evaluation of chess, the engine's search, WebSocket framing and the     *)
(* matchmaker's sweep.  They share no state, so a behaviour belongs to one *)
(* of them: scene says to which.                                           *)
(***************************************************************************)
EXTENDS Notation, Evaluator, Engine, Framing, Matchmaking

W(t) == <<"w", t>>
B(t) == <<"b", t>>
From(board, side, rights, plies) ==
    [pos |-> [board |-> board, side |-> side, rights |-> rights, ep |-> NoSquare, half |-> 0, full |-> 1],
     book |-> << >>, plies |-> plies]

(* Both sides may castle; a bishop and a rook look at the corners. *)
Castling == From(4 :> W("K") @@ 0 :> W("R") @@ 7 :> W("R")
                 @@ 60 :> B("K") @@ 63 :> B("R") @@ 49 :> B("B"), "w", {"K", "Q", "k"}, 2)
(* bxc6 en passant would open the rank from the rook to the king. *)
EnPassantPin == From(32 :> W("K") @@ 33 :> W("P") @@ 50 :> B("P") @@ 39 :> B("R") @@ 60 :> B("K")
                     @@ 35 :> W("P"), "b", {}, 2)
(* A pawn promotes, also by taking the rook that may castle. *)
Promotion == From(4 :> W("K") @@ 49 :> W("P") @@ 56 :> B("R") @@ 60 :> B("K") @@ 10 :> B("P"), "w", {"q"}, 2)
(* Four knights reach one square. *)
Knights == From(7 :> W("K") @@ 17 :> W("N") @@ 21 :> W("N") @@ 33 :> W("N") @@ 37 :> W("N") @@ 63 :> B("K"),
                "w", {}, 1)
Mates == From(45 :> W("K") @@ 38 :> W("Q") @@ 63 :> B("K") @@ 8 :> W("P"), "w", {}, 2)
(* The first moves, and a game that can castle after its book moves. *)
Start == [pos |-> starting_position, book |-> << >>, plies |-> 1]
Italian == [pos |-> starting_position, plies |-> 7,
            book |-> << <<12, 28>>, <<52, 36>>, <<6, 21>>, <<57, 42>>, <<5, 26>>, <<61, 34>> >>]

Games == <<Castling, EnPassantPin, Promotion, Knights, Mates, Start, Italian>>

-----------------------------------------------------------------------------
Quiet(n) == [to |-> n, gain |-> 0, noisy |-> FALSE]
Takes(n, gain) == [to |-> n, gain |-> 10000 + gain, noisy |-> TRUE]
Pos(moves, eval) == [moves |-> moves, eval |-> eval, check |-> FALSE, drawn |-> FALSE]
InCheck(moves, eval) == [moves |-> moves, eval |-> eval, check |-> TRUE, drawn |-> FALSE]
Drawn == [moves |-> <<Quiet(1)>>, eval |-> 0, check |-> FALSE, drawn |-> TRUE]

(* A mate in one and in three, reached over transpositions. *)
MateGraph == << Pos(<<Quiet(2), Takes(3, 900), Quiet(4)>>, 10), Pos(<<Quiet(5), Quiet(6)>>, -30),
                InCheck(<<Quiet(6), Quiet(7)>>, -90), Pos(<<Quiet(6), Takes(8, 220)>>, 0),
                Pos(<<Quiet(7), Takes(8, 100)>>, 40), Pos(<<Takes(7, 900), Quiet(8)>>, 70),
                InCheck(<< >>, 0), Drawn >>
(* A capture that looks good and loses, a stalemate, and a shared ending. *)
TrapGraph == << Pos(<<Takes(2, 8900), Quiet(3)>>, 0), Pos(<<Takes(4, 100), Quiet(5)>>, 50),
                Pos(<<Quiet(5), Quiet(6)>>, -20), InCheck(<<Quiet(6)>>, -40),
                Pos(<<Quiet(6), Takes(7, 400)>>, 60), Pos(<<Quiet(7), Quiet(8)>>, -10),
                Pos(<< >>, 0), InCheck(<< >>, 0) >>
GameGraphs == <<MateGraph, TrapGraph>>
Limits == {3, 17, 40, 1000000}

-----------------------------------------------------------------------------
(* A handshake and masked frames, with payloads at the boundaries of the   *)
(* three length forms and of MaxFrame; requests that are no handshake.     *)
Upgrade == <<GetLine, OtherLine, UpgradeLine, KeyLine, BlankLine>>
Sends(op, len) == [opcode |-> op, key |-> <<1, 6>>, payload |-> [i \in 1..len |-> i % Base]]
Client(lines, frames, leaves) == [lines |-> lines, frames |-> frames, hangsUp |-> leaves]
SomeClients ==
    {Client(Upgrade, <<Sends(Text, a), Sends(Ping, b), Sends(Text, 1)>>, FALSE) :
        a \in {0, 1, 2, 3, 5}, b \in {0, 1, 2, 3}}
    \cup {Client(Upgrade, <<Sends(op, a), Sends(Text, 2)>>, FALSE) :
        op \in {Text, Ping}, a \in {63, 64, 65, 66}}
    \cup {Client(Upgrade, <<>>, FALSE),
          Client(Upgrade, <<Sends(Text, 2), Sends(Close, 2), Sends(Text, 2)>>, TRUE),
          Client(Upgrade, <<Sends(Text, 4), Sends(Ping, 1), Sends(Text, 2)>>, FALSE),
          Client(Upgrade, <<Sends(Binary, 4), Sends(Pong, 3), Sends(Text, 3)>>, TRUE),
          Client(<<GetLine, KeyLine, BlankLine>>, <<>>, TRUE),
          Client(<<OtherLine, UpgradeLine, KeyLine, BlankLine>>, <<>>, FALSE)}

(* The handler of a text of four bytes throws. *)
SomeThrow == {Sends(Text, 4).payload}

(* Connections in the queue are interchangeable. *)
SeekerSymmetry == Permutations(Seekers)

-----------------------------------------------------------------------------
CONSTANT Scenes
VARIABLE scene

Init == /\ scene \in Scenes
        /\ IF scene = "game" THEN ChessInit ELSE opening = 0 /\ pos = Begin(1) /\ line = << >>
        /\ IF scene = "engine" THEN EngineInit
           ELSE graph = 1 /\ tt = << >> /\ searches = 0 /\ report = NoReport
        /\ FInit /\ (scene # "stream" => fClient = Client(Upgrade, <<>>, FALSE))
        /\ MatchInit

Next == /\ UNCHANGED scene
        /\ \/ scene = "game" /\ ChessNext /\ UNCHANGED <<engineVars, fVars, matchVars>>
           \/ scene = "engine" /\ EngineNext /\ UNCHANGED <<chessVars, fVars, matchVars>>
           \/ scene = "stream" /\ FNext /\ UNCHANGED <<chessVars, engineVars, matchVars>>
           \/ scene = "queue" /\ MatchNext /\ UNCHANGED <<chessVars, engineVars, fVars>>

Spec == Init /\ [][Next]_<<scene, chessVars, engineVars, fVars, matchVars>>
=============================================================================

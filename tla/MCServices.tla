----------------------------- MODULE MCServices -----------------------------
(***************************************************************************)
(* The services between the socket and the tables, each on an instance of  *)
(* its own.  A behaviour belongs to one of them: scene says to which, and  *)
(* the state of the others rests.  Two scenes are of the lobby: "seats",   *)
(* where three connections of two players find games, and "offers", where  *)
(* two players have just finished one and a third window opens.            *)
(***************************************************************************)
EXTENDS Lobby, Transport, Broadcast, TournamentSeats, DatabasePool, Migrations, TournamentViews, RequestPipeline

CONSTANT Scenes

VARIABLE scene

(* Two players have just finished a game. *)
InitAfterGame ==
    /\ connections_ = [f \in Fds |-> IF f <= 2 THEN f ELSE 0]
    /\ identity = [f \in Fds |-> IF f <= 2 THEN f ELSE NoPlayer]
    /\ next_generation_ = 3
    /\ rooms = <<[NewRoom(Seat(1, 1, 1), "create") EXCEPT !.state = "FINISHED",
                                                         !.seat[Black] = Seat(2, 2, 2)]>>
    /\ rooms_ = {1}
    /\ queue = {} /\ mutex_ = 0
    /\ call = [f \in Fds |-> Idle]
    /\ offers = 0 /\ doubled = {}

(* What the clients of the two lobby scenes ask for, and the bounds of the *)
(* first: two rooms, two connections at a time and, since none of its      *)
(* requests looks at the account, accounts that take turns.                *)
Asked == [seats |-> {"create", "ai", "join", "queue", "spectate"}, offers |-> {"resume", "offer", "accept"}]
WithinScene ==
    /\ \A f \in Fds : call'[f].op \in Requests => call'[f].op \in Asked[scene]
    /\ scene = "seats" =>
          /\ Len(rooms') <= 2
          /\ \A f \in Fds : connections_'[f] # 0 => /\ f <= 2
                                                    /\ identity'[f] = 2 - (connections_'[f] % 2)

(* White and black are alike: the first connection is the white player's. *)
WhiteComesFirst == sockets_made = 0 => \A f \in Lines : line'[f].player = "white"

Init == /\ scene \in Scenes
        /\ IF scene = "offers" THEN InitAfterGame ELSE LobbyInit
        /\ IF scene = "transport" THEN TInit ELSE TInitOff
        /\ CastInit /\ (scene # "broadcast" => ~engineGame)
        /\ SeatsInit /\ PoolInit /\ MigrationInit /\ ViewsInit
        /\ PipelineInit /\ (scene # "requests" => setup = NoSetup)

Next ==
    /\ UNCHANGED scene
    /\ \/ /\ scene \in {"seats", "offers"} /\ LobbyNext /\ WithinScene
          /\ UNCHANGED <<tVars, castVars, seatVars, poolVars, migrationVars, viewVars, pipelineVars>>
       \/ /\ scene = "transport" /\ TNext
          /\ UNCHANGED <<lobbyVars, castVars, seatVars, poolVars, migrationVars, viewVars, pipelineVars>>
       \/ /\ scene = "broadcast" /\ CastNext
          /\ UNCHANGED <<lobbyVars, tVars, seatVars, poolVars, migrationVars, viewVars, pipelineVars>>
       \/ /\ scene = "tournament" /\ SeatsNext /\ WhiteComesFirst
          /\ UNCHANGED <<lobbyVars, tVars, castVars, poolVars, migrationVars, viewVars, pipelineVars>>
       \/ /\ scene = "pool" /\ PoolNext
          /\ UNCHANGED <<lobbyVars, tVars, castVars, seatVars, migrationVars, viewVars, pipelineVars>>
       \/ /\ scene = "migrations" /\ MigrationNext
          /\ UNCHANGED <<lobbyVars, tVars, castVars, seatVars, poolVars, viewVars, pipelineVars>>
       \/ /\ scene = "views" /\ ViewsNext
          /\ UNCHANGED <<lobbyVars, tVars, castVars, seatVars, poolVars, migrationVars, pipelineVars>>
       \/ /\ scene = "requests" /\ PipelineNext
          /\ UNCHANGED <<lobbyVars, tVars, castVars, seatVars, poolVars, migrationVars, viewVars>>

Spec == Init /\ [][Next]_<<scene, lobbyVars, tVars, castVars, seatVars, poolVars, migrationVars,
                           viewVars, pipelineVars>>
=============================================================================

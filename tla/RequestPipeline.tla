-------------------------- MODULE RequestPipeline --------------------------
(***************************************************************************)
(* From the environment the server is started with to the answer of one    *)
(* request: src/main.cpp, src/net/websocket.cpp (MessageRouter),           *)
(* src/protocol/request_pipeline.cpp, the route tables of the handlers and *)
(* src/application/auth/identity_extractor.cpp.                            *)
(*                                                                         *)
(* A frame is the type the router's scan finds, the shape of its JSON, how *)
(* it is wrapped, the token it carries and whether it asks for             *)
(* correlation.  Leases of the read pool are module DatabasePool's; the    *)
(* keys of envelopes are module SealedKeys'.                               *)
(***************************************************************************)
EXTENDS Integers, FiniteSets

VARIABLES setup,          \* environment variables and what they lead to
          server,         \* "starting", "refused" or "serving"
          features,       \* what the serving process has, and was told to have
          request,        \* the request in the pipeline
          standing,       \* the account: "current", "revoked" or "gone"
          databaseUp      \* queries succeed

pipelineVars == <<setup, server, features, request, standing, databaseUp>>

-----------------------------------------------------------------------------
(* The environment of main: a variable is unset, usable or not. *)
Setups == [policy : {"unset", "0", "1", "garbage"}, numbers : {"good", "bad"},
           database : BOOLEAN, signer : BOOLEAN, google : BOOLEAN,
           key : {"unset", "bad", "good"}, readPool : {"bad", "0", "some"}]

NoFeatures == [auth |-> FALSE, seal |-> FALSE, google |-> FALSE, pool |-> FALSE, toldToSeal |-> FALSE]
NoSetup == [policy |-> "unset", numbers |-> "good", database |-> FALSE, signer |-> FALSE,
            google |-> FALSE, key |-> "unset", readPool |-> "0"]
NoRequest == [stage |-> "none"]

PipelineInit == /\ setup \in Setups
                /\ server = "starting"
                /\ features = NoFeatures
                /\ request = NoRequest
                /\ standing = "current"
                /\ databaseUp = TRUE

Requires(s) == s.policy = "1"
AuthEnabled(s) == s.database /\ s.signer

(* A configured key that cannot be used stops the server, even when        *)
(* sealing is not required.                                                *)
KeyRefused(s) == s.key # "good" /\ (Requires(s) \/ s.key # "unset")

(* What main refuses whatever else happens, in its order: policy, port and *)
(* worker count, sealing without accounts, the key, the pool's size.       *)
StartRefused(s) == \/ s.policy = "garbage"
                   \/ s.numbers = "bad"
                   \/ Requires(s) /\ ~AuthEnabled(s)
                   \/ AuthEnabled(s) /\ (KeyRefused(s) \/ s.readPool = "bad")

Features(s) == [auth       |-> AuthEnabled(s),
                seal       |-> AuthEnabled(s) /\ s.key = "good",
                google     |-> AuthEnabled(s) /\ s.google,
                pool       |-> AuthEnabled(s) /\ s.readPool = "some",
                toldToSeal |-> Requires(s) \/ s.key # "unset"]

(* The other database sessions and the listening socket can fail too.  The *)
(* environment is not looked at again.                                     *)
StartUp ==
    /\ server = "starting"
    /\ \/ server' = "refused" /\ UNCHANGED features
       \/ /\ ~StartRefused(setup)
          /\ server' = "serving"
          /\ features' = Features(setup)
    /\ setup' = NoSetup
    /\ UNCHANGED <<request, standing, databaseUp>>

-----------------------------------------------------------------------------
(* The route tables.  SealedTypes are the types main passes to             *)
(* require_sealed.                                                         *)
GameplayRequired == {"create_game", "join_game", "quick_play", "play_ai", "offer_draw", "draw_response",
                     "offer_rematch", "rematch_response", "get_pending_rematch", "game_state",
                     "get_active_game"}
GameplayPublic == {"make_move", "resign", "cancel_queue", "list_games"}
TournamentRequired == {"create_tournament", "join_tournament", "leave_tournament", "start_tournament",
                       "report_tournament_result", "set_tournament_registration",
                       "check_in_tournament_round"}
TournamentPublic == {"tournament_state", "list_tournaments"}
QueryRequired == {"spectate"}
QueryPublic == {"get_profile", "get_leaderboard", "get_history", "get_game", "list_live_games",
                "stop_spectating"}
AnalysisPublic == {"analyze_position", "analyze_game"}

SealedTypes == {"login", "register", "google_auth", "request_password_reset", "reset_password",
                "verify_email", "set_recovery_email", "link_google"}
GoogleRoutes == {"google_auth", "link_google", "unlink_google"}
AuthRoutes == SealedTypes \cup GoogleRoutes \cup {"seal_request", "refresh", "logout", "logout_all"}

RequiredRoutes == GameplayRequired \cup TournamentRequired \cup QueryRequired
TypedRoutes == RequiredRoutes \cup GameplayPublic \cup TournamentPublic \cup QueryPublic \cup AnalysisPublic

(* AuthHandler::register_handlers runs only with accounts. *)
RawRoutes(f) == {t \in AuthRoutes : /\ f.auth
                                    /\ t = "seal_request" => f.seal
                                    /\ t \in GoogleRoutes => f.google}

(* How a handler meets a field of another JSON type, or a message that is  *)
(* no object: msg.value throws, a check answers with an error, and the     *)
(* rest read no field.                                                     *)
GameplayThrows == {"create_game", "quick_play", "play_ai", "offer_rematch"}
TournamentThrows == {"create_tournament", "report_tournament_result", "set_tournament_registration",
                     "check_in_tournament_round", "list_tournaments"}
QueryThrows == {"get_profile", "get_leaderboard", "get_history"}
AnalysisThrows == {"analyze_position", "analyze_game"}
Throws == GameplayThrows \cup TournamentThrows \cup QueryThrows \cup AnalysisThrows

Outcomes(t, shape) ==
    IF shape = "object" THEN {"served", "error"}
    ELSE IF t \in Throws THEN {"threw"}
    ELSE IF t = "rematch_response" /\ shape = "odd" THEN {"error", "threw"}
    ELSE {"served", "error"}

-----------------------------------------------------------------------------
Shapes == {"object", "odd", "array", "broken"}
Wraps == {"plain", "sealed", "relabelled", "stale"}
Frames == [type : TypedRoutes \cup AuthRoutes \cup {"", "unheard_of"}, shape : Shapes,
           wrap : {"plain"}, token : {"absent", "forged", "held"}, id : BOOLEAN]
          \cup [type : SealedTypes, shape : {"object"}, wrap : Wraps, token : {"absent"}, id : {FALSE}]

Receive ==
    /\ server = "serving" /\ request.stage = "none"
    /\ \E f \in Frames : request' = [stage |-> "route", frame |-> f, since |-> standing]
    /\ UNCHANGED <<setup, server, features, standing, databaseUp>>

ToStage(stage) == /\ request' = [request EXCEPT !.stage = stage]
                  /\ UNCHANGED <<setup, server, features, standing, databaseUp>>

(* The answer carries the request's id when it is sent through the         *)
(* correlating sink, which exists once the JSON was parsed.                *)
Replies(kind, correlated) ==
    /\ request' = [stage |-> "answered", frame |-> request.frame, since |-> request.since,
                   kind |-> kind, id |-> correlated /\ request.frame.id]
    /\ UNCHANGED <<setup, server, features, standing, databaseUp>>

(* MessageRouter::route and dispatch: an unknown type, or none, reaches    *)
(* the default handler.                                                    *)
Route ==
    /\ request.stage = "route"
    /\ LET t == request.frame.type
       IN  \/ t \in TypedRoutes \cup RawRoutes(features) /\ ToStage("seal")
           \/ t \notin TypedRoutes \cup RawRoutes(features) /\ Replies("unknown", FALSE)

(* SealedRegistry::inspect: a type that must be sealed is dropped without  *)
(* a word unless an unused key opens its envelope and the envelope was     *)
(* made for this type.                                                     *)
Opened(f) == f.type \notin SealedTypes \/ f.wrap = "sealed"

SealStage ==
    /\ request.stage = "seal"
    /\ LET f == request.frame
       IN  \/ features.seal /\ ~Opened(f) /\ Replies("dropped", FALSE)
           \/ /\ ~features.seal \/ Opened(f)
              /\ ToStage(IF f.type \in AuthRoutes THEN "raw" ELSE "parse")

(* run_raw: the account handlers parse, limit and answer by themselves. *)
RunRaw == request.stage = "raw" /\ Replies("raw", FALSE)

ParseJson ==
    /\ request.stage = "parse"
    /\ \/ request.frame.shape = "broken" /\ Replies("error", FALSE)
       \/ /\ request.frame.shape # "broken"
          /\ ToStage(IF request.frame.type \in RequiredRoutes THEN "token" ELSE "dispatch")

(* A token can be read from an object only. *)
Carries(f) == IF f.shape = "array" THEN "absent" ELSE f.token

(* IdentityExtractor::extract, up to the database: accounts configured, a  *)
(* token present, its signature and expiry good.                           *)
AuthToken ==
    /\ request.stage = "token"
    /\ IF features.auth /\ Carries(request.frame) = "held" THEN ToStage("profile")
       ELSE Replies("auth_required", TRUE)

(* One row tells whether the account is there and which epoch its tokens   *)
(* must have.  No lease (only with a pool) and a failed query are not the  *)
(* player's fault.                                                         *)
Verdicts == IF databaseUp
            THEN {IF standing = "current" THEN "identity" ELSE "refused"}
                 \cup (IF features.pool THEN {"unavailable"} ELSE {})
            ELSE {"unavailable"}

AuthProfileMutant ==
    /\ request.stage = "profile"
    /\ \E verdict \in Verdicts :
          \/ verdict = "identity" /\ ToStage("dispatch")
          \/ verdict \in {"unavailable", "refused"} /\ Replies("auth_required", TRUE)
AuthProfile ==
    /\ request.stage = "profile"
    /\ \E verdict \in Verdicts :
          \/ verdict = "identity" /\ ToStage("dispatch")
          \/ verdict = "unavailable" /\ Replies("error", TRUE)
          \/ verdict = "refused" /\ Replies("auth_required", TRUE)

(* The route's handler; an exception goes to the worker's catch-all and    *)
(* nothing is sent.                                                        *)
Dispatch ==
    /\ request.stage = "dispatch"
    /\ \E kind \in Outcomes(request.frame.type, request.frame.shape) : Replies(kind, kind # "threw")

FinishRequest == /\ request.stage = "answered"
                 /\ request' = NoRequest
                 /\ UNCHANGED <<setup, server, features, standing, databaseUp>>

-----------------------------------------------------------------------------
(* A logout everywhere or a deleted account, and an outage, at any moment. *)
Revoke == /\ server = "serving" /\ standing = "current"
          /\ standing' \in {"revoked", "gone"}
          /\ UNCHANGED <<setup, server, features, request, databaseUp>>

DatabaseTurns == /\ server = "serving"
                 /\ databaseUp' = ~databaseUp
                 /\ UNCHANGED <<setup, server, features, request, standing>>

PipelineNext == \/ StartUp
                \/ Receive \/ Route \/ SealStage \/ RunRaw \/ ParseJson
                \/ AuthToken \/ AuthProfile \/ Dispatch \/ FinishRequest
                \/ Revoke \/ DatabaseTurns

PipelineSpec == PipelineInit /\ [][PipelineNext]_pipelineVars

-----------------------------------------------------------------------------
Answered == request.stage = "answered"

(* A frame that carries credentials is given to its handler only if it     *)
(* came in an envelope made for it, on every server that was told to seal  *)
(* or was given a key, however the start-up went.                          *)
NoDowngrade ==
    request.stage = "raw" /\ request.frame.type \in SealedTypes /\ features.toldToSeal
       => request.frame.wrap = "sealed"

(* A client is told to sign in again only when its token is missing, bad   *)
(* or revoked: an exhausted pool or a database that is away is an error to *)
(* retry.                                                                  *)
OutageIsNotSignOut ==
    Answered /\ features.auth /\ request.kind = "auth_required"
       => Carries(request.frame) # "held" \/ standing # "current"

(* A command that acts for a player runs only with a token that was good,  *)
(* and whose account was not revoked before the frame came in.             *)
RevokedIsOut ==
    request.stage = "dispatch" /\ request.frame.type \in RequiredRoutes
       => Carries(request.frame) = "held" /\ request.since = "current"

(* A client that waits for its request id gets it with every answer of a   *)
(* typed route but the one that says the frame was no JSON: success, error *)
(* and sign-in demands alike.                                              *)
AnswersCarryTheirId ==
    Answered /\ request.kind \in {"served", "auth_required", "error"} /\ request.frame.shape # "broken"
       => request.id = request.frame.id

(* A request is treated by the policy the server was started with: sealed  *)
(* commands come sealed, revoked accounts are out, an outage is no sign-   *)
(* out, and an answer names its request.                                   *)
RequestsAreScreened == NoDowngrade /\ OutageIsNotSignOut /\ RevokedIsOut /\ AnswersCarryTheirId

=============================================================================

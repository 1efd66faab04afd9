-------------------------- MODULE ConnectionProofs --------------------------
(***************************************************************************)
(* From the socket to the handler and back.  A request, for every          *)
(* configuration the server can be started with and every frame: it is     *)
(* screened before a handler sees it.  Connections, for any number of      *)
(* descriptors, threads and peers that stall or vanish: the game layer     *)
(* hears once of each that is gone, and a client's stream of frames has no *)
(* hole.  The lobby, for any players, descriptors and rooms: a descriptor  *)
(* that is reused inherits nothing, and an offer makes one room.  What a   *)
(* game's handlers send, for games of any length: everybody is told.       *)
(***************************************************************************)
EXTENDS RequestPipeline, Transport, Lobby, Broadcast, FiniteSetTheorems,
        SequenceTheorems, TLAPS

InFlight == [stage : {"route", "seal", "raw", "parse", "token", "profile", "dispatch"},
             frame : Frames, since : {"current", "revoked", "gone"}]

(* What a stage has made sure of.  A revoked account stays revoked, so one *)
(* that is current was current when the frame came in.                     *)
Screened(r) ==
    /\ standing = "current" => r.since = "current"
    /\ r.stage = "seal" /\ r.frame.type \in SealedTypes => features.auth
    /\ r.stage = "raw" /\ r.frame.type \in SealedTypes =>
          features.auth /\ (features.seal => r.frame.wrap = "sealed")
    /\ r.stage = "profile" => Carries(r.frame) = "held"
    /\ r.stage = "dispatch" /\ r.frame.type \in RequiredRoutes =>
          Carries(r.frame) = "held" /\ r.since = "current"
AnsweredRight(r) ==
    /\ r.stage = "answered"
    /\ features.auth /\ r.kind = "auth_required" => Carries(r.frame) # "held" \/ standing # "current"
    /\ r.kind \in {"served", "auth_required", "error"} /\ r.frame.shape # "broken" => r.id = r.frame.id

(* A server that has accounts and was told to seal can do so: main refuses *)
(* a key it cannot use.                                                    *)
ToldAndAble == features.auth /\ features.toldToSeal => features.seal
PipelineInv ==
    /\ standing \in {"current", "revoked", "gone"}
    /\ ToldAndAble
    /\ server = "starting" => setup \in Setups /\ request = NoRequest
    /\ \/ request = NoRequest
       \/ request \in InFlight /\ Screened(request)
       \/ AnsweredRight(request)

-----------------------------------------------------------------------------
(* main starts no server that was told to seal and cannot. *)
LEMMA StartedAble ==
    ASSUME NEW s \in Setups, ~StartRefused(s), Features(s).auth, Features(s).toldToSeal
    PROVE  Features(s).seal
BY DEF Setups, StartRefused, Features, KeyRefused, Requires, AuthEnabled

(* A frame's id is asked for or not. *)
LEMMA FrameIds == \A f \in Frames : f.id \in BOOLEAN
BY DEF Frames

(* Credentials travel on the routes of accounts alone, which a server      *)
(* without accounts does not have.                                         *)
LEMMA SealedAreRaw ==
    ASSUME NEW t \in SealedTypes, NEW f, t \in TypedRoutes \cup RawRoutes(f)
    PROVE  f.auth /\ t \in AuthRoutes
<1>1. t \notin TypedRoutes
  BY DEF SealedTypes, TypedRoutes, RequiredRoutes, GameplayRequired, TournamentRequired,
     QueryRequired, GameplayPublic, TournamentPublic, QueryPublic, AnalysisPublic
<1>. QED
  BY <1>1 DEF RawRoutes

(* The next stage of a request. *)
LEMMA StageMoves ==
    ASSUME PipelineInv, request \in InFlight, Screened(request),
           NEW stage \in {"seal", "raw", "parse", "token", "profile", "dispatch"},
           ToStage(stage),
           stage = "seal" /\ request.frame.type \in SealedTypes => features.auth,
           stage = "raw" /\ request.frame.type \in SealedTypes =>
              features.auth /\ (features.seal => request.frame.wrap = "sealed"),
           stage = "profile" => Carries(request.frame) = "held",
           stage = "dispatch" /\ request.frame.type \in RequiredRoutes =>
              Carries(request.frame) = "held" /\ standing = "current",
           server # "starting"
    PROVE  PipelineInv'
<1>1. /\ request' = [request EXCEPT !.stage = stage]
      /\ UNCHANGED <<setup, server, features, standing>>
  BY DEF ToStage
<1>2. request' \in InFlight
  BY <1>1 DEF InFlight
<1>3. request'.stage = stage /\ request'.frame = request.frame /\ request'.since = request.since
  BY <1>1 DEF InFlight
<1>4. Screened(request)'
  BY <1>1, <1>3 DEF Screened, Carries
<1>. QED
  BY <1>1, <1>2, <1>4 DEF PipelineInv, ToldAndAble

(* The answer to a request. *)
LEMMA AnswerMoves ==
    ASSUME PipelineInv, request \in InFlight, NEW kind, NEW correlated \in BOOLEAN,
           Replies(kind, correlated), server # "starting",
           kind = "auth_required" =>
              correlated = TRUE /\ (features.auth => Carries(request.frame) # "held" \/ standing # "current"),
           kind \in {"served", "error"} => correlated = TRUE \/ request.frame.shape = "broken"
    PROVE  PipelineInv'
<1>1. /\ request' = [stage |-> "answered", frame |-> request.frame, since |-> request.since,
                     kind |-> kind, id |-> correlated /\ request.frame.id]
      /\ UNCHANGED <<setup, server, features, standing>>
  BY DEF Replies
<1>2. request.frame.id \in BOOLEAN
  BY FrameIds DEF InFlight
<1>3. AnsweredRight(request)'
  BY <1>1, <1>2 DEF AnsweredRight, Carries
<1>. QED
  BY <1>1, <1>3 DEF PipelineInv, ToldAndAble

(* Every step screens. *)
LEMMA PipelineSteps == PipelineInv /\ [PipelineNext]_pipelineVars => PipelineInv'
<1>. SUFFICES ASSUME PipelineInv, [PipelineNext]_pipelineVars PROVE PipelineInv'
  OBVIOUS
<1>0. ASSUME request.stage \notin {"none", "answered"}
      PROVE  request \in InFlight /\ Screened(request) /\ server # "starting"
  BY <1>0 DEF PipelineInv, NoRequest, AnsweredRight
<1>1. CASE StartUp
  <2>1. server = "starting" /\ UNCHANGED <<request, standing>> /\ request = NoRequest
    BY <1>1 DEF StartUp, PipelineInv
  <2>2. ToldAndAble'
    BY <1>1, StartedAble DEF StartUp, PipelineInv, ToldAndAble
  <2>3. server' # "starting"
    BY <1>1 DEF StartUp
  <2>. QED
    BY <2>1, <2>2, <2>3 DEF PipelineInv
<1>2. CASE Receive
  <2>1. PICK f \in Frames : request' = [stage |-> "route", frame |-> f, since |-> standing]
    BY <1>2 DEF Receive
  <2>2. UNCHANGED <<setup, server, features, standing>> /\ server = "serving"
    BY <1>2 DEF Receive
  <2>3. request' \in InFlight
    BY <2>1 DEF InFlight, PipelineInv
  <2>4. Screened(request)'
    BY <2>1, <2>2 DEF Screened
  <2>. QED
    BY <2>2, <2>3, <2>4 DEF PipelineInv, ToldAndAble
<1>3. ASSUME request \in InFlight, Screened(request), server # "starting",
             Route \/ SealStage \/ RunRaw \/ ParseJson \/ AuthToken \/ AuthProfile \/ Dispatch
      PROVE  PipelineInv'
  <2>. USE <1>3
  <2>1. CASE Route
    <3>1. CASE request.frame.type \in TypedRoutes \cup RawRoutes(features) /\ ToStage("seal")
      <4>1. request.frame.type \in SealedTypes => features.auth
        BY <3>1, SealedAreRaw
      <4>. QED
        BY <3>1, <4>1, StageMoves
    <3>2. CASE Replies("unknown", FALSE)
      BY <3>2, AnswerMoves
    <3>. QED
      BY <2>1, <3>1, <3>2 DEF Route
  <2>2. CASE SealStage
    <3>1. CASE Replies("dropped", FALSE)
      BY <3>1, AnswerMoves
    <3>2. CASE /\ ~features.seal \/ Opened(request.frame)
               /\ ToStage(IF request.frame.type \in AuthRoutes THEN "raw" ELSE "parse")
      <4>1. request.frame.type \in SealedTypes =>
               features.auth /\ (features.seal => request.frame.wrap = "sealed")
        BY <2>2, <3>2 DEF SealStage, Screened, Opened
      <4>2. CASE request.frame.type \in AuthRoutes
        BY <3>2, <4>1, <4>2, StageMoves
      <4>3. CASE request.frame.type \notin AuthRoutes
        BY <3>2, <4>3, StageMoves
      <4>. QED
        BY <4>2, <4>3
    <3>. QED
      BY <2>2, <3>1, <3>2 DEF SealStage
  <2>3. CASE RunRaw
    BY <2>3, AnswerMoves DEF RunRaw
  <2>4. CASE ParseJson
    <3>1. CASE request.frame.shape = "broken" /\ Replies("error", FALSE)
      BY <3>1, AnswerMoves
    <3>2. CASE request.frame.type \in RequiredRoutes /\ ToStage("token")
      BY <3>2, StageMoves
    <3>3. CASE request.frame.type \notin RequiredRoutes /\ ToStage("dispatch")
      BY <3>3, StageMoves
    <3>. QED
      BY <2>4, <3>1, <3>2, <3>3 DEF ParseJson
  <2>5. CASE AuthToken
    <3>1. CASE features.auth /\ Carries(request.frame) = "held"
      <4>1. ToStage("profile")
        BY <2>5, <3>1 DEF AuthToken
      <4>. QED
        BY <3>1, <4>1, StageMoves
    <3>2. CASE ~(features.auth /\ Carries(request.frame) = "held")
      <4>1. Replies("auth_required", TRUE)
        BY <2>5, <3>2 DEF AuthToken
      <4>. QED
        BY <3>2, <4>1, AnswerMoves
    <3>. QED
      BY <3>1, <3>2
  <2>6. CASE AuthProfile
    <3>1. PICK verdict \in Verdicts :
             \/ verdict = "identity" /\ ToStage("dispatch")
             \/ verdict = "unavailable" /\ Replies("error", TRUE)
             \/ verdict = "refused" /\ Replies("auth_required", TRUE)
      BY <2>6 DEF AuthProfile
    <3>2. /\ verdict = "identity" => standing = "current"
          /\ verdict = "refused" => standing # "current"
      BY <3>1 DEF Verdicts
    <3>3. Carries(request.frame) = "held"
      BY <2>6 DEF AuthProfile, Screened
    <3>4. CASE verdict = "identity" /\ ToStage("dispatch")
      BY <3>2, <3>3, <3>4, StageMoves
    <3>5. CASE verdict = "unavailable" /\ Replies("error", TRUE)
      BY <3>5, AnswerMoves
    <3>6. CASE verdict = "refused" /\ Replies("auth_required", TRUE)
      BY <3>2, <3>6, AnswerMoves
    <3>. QED
      BY <3>1, <3>4, <3>5, <3>6
  <2>7. CASE Dispatch
    <3>1. PICK kind \in Outcomes(request.frame.type, request.frame.shape) : Replies(kind, kind # "threw")
      BY <2>7 DEF Dispatch
    <3>2. kind \in {"served", "error", "threw"}
      BY <3>1 DEF Outcomes
    <3>3. CASE kind = "threw"
      <4>1. Replies(kind, FALSE)
        BY <3>1, <3>3 DEF Replies
      <4>. QED
        BY <3>3, <4>1, AnswerMoves
    <3>4. CASE kind \in {"served", "error"}
      <4>1. Replies(kind, TRUE)
        BY <3>1, <3>4 DEF Replies
      <4>. QED
        BY <3>4, <4>1, AnswerMoves
    <3>. QED
      BY <3>2, <3>3, <3>4
  <2>. QED
    BY <1>3, <2>1, <2>2, <2>3, <2>4, <2>5, <2>6, <2>7
<1>4. CASE FinishRequest
  BY <1>4 DEF FinishRequest, PipelineInv, ToldAndAble
<1>5. CASE Revoke
  <2>1. /\ standing' \in {"revoked", "gone"}
        /\ UNCHANGED <<setup, server, features, request>>
    BY <1>5 DEF Revoke
  <2>. QED
    BY <2>1 DEF PipelineInv, ToldAndAble, Screened, AnsweredRight, Carries
<1>6. CASE DatabaseTurns \/ UNCHANGED pipelineVars
  <2>1. UNCHANGED <<setup, server, features, request, standing>>
    BY <1>6 DEF DatabaseTurns, pipelineVars
  <2>. QED
    BY <2>1 DEF PipelineInv, ToldAndAble, Screened, AnsweredRight, Carries
<1>7. ASSUME Route \/ SealStage \/ RunRaw \/ ParseJson \/ AuthToken \/ AuthProfile \/ Dispatch
      PROVE  request.stage \notin {"none", "answered"}
  BY <1>7 DEF Route, SealStage, RunRaw, ParseJson, AuthToken, AuthProfile, Dispatch
<1>. QED
  BY <1>0, <1>1, <1>2, <1>3, <1>4, <1>5, <1>6, <1>7 DEF PipelineNext

(* request_pipeline.cpp and main.cpp: whatever the server was started with *)
(* and whatever frames come, credentials arrive sealed where sealing was   *)
(* asked for, revoked accounts act no more, an outage signs nobody out and *)
(* an answer carries its request's id.                                     *)
THEOREM RequestsAlwaysScreened == PipelineSpec => []RequestsAreScreened
<1>1. PipelineInit => PipelineInv
  BY DEF PipelineInit, PipelineInv, ToldAndAble, NoFeatures
<1>2. PipelineInv => RequestsAreScreened
  <2>. SUFFICES ASSUME PipelineInv PROVE RequestsAreScreened
    OBVIOUS
  <2>1. CASE request = NoRequest
    BY <2>1 DEF NoRequest, RequestsAreScreened, NoDowngrade, OutageIsNotSignOut, RevokedIsOut,
       AnswersCarryTheirId, Answered
  <2>2. CASE request \in InFlight /\ Screened(request)
    BY <2>2 DEF InFlight, Screened, PipelineInv, ToldAndAble, RequestsAreScreened, NoDowngrade,
       OutageIsNotSignOut, RevokedIsOut, AnswersCarryTheirId, Answered
  <2>3. CASE AnsweredRight(request)
    BY <2>3 DEF AnsweredRight, RequestsAreScreened, NoDowngrade, OutageIsNotSignOut, RevokedIsOut,
       AnswersCarryTheirId, Answered
  <2>. QED
    BY <2>1, <2>2, <2>3 DEF PipelineInv
<1>. QED
  BY <1>1, <1>2, PipelineSteps, PTL DEF PipelineSpec

-----------------------------------------------------------------------------
(* Connections *)

(* No connection has been sent a frame after a dropped one. *)
Connection == [fd : Descriptors, upgraded : BOOLEAN, awaiting : BOOLEAN, beat : Nat, ping : Nat,
               retired : BOOLEAN, queued : Nat, overflowed : BOOLEAN, gap : {FALSE},
               unread : BOOLEAN, heard : BOOLEAN, peer : {"talks", "silent", "gone"},
               blocked : BOOLEAN]
WorkerSteps == {"idle", "data", "hup", "busy", "close", "callback"}
Locking == {"busy", "close", "callback"}

TransportTypes ==
    /\ sockets \in Seq(Connection)
    /\ registry \in [Descriptors -> Generations \cup {0}]
    /\ stale \subseteq Generations
    /\ backlog \in Seq([g : Generations, kind : {"data", "hup"}])
    /\ worker \in [Crew -> [step : WorkerSteps, g : Generations \cup {0}]]
    /\ \A w \in Crew : worker[w].step # "idle" => worker[w].g \in Generations
    /\ sender \in Generations \cup {0}
    /\ seat \in [Descriptors -> Generations \cup {0}]
    /\ called \in Seq(Nat) /\ DOMAIN called = Generations

(* Events name descriptors the loop has watched. *)
EventTypes ==
    /\ ready \subseteq [g : Generations, kind : {"io", "hup"}] /\ IsFiniteSet(ready)
    /\ batch \in Seq([fd : Descriptors \cup {Server}, kind : {"io", "hup"}])

(* The registry has the connections that are not retired. *)
RegistryKnows ==
    /\ \A d \in Descriptors : registry[d] # 0 => sockets[registry[d]].fd = d
    /\ \A g \in Generations : sockets[g].retired = FALSE <=> registry[sockets[g].fd] = g

(* A descriptor belongs to one connection that anybody still refers to, a  *)
(* connection is processed by one worker, and its callback runs between    *)
(* its retirement and its end.                                             *)
OneHolder == \A g, h \in Generations : Held(g) /\ Held(h) /\ sockets[g].fd = sockets[h].fd => g = h
OneProcessor == \A w, v \in Crew :
    worker[w].step \in Locking /\ worker[v].step \in Locking /\ worker[w].g = worker[v].g => w = v
CallsBack(g) == \E w \in Crew : worker[w].step = "callback" /\ worker[w].g = g
CallbacksCounted == \A g \in Generations :
    /\ called[g] = 0 \/ called[g] = 1
    /\ called[g] = 1 <=> sockets[g].retired = TRUE /\ ~CallsBack(g)
    /\ CallsBack(g) => sockets[g].retired = TRUE

SeatsKnown == \A d \in Descriptors : seat[d] # 0 => sockets[seat[d]].fd = d /\ called[seat[d]] = 0

TransportInv == /\ TransportTypes /\ RegistryKnows /\ OneHolder /\ OneProcessor
                /\ CallbacksCounted /\ SeatsKnown /\ CallbackHitsItsOwn

-----------------------------------------------------------------------------
(* What a write does to a connection: it keeps its descriptor, whether it  *)
(* is retired and whether the game layer has heard of it.                  *)
Kin(c, b) == b \in Connection /\ b.fd = c.fd /\ b.retired = c.retired /\ b.heard = c.heard
             /\ b.upgraded = c.upgraded

(* The operators on a connection keep a stream without a hole. *)
LEMMA WritesAreKin ==
    ASSUME NEW c \in Connection
    PROVE  /\ Kin(c, append_to_write_buffer(c))
           /\ Kin(c, write_to_socket(c))
           /\ Kin(c, mark_ping_sent(c))
<1>1. Kin(c, append_to_write_buffer(c))
  <2>1. Kin(c, c) /\ Kin(c, [c EXCEPT !.overflowed = TRUE])
    BY DEF Kin, Connection
  <2>2. ASSUME c.overflowed = FALSE PROVE Kin(c, Appended(c))
    <3>0. c.queued + 1 \in Nat
      BY DEF Connection
    <3>1. ASSUME NEW n \in Nat PROVE [c EXCEPT !.queued = n] \in Connection
      BY DEF Connection
    <3>2. Appended(c) = [[c EXCEPT !.queued = @ + 1] EXCEPT !.gap = FALSE]
      BY <2>2 DEF Appended, Connection
    <3>3. [c EXCEPT !.queued = @ + 1] \in Connection
      BY <3>0, <3>1
    <3>. QED
      BY <3>2, <3>3 DEF Kin, Connection
  <2>. QED
    BY <2>1, <2>2 DEF append_to_write_buffer, Connection
<1>2. Kin(c, write_to_socket(c))
  BY DEF Kin, write_to_socket, Connection
<1>3. Kin(c, mark_ping_sent(c))
  BY DEF Kin, mark_ping_sent, Connection
<1>. QED
  BY <1>1, <1>2, <1>3

(* Flushing after appending, as every sender does. *)
LEMMA SentIsKin ==
    ASSUME NEW c \in Connection
    PROVE  Kin(c, write_to_socket(append_to_write_buffer(c))) /\ Kin(c, Swept(c))
<1>1. Kin(c, write_to_socket(append_to_write_buffer(c)))
  BY WritesAreKin DEF Kin
<1>2. mark_ping_sent(c) \in Connection
  BY WritesAreKin DEF Kin
<1>3. Kin(mark_ping_sent(c), write_to_socket(append_to_write_buffer(mark_ping_sent(c))))
  BY <1>2, WritesAreKin DEF Kin
<1>4. Kin(c, c)
  BY DEF Kin
<1>. QED
  BY <1>1, <1>2, <1>3, <1>4, WritesAreKin DEF Kin, Swept

(* Steps that change nothing but what is in the sockets. *)
Calm == /\ DOMAIN sockets' = DOMAIN sockets /\ sockets' \in Seq(Connection)
        /\ \A g \in Generations : Kin(sockets[g], sockets'[g])
Others == <<registry, stale, backlog, worker, sender, seat, called>>

(* A step that only reads and writes sockets keeps the invariant. *)
LEMMA CalmStep == ASSUME TransportInv, Calm, UNCHANGED Others PROVE TransportInv'
<1>. USE DEF Others, Calm, Kin, Generations
<1>1. TransportTypes'
  BY DEF TransportInv, TransportTypes
<1>2. RegistryKnows'
  BY DEF TransportInv, TransportTypes, RegistryKnows
<1>3. OneHolder'
  BY DEF TransportInv, OneHolder, Held
<1>4. OneProcessor'
  BY DEF TransportInv, OneProcessor
<1>5. CallbacksCounted'
  BY DEF TransportInv, CallbacksCounted, CallsBack
<1>6. SeatsKnown' /\ CallbackHitsItsOwn'
  BY DEF TransportInv, TransportTypes, SeatsKnown, CallbackHitsItsOwn
<1>. QED
  BY <1>1, <1>2, <1>3, <1>4, <1>5, <1>6 DEF TransportInv

(* One socket changes. *)
LEMMA OneSocketCalm ==
    ASSUME TransportTypes, NEW g \in Generations, NEW c, Kin(sockets[g], c),
           sockets' = [sockets EXCEPT ![g] = c]
    PROVE  Calm
<1>1. sockets[g] \in Connection /\ c \in Connection
  BY DEF TransportTypes, Generations, Kin
<1>2. sockets' \in Seq(Connection)
  BY <1>1 DEF TransportTypes, Generations
<1>3. DOMAIN sockets' = DOMAIN sockets
  OBVIOUS
<1>4. \A h \in Generations : sockets[h] \in Connection
  BY DEF TransportTypes, Generations
<1>. QED
  BY <1>2, <1>3, <1>4 DEF Calm, Kin, Generations

(* The peers only reach the sockets. *)
LEMMA PeersCalm ==
    ASSUME TransportInv, NEW g \in Generations,
           \/ PeerSends(g) \/ PeerFallsSilent(g) \/ PeerHangsUp(g)
           \/ PeerStopsReading(g) \/ PeerReads(g)
    PROVE  TransportInv'
<1>1. sockets[g] \in Connection /\ TransportTypes
  BY DEF TransportInv, TransportTypes, Generations
<1>2. UNCHANGED Others
  BY DEF Others, PeerSends, PeerFallsSilent, PeerHangsUp, PeerStopsReading, PeerReads
<1>3. \E c : Kin(sockets[g], c) /\ sockets' = [sockets EXCEPT ![g] = c]
  <2>1. CASE PeerSends(g)
    BY <1>1, <2>1 DEF PeerSends, Kin, Connection
  <2>2. CASE PeerFallsSilent(g)
    BY <1>1, <2>2 DEF PeerFallsSilent, Kin, Connection
  <2>3. CASE PeerHangsUp(g)
    BY <1>1, <2>3 DEF PeerHangsUp, Kin, Connection
  <2>4. CASE PeerStopsReading(g)
    BY <1>1, <2>4 DEF PeerStopsReading, Kin, Connection
  <2>5. CASE PeerReads(g)
    BY <1>1, <2>5 DEF PeerReads, Kin, Connection
  <2>. QED
    BY <2>1, <2>2, <2>3, <2>4, <2>5
<1>. QED
  BY <1>1, <1>2, <1>3, CalmStep, OneSocketCalm

(* Whoever is referred to after a step was referred to before. *)
LEMMA HoldersStay ==
    ASSUME OneHolder, DOMAIN sockets' = DOMAIN sockets,
           \A g \in Generations : sockets'[g].fd = sockets[g].fd,
           \A g \in Generations : Held(g)' => Held(g)
    PROVE  OneHolder'
BY DEF OneHolder, Generations

(* accept finds a descriptor nobody holds. *)
LEMMA AcceptStep == TransportInv /\ handle_new_connection => TransportInv'
<1>. SUFFICES ASSUME TransportInv, handle_new_connection PROVE TransportInv'
  OBVIOUS
<1>. PICK new : new = Len(sockets) + 1
  OBVIOUS
<1>0. UNCHANGED <<stale, backlog, worker, sender, seat>>
  BY DEF handle_new_connection
<1>1. CASE UNCHANGED <<sockets, registry, called>>
  <2>1. Calm /\ UNCHANGED Others
    BY <1>0, <1>1 DEF Calm, Kin, Others, TransportInv, TransportTypes, Generations
  <2>. QED
    BY <2>1, CalmStep
<1>2. ASSUME NEW d \in Descriptors,
             ~\E g \in Generations : Held(g) /\ sockets[g].fd = d,
             sockets' = Append(sockets, NewConnection(d)),
             registry' = [registry EXCEPT ![d] = new],
             called' = Append(called, 0)
      PROVE  TransportInv'
  <2>0. TransportTypes
    BY DEF TransportInv
  <2>1. NewConnection(d) \in Connection
    BY DEF NewConnection, Connection
  <2>2. /\ Generations = 1..Len(sockets) /\ Len(sockets) \in Nat
        /\ Generations' = Generations \cup {new} /\ new \notin Generations
        /\ Len(called) = Len(sockets)
    BY <1>2, <2>0, <2>1 DEF TransportTypes, Generations
  <2>3. /\ sockets' \in Seq(Connection) /\ called' \in Seq(Nat) /\ DOMAIN called' = Generations'
        /\ sockets'[new] = NewConnection(d) /\ called'[new] = 0
        /\ \A g \in Generations : sockets'[g] = sockets[g] /\ called'[g] = called[g]
    BY <1>2, <2>0, <2>1, <2>2 DEF TransportTypes, Generations
  <2>4. /\ registry \in [Descriptors -> Generations \cup {0}]
        /\ \A e \in Descriptors : e # d => registry'[e] = registry[e]
        /\ registry'[d] = new
    BY <1>2, <2>0 DEF TransportTypes
  <2>5. registry[d] = 0
    <3>. SUFFICES ASSUME registry[d] # 0 PROVE FALSE
      OBVIOUS
    <3>1. registry[d] \in Generations /\ sockets[registry[d]].fd = d
      BY <2>4 DEF TransportInv, RegistryKnows
    <3>2. Held(registry[d])
      BY DEF Held
    <3>. QED
      BY <1>2, <3>1, <3>2
  <2>6. TransportTypes'
    <3>1. registry' \in [Descriptors -> Generations' \cup {0}]
      BY <1>2, <2>2, <2>4
    <3>2. backlog' \in Seq([g : Generations', kind : {"data", "hup"}])
      <4>. DEFINE Before == [g : Generations, kind : {"data", "hup"}]
                  After == [g : Generations', kind : {"data", "hup"}]
      <4>1. Before \subseteq After /\ backlog \in Seq(Before)
        BY <2>0, <2>2 DEF TransportTypes
      <4>. HIDE DEF Before, After
      <4>2. backlog \in Seq(After)
        BY <4>1, SeqMonotonic
      <4>. QED
        BY <1>0, <4>2 DEF After
    <3>3. worker' \in [Crew -> [step : WorkerSteps, g : Generations' \cup {0}]]
      BY <1>0, <2>0, <2>2 DEF TransportTypes
    <3>4. /\ stale' \subseteq Generations' /\ sender' \in Generations' \cup {0}
          /\ seat' \in [Descriptors -> Generations' \cup {0}]
      BY <1>0, <2>0, <2>2 DEF TransportTypes
    <3>5. \A w \in Crew : worker'[w].step # "idle" => worker'[w].g \in Generations'
      BY <1>0, <2>0, <2>2 DEF TransportTypes
    <3>. QED
      BY <2>3, <3>1, <3>2, <3>3, <3>4, <3>5 DEF TransportTypes
  <2>7. \A g \in Generations : sockets[g].fd \in Descriptors
    <3>1. \A g \in Generations : sockets[g] \in Connection
      BY <2>0, <2>2 DEF TransportTypes
    <3>. QED
      BY <3>1 DEF Connection
  <2>8. RegistryKnows'
    <3>1. \A e \in Descriptors : registry'[e] # 0 => sockets'[registry'[e]].fd = e
      BY <2>3, <2>4 DEF TransportInv, RegistryKnows, NewConnection
    <3>2. \A g \in Generations : sockets'[g].retired = FALSE <=> registry'[sockets'[g].fd] = g
      BY <2>2, <2>3, <2>4, <2>5, <2>7 DEF TransportInv, RegistryKnows
    <3>3. sockets'[new].retired = FALSE /\ registry'[sockets'[new].fd] = new
      BY <2>3, <2>4 DEF NewConnection
    <3>. QED
      BY <2>2, <3>1, <3>2, <3>3 DEF RegistryKnows
  <2>9. OneHolder'
    <3>1. \A g \in Generations : Held(g)' => Held(g)
      BY <1>0, <2>2, <2>4 DEF Held
    <3>2. \A g \in Generations : Held(g)' => sockets'[g].fd # d
      BY <1>2, <2>3, <3>1
    <3>3. sockets'[new].fd = d
      BY <2>3 DEF NewConnection
    <3>. QED
      BY <2>2, <2>3, <3>1, <3>2, <3>3 DEF OneHolder, TransportInv
  <2>10. OneProcessor'
    BY <1>0 DEF TransportInv, OneProcessor
  <2>11. CallbacksCounted'
    <3>1. \A g \in Generations : CallsBack(g)' <=> CallsBack(g)
      BY <1>0 DEF CallsBack
    <3>2. ~CallsBack(new)'
      <4>1. \A w \in Crew : worker'[w].step = "callback" => worker'[w].g \in Generations
        BY <1>0, <2>0 DEF TransportTypes
      <4>. QED
        BY <2>2, <4>1 DEF CallsBack
    <3>3. called'[new] = 0 /\ sockets'[new].retired = FALSE
      BY <2>3 DEF NewConnection
    <3>. SUFFICES ASSUME NEW g \in Generations'
                  PROVE  /\ called'[g] = 0 \/ called'[g] = 1
                         /\ called'[g] = 1 <=> sockets'[g].retired = TRUE /\ ~CallsBack(g)'
                         /\ CallsBack(g)' => sockets'[g].retired = TRUE
      BY DEF CallbacksCounted, CallsBack
    <3>4. CASE g \in Generations
      BY <2>3, <3>1, <3>4 DEF CallbacksCounted, TransportInv
    <3>5. CASE g = new
      BY <3>2, <3>3, <3>5
    <3>. QED
      BY <2>2, <3>4, <3>5
  <2>12. SeatsKnown'
    BY <1>0, <2>0, <2>3 DEF SeatsKnown, TransportInv, TransportTypes
  <2>13. CallbackHitsItsOwn'
    <3>1. sockets'[registry'[d]].heard = FALSE
      BY <2>3, <2>4 DEF NewConnection
    <3>2. ASSUME NEW e \in Descriptors, e # d, registry'[e] # 0, sockets'[registry'[e]].heard
          PROVE  seat'[e] = registry'[e]
      <4>1. registry'[e] = registry[e] /\ registry[e] \in Generations
        BY <2>4, <3>2
      <4>. QED
        BY <1>0, <2>3, <3>2, <4>1 DEF CallbackHitsItsOwn, TransportInv
    <3>. QED
      BY <3>1, <3>2 DEF CallbackHitsItsOwn
  <2>. QED
    BY <2>6, <2>8, <2>9, <2>10, <2>11, <2>12, <2>13 DEF TransportInv
<1>. QED
  BY <1>1, <1>2 DEF handle_new_connection

(* Dispatching an event puts a connection of the registry into a task. *)
LEMMA DispatchStep == TransportInv /\ EventTypes /\ dispatch_event => TransportInv'
<1>. SUFFICES ASSUME TransportInv, EventTypes, dispatch_event PROVE TransportInv'
  OBVIOUS
<1>0. UNCHANGED <<sockets, registry, stale, worker, sender, seat, called>>
  BY DEF dispatch_event
<1>1. CASE UNCHANGED backlog
  <2>1. Calm /\ UNCHANGED Others
    BY <1>0, <1>1 DEF Calm, Kin, Others, TransportInv, TransportTypes, Generations
  <2>. QED
    BY <2>1, CalmStep
<1>2. ASSUME NEW d \in Descriptors, NEW kind \in {"data", "hup"}, registry[d] # 0,
             backlog' = Append(backlog, [g |-> registry[d], kind |-> kind])
      PROVE  TransportInv'
  <2>1. registry[d] \in Generations
    BY <1>2 DEF TransportInv, TransportTypes
  <2>2. TransportTypes'
    <3>1. backlog' \in Seq([g : Generations, kind : {"data", "hup"}])
      BY <1>2, <2>1 DEF TransportInv, TransportTypes
    <3>. QED
      BY <1>0, <3>1 DEF TransportInv, TransportTypes, Generations
  <2>3. \A g : Held(g)' => Held(g)
    BY <1>0, <1>2 DEF Held, TransportInv, TransportTypes
  <2>4. OneHolder'
    BY <1>0, <2>3, HoldersStay DEF TransportInv
  <2>. QED
    BY <1>0, <2>2, <2>4 DEF TransportInv, RegistryKnows, OneProcessor, CallbacksCounted, CallsBack,
       SeatsKnown, CallbackHitsItsOwn, Generations
<1>3. Head(batch).fd \in Descriptors
  <2>1. Head(batch) \in [fd : Descriptors \cup {Server}, kind : {"io", "hup"}]
    BY HeadTailProperties DEF dispatch_event, EventTypes
  <2>. QED
    BY <2>1 DEF dispatch_event
<1>4. PICK kind \in {"data", "hup"} :
         \/ UNCHANGED backlog
         \/ /\ registry[Head(batch).fd] # 0
            /\ backlog' = Append(backlog, [g |-> registry[Head(batch).fd], kind |-> kind])
  BY DEF dispatch_event, acquire_connection
<1>. QED
  BY <1>1, <1>2, <1>3, <1>4
(* The events of a step belong to connections the server knows. *)
LEMMA EventSteps == TransportInv /\ EventTypes /\ [TNext]_tVars => EventTypes'
<1>. SUFFICES ASSUME TransportInv, EventTypes, [TNext]_tVars PROVE EventTypes'
  OBVIOUS
<1>0. TransportTypes /\ \A g \in Generations : sockets[g].fd \in Descriptors
  <2>1. TransportTypes /\ \A g \in Generations : sockets[g] \in Connection
    BY DEF TransportInv, TransportTypes, Generations
  <2>. QED
    BY <2>1 DEF Connection
<1>1. ASSUME Generations \subseteq Generations',
             UNCHANGED batch \/ (batch # <<>> /\ batch' = Tail(batch)),
             \/ ready' \subseteq ready
             \/ \E g \in Generations', kind \in {"io", "hup"} :
                   ready' = ready \cup {[g |-> g, kind |-> kind]}
      PROVE  EventTypes'
  <2>1. batch' \in Seq([fd : Descriptors \cup {Server}, kind : {"io", "hup"}])
    BY <1>1, HeadTailProperties DEF EventTypes
  <2>2. IsFiniteSet(ready')
    BY <1>1, FS_Subset, FS_AddElement DEF EventTypes
  <2>3. ready' \subseteq [g : Generations', kind : {"io", "hup"}]
    BY <1>1 DEF EventTypes
  <2>. QED
    BY <2>1, <2>2, <2>3 DEF EventTypes
<1>2. CASE epoll_wait
  <2>. DEFINE Event == [fd : Descriptors \cup {Server}, kind : {"io", "hup"}]
              Seen == [e \in ready |-> [fd |-> sockets[e.g].fd, kind |-> e.kind]]
              Edges == {[fd |-> sockets[e.g].fd, kind |-> e.kind] : e \in ready}
  <2>1. PICK events \in SetToSeqs(Edges), knocks \in {<<>>, <<[fd |-> Server, kind |-> "io"]>>} :
           batch' = knocks \o events
    BY <1>2 DEF epoll_wait
  <2>2. Edges \subseteq Event
    BY <1>0 DEF EventTypes
  <2>3. Seen \in Surjection(ready, Edges)
    BY DEF Surjection
  <2>4. Cardinality(Edges) \in Nat
    BY <2>3, FS_Surjection, FS_CardinalityType DEF EventTypes
  <2>5. events \in [1..Cardinality(Edges) -> Edges]
    BY DEF SetToSeqs
  <2>. HIDE DEF Seen, Edges
  <2>6. events \in Seq(Event) /\ knocks \in Seq(Event)
    <3>1. events \in [1..Cardinality(Edges) -> Event]
      BY <2>2, <2>5
    <3>2. events \in Seq(Event)
      <4>1. ASSUME NEW S, NEW n \in Nat, NEW q \in [1..n -> S] PROVE q \in Seq(S)
        BY SeqDef
      <4>. HIDE DEF Event
      <4>. QED
        BY <2>4, <3>1, <4>1
    <3>3. [fd |-> Server, kind |-> "io"] \in Event
      OBVIOUS
    <3>4. ASSUME NEW S, NEW x \in S PROVE <<>> \in Seq(S) /\ <<x>> \in Seq(S)
      OBVIOUS
    <3>5. knocks \in Seq(Event)
      BY <2>1, <3>3, <3>4
    <3>. QED
      BY <3>2, <3>5
  <2>7. batch' \in Seq(Event)
    BY <2>1, <2>6
  <2>8. ready' = {} /\ UNCHANGED sockets
    BY <1>2 DEF epoll_wait
  <2>. QED
    BY <2>7, <2>8, FS_EmptySet DEF EventTypes
<1>3. ASSUME NEW g \in Generations,
             PeerSends(g) \/ PeerFallsSilent(g) \/ PeerHangsUp(g) \/ PeerStopsReading(g) \/ PeerReads(g)
      PROVE  EventTypes'
  <2>1. UNCHANGED <<Generations, batch>>
    BY <1>3 DEF PeerSends, PeerFallsSilent, PeerHangsUp, PeerStopsReading, PeerReads, Generations
  <2>2. UNCHANGED ready \/ \E kind \in {"io", "hup"} : Raise(g, kind)
    BY <1>3 DEF PeerSends, PeerFallsSilent, PeerHangsUp, PeerStopsReading, PeerReads
  <2>3. UNCHANGED ready \/ \E kind \in {"io", "hup"} : ready' = ready \cup {[g |-> g, kind |-> kind]}
    BY <2>2 DEF Raise
  <2>. QED
    BY <1>1, <2>1, <2>3
<1>4. CASE handle_new_connection
  <2>1. batch # <<>> /\ batch' = Tail(batch)
    BY <1>4 DEF handle_new_connection
  <2>2. CASE UNCHANGED <<sockets, ready>>
    BY <1>1, <2>1, <2>2 DEF Generations
  <2>3. ASSUME NEW d \in Descriptors, sockets' = Append(sockets, NewConnection(d)),
               ready' = ready \cup {[g |-> Len(sockets) + 1, kind |-> "io"]}
        PROVE  EventTypes'
    <3>1. Generations \subseteq Generations' /\ Len(sockets) + 1 \in Generations'
      BY <1>0, <2>3 DEF TransportTypes, Generations
    <3>. QED
      BY <1>1, <2>1, <2>3, <3>1
  <2>. QED
    BY <1>4, <2>2, <2>3 DEF handle_new_connection
<1>5. CASE dispatch_event
  BY <1>1, <1>5 DEF dispatch_event, Generations
<1>6. CASE run_connection_maintenance
  BY <1>1, <1>6 DEF run_connection_maintenance, Generations
<1>7. CASE close_stale
  BY <1>1, <1>7 DEF close_stale, Retire, Generations
<1>8. ASSUME NEW w \in Crew, Serve(w) PROVE EventTypes'
  <2>1. UNCHANGED <<Generations, batch>>
    BY <1>8 DEF Serve, take_task, handle_client_data, finish_request, close_connection, run_callback,
       Retire, Generations
  <2>2. ready' \subseteq ready
    BY <1>8 DEF Serve, take_task, handle_client_data, finish_request, close_connection, run_callback,
       Retire
  <2>. QED
    BY <1>1, <2>1, <2>2
<1>9. CASE Send
  BY <1>1, <1>9 DEF Send, send_acquire, send_text, Generations
<1>10. CASE tick
  BY <1>1, <1>10 DEF tick, Generations
<1>11. CASE UNCHANGED tVars
  BY <1>1, <1>11 DEF tVars, Generations
<1>. QED
  BY <1>2, <1>3, <1>4, <1>5, <1>6, <1>7, <1>8, <1>9, <1>10, <1>11 DEF TNext, Peers, EventLoop

(* The sweep reads and pings, and collects connections it has looked at. *)
LEMMA SweepStep == TransportInv /\ run_connection_maintenance => TransportInv'
<1>. SUFFICES ASSUME TransportInv, run_connection_maintenance PROVE TransportInv'
  OBVIOUS
<1>. USE DEF Generations
<1>0. TransportTypes /\ \A g \in Generations : sockets[g] \in Connection
  BY DEF TransportInv, TransportTypes
<1>1. UNCHANGED <<registry, backlog, worker, sender, seat, called>>
  BY DEF run_connection_maintenance
<1>. DEFINE open == {g \in Generations : Watched(g) /\ ~Locked(g) /\ ~sockets[g].retired}
<1>2. /\ stale' \subseteq open /\ open \subseteq Generations
      /\ sockets' = [g \in Generations |-> IF g \in open THEN Swept(sockets[g]) ELSE sockets[g]]
      /\ \A g \in open : registry[sockets[g].fd] = g
  BY DEF run_connection_maintenance, Watched
<1>. HIDE DEF open
<1>3. \A g \in Generations : Kin(sockets[g], sockets'[g])
  BY <1>0, <1>2, SentIsKin DEF Kin
<1>4. sockets' \in Seq(Connection) /\ DOMAIN sockets' = DOMAIN sockets
  <2>1. Len(sockets) \in Nat /\ Generations = 1..Len(sockets)
    BY <1>0 DEF TransportTypes
  <2>2. sockets' \in [1..Len(sockets) -> Connection]
    BY <1>2, <1>3, <2>1 DEF Kin
  <2>3. sockets' \in Seq(Connection)
    BY <2>1, <2>2, SeqDef
  <2>. QED
    BY <1>2, <2>3
<1>5. TransportTypes'
  BY <1>0, <1>1, <1>2, <1>4 DEF TransportTypes
<1>6. \A g \in Generations : sockets'[g].fd = sockets[g].fd
  BY <1>3 DEF Kin
<1>7. \A g \in Generations : Held(g)' => Held(g)
  <2>1. \A g \in stale' : g \in {registry[d] : d \in Descriptors}
    BY <1>0, <1>2 DEF Connection
  <2>. QED
    BY <1>1, <2>1 DEF Held
<1>8. OneHolder'
  BY <1>4, <1>6, <1>7, HoldersStay DEF TransportInv
<1>9. RegistryKnows'
  BY <1>0, <1>1, <1>3, <1>4 DEF TransportInv, TransportTypes, RegistryKnows, Kin
<1>10. OneProcessor' /\ CallbacksCounted'
  BY <1>1, <1>3, <1>4 DEF TransportInv, OneProcessor, CallbacksCounted, CallsBack, Kin
<1>11. SeatsKnown' /\ CallbackHitsItsOwn'
  BY <1>0, <1>1, <1>3, <1>4 DEF TransportInv, TransportTypes, SeatsKnown, CallbackHitsItsOwn, Kin
<1>. QED
  BY <1>5, <1>8, <1>9, <1>10, <1>11 DEF TransportInv

(* A task changes hands; the worker that takes it was at rest. *)
LEMMA TakeStep == ASSUME TransportInv, NEW w \in Crew, take_task(w) PROVE TransportInv'
<1>. DEFINE Task == [g : Generations, kind : {"data", "hup"}]
<1>0. UNCHANGED <<sockets, registry, stale, sender, seat, called>> /\ TransportTypes
  BY DEF take_task, TransportInv
<1>1. backlog \in Seq(Task) /\ backlog # <<>> /\ backlog' = Tail(backlog)
  BY <1>0 DEF take_task, TransportTypes
<1>. HIDE DEF Task
<1>2. Head(backlog) \in Task /\ backlog' \in Seq(Task) /\ Head(backlog) = backlog[1]
      /\ 1 \in DOMAIN backlog
      /\ \A i \in DOMAIN backlog' : i + 1 \in DOMAIN backlog /\ backlog'[i] = backlog[i + 1]
  BY <1>1
<1>. USE DEF Task
<1>3. worker' = [worker EXCEPT ![w] = [step |-> Head(backlog).kind, g |-> Head(backlog).g]]
  BY DEF take_task
<1>4. /\ Head(backlog).kind \in {"data", "hup"} /\ Head(backlog).g \in Generations
      /\ worker'[w].step \notin Locking /\ worker[w].step = "idle"
      /\ \A v \in Crew : v # w => worker'[v] = worker[v]
      /\ worker'[w] = [step |-> Head(backlog).kind, g |-> Head(backlog).g]
  BY <1>0, <1>2, <1>3 DEF TransportTypes, Locking, take_task, Resting
<1>5. TransportTypes'
  <2>1. worker' \in [Crew -> [step : WorkerSteps, g : Generations \cup {0}]]
    BY <1>0, <1>3, <1>4 DEF TransportTypes, WorkerSteps
  <2>2. \A v \in Crew : worker'[v].step # "idle" => worker'[v].g \in Generations
    BY <1>0, <1>4 DEF TransportTypes
  <2>. QED
    BY <1>0, <1>2, <2>1, <2>2 DEF TransportTypes, Generations
<1>6. \A g \in Generations : Held(g)' => Held(g)
  BY <1>0, <1>2, <1>4 DEF Held
<1>7. OneHolder'
  BY <1>0, <1>6, HoldersStay DEF TransportInv
<1>8. OneProcessor'
  BY <1>4 DEF TransportInv, OneProcessor
<1>9. \A g : CallsBack(g)' <=> CallsBack(g)
  BY <1>4 DEF CallsBack, Locking
<1>10. CallbacksCounted'
  BY <1>0, <1>9 DEF TransportInv, CallbacksCounted, Generations
<1>. QED
  BY <1>0, <1>5, <1>7, <1>8, <1>10 DEF TransportInv, RegistryKnows, SeatsKnown, CallbackHitsItsOwn, Generations

(* Workers that put down what they had, or go on with the connection they  *)
(* have, without starting or ending a callback.                            *)
CrewCalm ==
    /\ worker' \in [Crew -> [step : WorkerSteps, g : Generations \cup {0}]]
    /\ \A w \in Crew : worker'[w].step # "idle" => worker'[w].g \in Generations
    /\ OneProcessor'
    /\ \A g : CallsBack(g)' <=> CallsBack(g)
    /\ \A g \in Generations : \A w \in Crew : worker'[w].g = g => \E v \in Crew : worker[v].g = g

(* A worker that has or obtains the mutex, or rests. *)
LEMMA CrewMoves ==
    ASSUME TransportTypes, OneProcessor, NEW w \in Crew, worker[w].step \notin {"idle", "callback"},
           NEW r, worker' = [worker EXCEPT ![w] = r],
           \/ r = Resting
           \/ /\ r \in {[step |-> "busy", g |-> worker[w].g], [step |-> "close", g |-> worker[w].g]}
              /\ worker[w].step \in Locking \/ ~Locked(worker[w].g)
    PROVE  CrewCalm
<1>1. /\ worker[w].g \in Generations /\ worker[w].step \in WorkerSteps
      /\ worker'[w] = r /\ \A v \in Crew : v # w => worker'[v] = worker[v]
  BY DEF TransportTypes
<1>2. \/ r.step = "idle" /\ r.g = 0
      \/ /\ r.step \in {"busy", "close"} /\ r.g = worker[w].g
         /\ worker[w].step \in Locking \/ ~Locked(worker[w].g)
  BY DEF Resting
<1>3. r \in [step : WorkerSteps, g : Generations \cup {0}]
  BY <1>1 DEF Resting, WorkerSteps
<1>4. worker' \in [Crew -> [step : WorkerSteps, g : Generations \cup {0}]]
  BY <1>3 DEF TransportTypes
<1>5. \A v \in Crew : worker'[v].step # "idle" => worker'[v].g \in Generations
  BY <1>1, <1>2 DEF TransportTypes
<1>6. OneProcessor'
  BY <1>1, <1>2 DEF OneProcessor, Locked, Locking
<1>7. \A g : CallsBack(g)' <=> CallsBack(g)
  BY <1>1, <1>2 DEF CallsBack
<1>8. ASSUME NEW g \in Generations, NEW v \in Crew, worker'[v].g = g
      PROVE  \E u \in Crew : worker[u].g = g
  <2>1. 0 \notin Generations
    BY DEF TransportTypes, Generations
  <2>. QED
    BY <1>1, <1>2, <1>8, <2>1
<1>. QED
  BY <1>4, <1>5, <1>6, <1>7, <1>8 DEF CrewCalm

(* A worker that reads or writes and goes on or rests. *)
LEMMA WorkStep ==
    ASSUME TransportInv, Calm, CrewCalm, UNCHANGED <<registry, stale, backlog, sender, seat, called>>
    PROVE  TransportInv'
<1>. USE DEF Generations
<1>0. TransportTypes /\ \A g \in Generations : sockets'[g].fd = sockets[g].fd
  BY DEF TransportInv, Calm, Kin
<1>1. TransportTypes'
  BY <1>0 DEF TransportTypes, Calm, CrewCalm
<1>2. \A g \in Generations : Held(g)' => Held(g)
  BY DEF Held, CrewCalm
<1>3. OneHolder'
  BY <1>0, <1>2, HoldersStay DEF TransportInv, Calm
<1>7. /\ DOMAIN sockets' = DOMAIN sockets
      /\ \A g \in Generations : /\ sockets'[g].fd = sockets[g].fd
                                /\ sockets'[g].retired = sockets[g].retired
                                /\ sockets'[g].heard = sockets[g].heard
      /\ \A d \in Descriptors : /\ registry'[d] = registry[d] /\ registry[d] \in Generations \cup {0}
                                /\ seat'[d] = seat[d] /\ seat[d] \in Generations \cup {0}
  BY <1>0 DEF Calm, Kin, TransportTypes
<1>4. RegistryKnows'
  BY <1>7 DEF TransportInv, RegistryKnows
<1>5. CallbacksCounted'
  BY DEF TransportInv, CallbacksCounted, Calm, CrewCalm, Kin
<1>6. SeatsKnown' /\ CallbackHitsItsOwn'
  BY <1>7 DEF TransportInv, SeatsKnown, CallbackHitsItsOwn
<1>. QED
  BY <1>1, <1>3, <1>4, <1>5, <1>6 DEF TransportInv, CrewCalm

(* Closing takes a connection out of the registry. *)
LEMMA Retiring ==
    ASSUME TransportTypes, RegistryKnows, NEW g \in Generations, sockets[g].retired = FALSE, Retire(g)
    PROVE  /\ sockets' \in Seq(Connection) /\ DOMAIN sockets' = DOMAIN sockets
           /\ sockets'[g].retired = TRUE
           /\ \A h \in Generations : /\ sockets'[h].fd = sockets[h].fd
                                     /\ sockets'[h].heard = sockets[h].heard
                                     /\ h # g => sockets'[h].retired = sockets[h].retired
           /\ registry' \in [Descriptors -> Generations \cup {0}]
           /\ sockets[g].fd \in Descriptors /\ registry'[sockets[g].fd] = 0
           /\ \A d \in Descriptors : d # sockets[g].fd => registry'[d] = registry[d]
           /\ RegistryKnows'
<1>. USE DEF Generations
<1>0. \A h \in Generations : sockets[h] \in Connection
  BY DEF TransportTypes
<1>1. sockets[g].fd \in Descriptors
  BY <1>0 DEF Connection
<1>2. sockets' = [sockets EXCEPT ![g].retired = TRUE] /\ registry' = [registry EXCEPT ![sockets[g].fd] = 0]
  BY DEF Retire
<1>3. [sockets[g] EXCEPT !.retired = TRUE] \in Connection
  BY <1>0 DEF Connection
<1>4. sockets' \in Seq(Connection) /\ DOMAIN sockets' = DOMAIN sockets
  BY <1>2, <1>3 DEF TransportTypes
<1>5. /\ sockets'[g] = [sockets[g] EXCEPT !.retired = TRUE]
      /\ \A h \in Generations : h # g => sockets'[h] = sockets[h]
  BY <1>2
<1>6. /\ sockets'[g].retired = TRUE /\ sockets'[g].fd = sockets[g].fd
      /\ sockets'[g].heard = sockets[g].heard
  BY <1>0, <1>5 DEF Connection
<1>7. /\ registry' \in [Descriptors -> Generations \cup {0}] /\ registry'[sockets[g].fd] = 0
      /\ \A d \in Descriptors : d # sockets[g].fd => registry'[d] = registry[d]
  BY <1>1, <1>2 DEF TransportTypes
<1>8. RegistryKnows'
  <2>1. registry[sockets[g].fd] = g /\ 0 \notin Generations
    BY DEF RegistryKnows, TransportTypes
  <2>2. ASSUME NEW d \in Descriptors, registry'[d] # 0 PROVE sockets'[registry'[d]].fd = d
    <3>1. registry'[d] = registry[d] /\ registry[d] \in Generations
      BY <1>7, <2>2 DEF TransportTypes
    <3>2. sockets[registry[d]].fd = d
      BY <2>2, <3>1 DEF RegistryKnows
    <3>3. \A h \in Generations : sockets'[h].fd = sockets[h].fd
      BY <1>5, <1>6
    <3>. QED
      BY <3>1, <3>2, <3>3
  <2>3. ASSUME NEW h \in Generations PROVE sockets'[h].retired = FALSE <=> registry'[sockets'[h].fd] = h
    <3>1. CASE h = g
      BY <1>6, <1>7, <2>1, <3>1
    <3>2. CASE h # g
      <4>1. sockets'[h] = sockets[h] /\ sockets[h].fd \in Descriptors
        BY <1>0, <1>5, <3>2 DEF Connection
      <4>. QED
        BY <1>7, <2>1, <3>2, <4>1 DEF RegistryKnows
    <3>. QED
      BY <3>1, <3>2
  <2>. QED
    BY <1>4, <2>2, <2>3 DEF RegistryKnows
<1>. QED
  BY <1>1, <1>4, <1>5, <1>6, <1>7, <1>8

(* What the registry has and what is held after a connection was closed. *)
LEMMA RetiredHolders ==
    ASSUME TransportInv, NEW g \in Generations, sockets[g].retired = FALSE, Retire(g),
           stale' \subseteq stale, UNCHANGED <<backlog, sender>>,
           \A h \in Generations : \A w \in Crew : worker'[w].g = h => \E v \in Crew : worker[v].g = h
    PROVE  OneHolder'
<1>0. /\ sockets[g].fd \in Descriptors /\ DOMAIN sockets' = DOMAIN sockets
      /\ \A h \in Generations : sockets'[h].fd = sockets[h].fd
      /\ registry'[sockets[g].fd] = 0
      /\ \A d \in Descriptors : d # sockets[g].fd => registry'[d] = registry[d]
  BY Retiring DEF TransportInv
<1>1. 0 \notin Generations
  BY DEF TransportInv, TransportTypes, Generations
<1>2. \A h \in Generations : Held(h)' => Held(h)
  BY <1>0, <1>1 DEF Held
<1>. QED
  BY <1>0, <1>2, HoldersStay DEF TransportInv

(* The sweep closes a connection and calls back in one go. *)
LEMMA StaleStep == TransportInv /\ close_stale => TransportInv'
<1>. SUFFICES ASSUME TransportInv, close_stale PROVE TransportInv'
  OBVIOUS
<1>0. UNCHANGED <<backlog, worker, sender>> /\ TransportTypes /\ 0 \notin Generations
  BY DEF close_stale, TransportInv, TransportTypes, Generations
<1>1. ASSUME stale' \subseteq stale, UNCHANGED <<sockets, registry, seat, called>> PROVE TransportInv'
  <2>1. TransportTypes'
    BY <1>0, <1>1 DEF TransportTypes, Generations
  <2>2. OneHolder'
    <3>1. \A g \in Generations : Held(g)' => Held(g)
      BY <1>0, <1>1 DEF Held
    <3>. QED
      BY <1>1, <3>1, HoldersStay DEF TransportInv, Generations
  <2>. QED
    BY <1>0, <1>1, <2>1, <2>2 DEF TransportInv, RegistryKnows, OneProcessor, CallbacksCounted, CallsBack,
       SeatsKnown, CallbackHitsItsOwn, Generations
<1>2. ASSUME NEW g \in stale, stale' = stale \ {g}, ~sockets[g].retired, Retire(g), disconnect_cb(g)
      PROVE  TransportInv'
  <2>0. g \in Generations /\ sockets[g].retired = FALSE
    <3>1. g \in Generations /\ sockets[g] \in Connection
      BY <1>0, <1>2 DEF TransportTypes, Generations
    <3>. QED
      BY <1>2, <3>1 DEF Connection
  <2>1. /\ sockets' \in Seq(Connection) /\ DOMAIN sockets' = DOMAIN sockets
        /\ sockets'[g].retired = TRUE
        /\ \A h \in Generations : /\ sockets'[h].fd = sockets[h].fd
                                  /\ sockets'[h].heard = sockets[h].heard
                                  /\ h # g => sockets'[h].retired = sockets[h].retired
        /\ registry' \in [Descriptors -> Generations \cup {0}]
        /\ sockets[g].fd \in Descriptors /\ registry'[sockets[g].fd] = 0
        /\ \A d \in Descriptors : d # sockets[g].fd => registry'[d] = registry[d]
        /\ RegistryKnows'
    BY <1>2, <2>0, Retiring DEF TransportInv
  <2>2. /\ seat' = [seat EXCEPT ![sockets[g].fd] = 0]
        /\ called' = [called EXCEPT ![g] = @ + 1]
    BY <1>2 DEF disconnect_cb
  <2>3. called[g] = 0 /\ ~CallsBack(g)
    BY <2>0 DEF TransportInv, CallbacksCounted
  <2>4. /\ called' = [called EXCEPT ![g] = 1] /\ called' \in Seq(Nat) /\ DOMAIN called' = DOMAIN called
        /\ called'[g] = 1 /\ \A h \in Generations : h # g => called'[h] = called[h]
        /\ DOMAIN called = Generations
    BY <1>0, <2>0, <2>2, <2>3 DEF TransportTypes
  <2>5. /\ seat' \in [Descriptors -> Generations \cup {0}] /\ seat'[sockets[g].fd] = 0
        /\ \A d \in Descriptors : d # sockets[g].fd => seat'[d] = seat[d]
    BY <1>0, <2>1, <2>2 DEF TransportTypes
  <2>6. TransportTypes'
    BY <1>0, <1>2, <2>1, <2>4, <2>5 DEF TransportTypes, Generations
  <2>7. OneHolder'
    BY <1>0, <1>2, <2>0, RetiredHolders
  <2>8. OneProcessor'
    BY <1>0 DEF TransportInv, OneProcessor
  <2>9. CallbacksCounted'
    BY <1>0, <2>0, <2>1, <2>3, <2>4 DEF TransportInv, CallbacksCounted, CallsBack, Generations
  <2>10. SeatsKnown'
    <3>1. ASSUME NEW d \in Descriptors, seat'[d] # 0
          PROVE  sockets'[seat'[d]].fd = d /\ called'[seat'[d]] = 0
      <4>1. d # sockets[g].fd /\ seat'[d] = seat[d] /\ seat[d] \in Generations
        BY <1>0, <2>5, <3>1 DEF TransportTypes
      <4>2. sockets[seat[d]].fd = d /\ called[seat[d]] = 0
        BY <3>1, <4>1 DEF TransportInv, SeatsKnown
      <4>3. seat[d] # g
        BY <4>1, <4>2
      <4>. QED
        BY <2>1, <2>4, <4>1, <4>2, <4>3
    <3>. QED
      BY <3>1 DEF SeatsKnown
  <2>11. CallbackHitsItsOwn'
    BY <1>0, <2>1, <2>5 DEF TransportInv, TransportTypes, CallbackHitsItsOwn
  <2>. QED
    BY <2>1, <2>6, <2>7, <2>8, <2>9, <2>10, <2>11 DEF TransportInv
<1>3. \/ UNCHANGED <<sockets, registry, ready, stale, seat, called>>
      \/ \E g \in stale : /\ stale' = stale \ {g}
                           /\ \/ ~sockets[g].retired /\ Retire(g) /\ disconnect_cb(g)
                              \/ UNCHANGED <<sockets, registry, seat, called>>
  BY DEF close_stale
<1>. QED
  BY <1>1, <1>2, <1>3

(* A worker closes a connection; the callback is still to come. *)
LEMMA CloseStep == ASSUME TransportInv, NEW w \in Crew, close_connection(w) PROVE TransportInv'
<1>. PICK x : x = worker[w].g
  OBVIOUS
<1>0. /\ UNCHANGED <<stale, backlog, sender, seat, called>>
      /\ TransportTypes /\ OneProcessor
      /\ worker[w].step \in {"close", "hup"} /\ x \in Generations
      /\ worker[w].step \in Locking \/ ~Locked(x)
  BY DEF close_connection, TransportInv, TransportTypes, Locking
<1>1. CASE UNCHANGED <<sockets, registry>> /\ worker' = [worker EXCEPT ![w] = Resting]
  <2>1. Calm
    BY <1>0, <1>1 DEF Calm, Kin, TransportTypes, Generations
  <2>2. CrewCalm
    BY <1>0, <1>1, CrewMoves
  <2>. QED
    BY <1>0, <1>1, <2>1, <2>2, WorkStep
<1>2. CASE /\ ~sockets[x].retired /\ Retire(x)
           /\ worker' = [worker EXCEPT ![w] = [step |-> "callback", g |-> x]]
  <2>0. sockets[x].retired = FALSE
    <3>1. sockets[x] \in Connection
      BY <1>0 DEF TransportTypes, Generations
    <3>. QED
      BY <1>2, <3>1 DEF Connection
  <2>1. /\ sockets' \in Seq(Connection) /\ DOMAIN sockets' = DOMAIN sockets
        /\ sockets'[x].retired = TRUE
        /\ \A h \in Generations : /\ sockets'[h].fd = sockets[h].fd
                                  /\ sockets'[h].heard = sockets[h].heard
                                  /\ h # x => sockets'[h].retired = sockets[h].retired
        /\ registry' \in [Descriptors -> Generations \cup {0}]
        /\ sockets[x].fd \in Descriptors /\ registry'[sockets[x].fd] = 0
        /\ \A d \in Descriptors : d # sockets[x].fd => registry'[d] = registry[d]
        /\ RegistryKnows'
    BY <1>0, <1>2, <2>0, Retiring DEF TransportInv
  <2>2. /\ worker'[w] = [step |-> "callback", g |-> x]
        /\ \A v \in Crew : v # w => worker'[v] = worker[v]
    BY <1>0, <1>2 DEF TransportTypes
  <2>3. TransportTypes'
    <3>1. worker' \in [Crew -> [step : WorkerSteps, g : Generations \cup {0}]]
      BY <1>0, <1>2 DEF TransportTypes, WorkerSteps
    <3>2. \A v \in Crew : worker'[v].step # "idle" => worker'[v].g \in Generations
      BY <1>0, <2>2 DEF TransportTypes
    <3>. QED
      BY <1>0, <2>1, <3>1, <3>2 DEF TransportTypes, Generations
  <2>4. OneHolder'
    <3>1. \A h \in Generations : \A u \in Crew : worker'[u].g = h => \E v \in Crew : worker[v].g = h
      BY <2>2
    <3>. QED
      BY <1>0, <1>2, <2>0, <3>1, RetiredHolders
  <2>5. OneProcessor'
    BY <1>0, <2>2 DEF OneProcessor, Locked, Locking
  <2>6. /\ called[x] = 0 /\ CallsBack(x)'
        /\ \A h : h # x => (CallsBack(h)' <=> CallsBack(h))
    <3>1. called[x] = 0
      BY <1>0, <2>0 DEF TransportInv, CallbacksCounted
    <3>2. CallsBack(x)'
      BY <2>2 DEF CallsBack
    <3>3. \A h : h # x => (CallsBack(h)' <=> CallsBack(h))
      BY <1>0, <2>2 DEF CallsBack
    <3>. QED
      BY <3>1, <3>2, <3>3
  <2>7. CallbacksCounted'
    BY <1>0, <2>1, <2>6 DEF TransportInv, CallbacksCounted, Generations
  <2>8. SeatsKnown'
    BY <1>0, <2>1 DEF TransportInv, TransportTypes, SeatsKnown
  <2>9. CallbackHitsItsOwn'
    BY <1>0, <2>1 DEF TransportInv, TransportTypes, CallbackHitsItsOwn
  <2>. QED
    BY <2>1, <2>3, <2>4, <2>5, <2>7, <2>8, <2>9 DEF TransportInv
<1>. QED
  BY <1>1, <1>2 DEF close_connection

(* The callback of a connection that a worker closed: the descriptor has   *)
(* no new owner while the worker still holds the old one.                  *)
LEMMA CallbackStep == ASSUME TransportInv, NEW w \in Crew, run_callback(w) PROVE TransportInv'
<1>. PICK x : x = worker[w].g
  OBVIOUS
<1>0. /\ UNCHANGED <<sockets, registry, stale, backlog, sender>>
      /\ TransportTypes /\ worker[w].step = "callback" /\ x \in Generations /\ 0 \notin Generations
      /\ worker' = [worker EXCEPT ![w] = Resting]
      /\ seat' = [seat EXCEPT ![sockets[x].fd] = 0]
      /\ called' = [called EXCEPT ![x] = @ + 1]
  BY DEF run_callback, disconnect_cb, TransportInv, TransportTypes, Generations
<1>1. sockets[x].fd \in Descriptors
  <2>0. sockets \in Seq(Connection) /\ x \in DOMAIN sockets
    BY <1>0 DEF TransportTypes, Generations
  <2>1. sockets[x] \in Connection
    BY <2>0
  <2>. QED
    BY <2>1 DEF Connection
<1>2. CallsBack(x) /\ sockets[x].retired = TRUE /\ called[x] = 0
  <2>1. CallsBack(x)
    BY <1>0 DEF CallsBack
  <2>. QED
    BY <1>0, <2>1 DEF TransportInv, CallbacksCounted
<1>3. worker'[w].step = "idle" /\ worker'[w].g = 0 /\ \A v \in Crew : v # w => worker'[v] = worker[v]
  BY <1>0 DEF TransportTypes, Resting
<1>4. /\ called' \in Seq(Nat) /\ DOMAIN called' = DOMAIN called /\ DOMAIN called = Generations
      /\ called'[x] = 1 /\ \A h \in Generations : h # x => called'[h] = called[h]
  BY <1>0, <1>2 DEF TransportTypes
<1>5. /\ seat' \in [Descriptors -> Generations \cup {0}] /\ seat'[sockets[x].fd] = 0
      /\ \A d \in Descriptors : d # sockets[x].fd => seat'[d] = seat[d]
  BY <1>0, <1>1 DEF TransportTypes
<1>6. registry[sockets[x].fd] = 0
  <2>. SUFFICES ASSUME registry[sockets[x].fd] # 0 PROVE FALSE
    OBVIOUS
  <2>1. PICK h \in Generations : registry[sockets[x].fd] = h
    BY <1>0, <1>1 DEF TransportTypes
  <2>2. sockets[h].fd = sockets[x].fd
    BY <1>1, <2>1 DEF TransportInv, RegistryKnows
  <2>3. Held(h) /\ Held(x)
    BY <1>0, <1>1, <2>1 DEF Held
  <2>4. h = x
    BY <1>0, <2>2, <2>3 DEF TransportInv, OneHolder
  <2>. QED
    BY <1>0, <1>2, <2>1, <2>4 DEF TransportInv, RegistryKnows
<1>7. TransportTypes'
  <2>1. worker' \in [Crew -> [step : WorkerSteps, g : Generations \cup {0}]]
    BY <1>0 DEF TransportTypes, Resting, WorkerSteps
  <2>2. \A v \in Crew : worker'[v].step # "idle" => worker'[v].g \in Generations
    BY <1>0, <1>3 DEF TransportTypes
  <2>. QED
    BY <1>0, <1>4, <1>5, <2>1, <2>2 DEF TransportTypes, Generations
<1>8. OneHolder'
  <2>1. \A h \in Generations : Held(h)' => Held(h)
    BY <1>0, <1>3 DEF Held
  <2>. QED
    BY <1>0, <2>1, HoldersStay DEF TransportInv, Generations
<1>9. OneProcessor'
  BY <1>3 DEF TransportInv, OneProcessor, Locking
<1>10. ~CallsBack(x)' /\ \A h : h # x => (CallsBack(h)' <=> CallsBack(h))
  <2>1. ~CallsBack(x)'
    BY <1>0, <1>3 DEF CallsBack, TransportInv, OneProcessor, Locking
  <2>2. \A h : h # x => (CallsBack(h)' <=> CallsBack(h))
    BY <1>0, <1>3 DEF CallsBack
  <2>. QED
    BY <2>1, <2>2
<1>11. CallbacksCounted'
  BY <1>0, <1>2, <1>4, <1>10 DEF TransportInv, CallbacksCounted, Generations
<1>12. SeatsKnown'
  <2>1. ASSUME NEW d \in Descriptors, seat'[d] # 0
        PROVE  sockets'[seat'[d]].fd = d /\ called'[seat'[d]] = 0
    <3>1. d # sockets[x].fd /\ seat'[d] = seat[d] /\ seat[d] \in Generations
      BY <1>0, <1>5, <2>1 DEF TransportTypes
    <3>2. sockets[seat[d]].fd = d /\ called[seat[d]] = 0
      BY <2>1, <3>1 DEF TransportInv, SeatsKnown
    <3>. QED
      BY <1>0, <1>4, <3>1, <3>2
  <2>. QED
    BY <2>1 DEF SeatsKnown
<1>13. CallbackHitsItsOwn'
  BY <1>0, <1>5, <1>6 DEF TransportInv, CallbackHitsItsOwn
<1>. QED
  BY <1>0, <1>7, <1>8, <1>9, <1>11, <1>12, <1>13 DEF TransportInv, RegistryKnows, Generations

(* A request comes in: the game layer is told who sends it. *)
LEMMA DataStep == ASSUME TransportInv, NEW w \in Crew, handle_client_data(w) PROVE TransportInv'
<1>. PICK x : x = worker[w].g
  OBVIOUS
<1>0. /\ UNCHANGED <<registry, stale, backlog, sender, called>>
      /\ TransportTypes /\ OneProcessor /\ ~Locked(x)
      /\ worker[w].step = "data" /\ x \in Generations /\ 0 \notin Generations
  BY DEF handle_client_data, TransportInv, TransportTypes, Generations
<1>1. sockets[x] \in Connection
  BY <1>0 DEF TransportTypes, Generations
<1>2. ASSUME Calm, UNCHANGED seat,
             \/ worker' = [worker EXCEPT ![w] = Resting]
             \/ worker' = [worker EXCEPT ![w] = [step |-> "close", g |-> x]]
      PROVE  TransportInv'
  <2>1. CrewCalm
    BY <1>0, <1>2, CrewMoves
  <2>. QED
    BY <1>0, <1>2, <2>1, WorkStep
<1>3. CASE UNCHANGED <<sockets, seat>> /\ (\/ worker' = [worker EXCEPT ![w] = Resting]
                                        \/ worker' = [worker EXCEPT ![w] = [step |-> "close", g |-> x]])
  <2>1. Calm
    BY <1>0, <1>3 DEF Calm, Kin, TransportTypes, Generations
  <2>. QED
    BY <1>2, <1>3, <2>1
<1>4. CASE /\ sockets' = [sockets EXCEPT ![x] = Flushed(sockets[x])] /\ UNCHANGED seat
           /\ \/ worker' = [worker EXCEPT ![w] = Resting]
              \/ worker' = [worker EXCEPT ![w] = [step |-> "close", g |-> x]]
  <2>1. Calm
    BY <1>0, <1>1, <1>4, WritesAreKin, OneSocketCalm DEF Flushed
  <2>. QED
    BY <1>2, <1>4, <2>1
<1>5. CASE /\ ~sockets[x].retired /\ sockets[x].unread
           /\ sockets' = [sockets EXCEPT ![x] = ReadDry(sockets[x])]
           /\ seat' = IF sockets[x].upgraded THEN [seat EXCEPT ![sockets[x].fd] = x] ELSE seat
           /\ worker' = [worker EXCEPT ![w] = [step |-> "busy", g |-> x]]
  <2>. PICK c : c = ReadDry(sockets[x])
    OBVIOUS
  <2>1. /\ c \in Connection /\ c.fd = sockets[x].fd /\ c.retired = sockets[x].retired
        /\ c.heard = sockets[x].upgraded
    BY <1>1, <1>5 DEF ReadDry, mark_activity_received, set_upgraded, Connection
  <2>2. /\ sockets' \in Seq(Connection) /\ DOMAIN sockets' = DOMAIN sockets
        /\ sockets'[x] = c /\ \A h \in Generations : h # x => sockets'[h] = sockets[h]
    BY <1>0, <1>5, <2>1 DEF TransportTypes, Generations
  <2>3. /\ \A h \in Generations : /\ sockets'[h].fd = sockets[h].fd
                                  /\ sockets'[h].retired = sockets[h].retired
        /\ sockets[x].fd \in Descriptors /\ sockets[x].retired = FALSE /\ sockets[x].upgraded \in BOOLEAN
    BY <1>1, <1>5, <2>1, <2>2 DEF Connection
  <2>4. registry[sockets[x].fd] = x /\ called[x] = 0
    BY <1>0, <2>3 DEF TransportInv, RegistryKnows, CallbacksCounted
  <2>5. CrewCalm
    BY <1>0, <1>5, CrewMoves
  <2>6. /\ seat' \in [Descriptors -> Generations \cup {0}]
        /\ sockets[x].upgraded = TRUE => seat'[sockets[x].fd] = x
        /\ sockets[x].upgraded = FALSE => seat'[sockets[x].fd] = seat[sockets[x].fd]
        /\ \A d \in Descriptors : d # sockets[x].fd => seat'[d] = seat[d]
    BY <1>0, <1>5, <2>3 DEF TransportTypes
  <2>7. TransportTypes'
    BY <1>0, <2>2, <2>5, <2>6 DEF TransportTypes, Generations, CrewCalm
  <2>8. OneHolder'
    <3>1. \A h \in Generations : Held(h)' => Held(h)
      BY <1>0, <2>5 DEF Held, CrewCalm
    <3>. QED
      BY <2>2, <2>3, <3>1, HoldersStay DEF TransportInv
  <2>9. RegistryKnows'
    <3>1. \A d \in Descriptors : registry[d] \in Generations \cup {0}
      BY <1>0 DEF TransportTypes
    <3>. QED
      BY <1>0, <2>2, <2>3, <3>1 DEF TransportInv, RegistryKnows, Generations
  <2>10. CallbacksCounted'
    BY <1>0, <2>2, <2>3, <2>5 DEF TransportInv, CallbacksCounted, CrewCalm, Generations
  <2>11. SeatsKnown'
    <3>1. \A d \in Descriptors : seat[d] \in Generations \cup {0}
      BY <1>0 DEF TransportTypes
    <3>2. ASSUME NEW d \in Descriptors, seat'[d] # 0
          PROVE  sockets'[seat'[d]].fd = d /\ called'[seat'[d]] = 0
      <4>1. CASE seat'[d] = seat[d]
        <5>1. seat[d] \in Generations /\ sockets[seat[d]].fd = d /\ called[seat[d]] = 0
          BY <3>1, <3>2, <4>1 DEF TransportInv, SeatsKnown
        <5>. QED
          BY <1>0, <2>3, <4>1, <5>1
      <4>2. CASE d = sockets[x].fd /\ seat'[d] = x
        BY <1>0, <2>3, <2>4, <4>2
      <4>. QED
        BY <2>3, <2>6, <4>1, <4>2
    <3>. QED
      BY <3>2 DEF SeatsKnown
  <2>12. CallbackHitsItsOwn'
    <3>1. \A d \in Descriptors : registry[d] \in Generations \cup {0}
      BY <1>0 DEF TransportTypes
    <3>2. ASSUME NEW d \in Descriptors, registry'[d] # 0, sockets'[registry'[d]].heard
          PROVE  seat'[d] = registry'[d]
      <4>1. registry'[d] = registry[d] /\ registry[d] \in Generations /\ sockets[registry[d]].fd = d
        BY <1>0, <3>1, <3>2 DEF TransportInv, RegistryKnows
      <4>2. CASE registry[d] = x
        <5>1. sockets[x].upgraded = TRUE /\ d = sockets[x].fd
          BY <2>1, <2>2, <2>3, <3>2, <4>1, <4>2
        <5>. QED
          BY <2>6, <4>1, <4>2, <5>1
      <4>3. CASE registry[d] # x
        <5>1. d # sockets[x].fd /\ sockets[registry[d]].heard
          BY <2>2, <2>4, <3>2, <4>1, <4>3
        <5>. QED
          BY <2>6, <3>2, <4>1, <5>1 DEF TransportInv, CallbackHitsItsOwn
      <4>. QED
        BY <4>2, <4>3
    <3>. QED
      BY <3>2 DEF CallbackHitsItsOwn
  <2>. QED
    BY <2>5, <2>7, <2>8, <2>9, <2>10, <2>11, <2>12 DEF TransportInv, CrewCalm
<1>. QED
  BY <1>3, <1>4, <1>5 DEF handle_client_data, Enters

(* The answer to a request, and the close that may follow. *)
LEMMA FinishStep == ASSUME TransportInv, NEW w \in Crew, finish_request(w) PROVE TransportInv'
<1>. PICK x, c : x = worker[w].g /\ c = write_to_socket(append_to_write_buffer(sockets[x]))
  OBVIOUS
<1>0. /\ UNCHANGED <<registry, stale, backlog, sender, seat, called>>
      /\ TransportTypes /\ OneProcessor
      /\ worker[w].step = "busy" /\ x \in Generations
      /\ sockets' = [sockets EXCEPT ![x] = c]
      /\ \/ worker' = [worker EXCEPT ![w] = Resting]
         \/ worker' = [worker EXCEPT ![w] = [step |-> "close", g |-> x]]
  BY DEF finish_request, TransportInv, TransportTypes
<1>1. sockets[x] \in Connection
  BY <1>0 DEF TransportTypes, Generations
<1>2. Calm
  BY <1>0, <1>1, SentIsKin, OneSocketCalm
<1>3. CrewCalm
  BY <1>0, CrewMoves DEF Locking
<1>. QED
  BY <1>0, <1>2, <1>3, WorkStep

(* A foreign send, from the reference it takes to the frame it writes. *)
LEMMA SendStep == TransportInv /\ Send => TransportInv'
<1>. SUFFICES ASSUME TransportInv, Send PROVE TransportInv'
  OBVIOUS
<1>0. TransportTypes /\ 0 \notin Generations
  BY DEF TransportInv, TransportTypes, Generations
<1>. DEFINE Rest == <<registry, stale, backlog, worker, seat, called>>
<1>1. ASSUME Calm, UNCHANGED Rest,
             sender' = 0 \/ sender' \in {registry[d] : d \in Descriptors} \ {0}
      PROVE  TransportInv'
  <2>1. TransportTypes'
    BY <1>0, <1>1 DEF TransportTypes, Calm, Generations
  <2>2. OneHolder'
    <3>1. \A g \in Generations : Held(g)' => Held(g)
      BY <1>0, <1>1 DEF Held
    <3>. QED
      BY <1>1, <3>1, HoldersStay DEF TransportInv, Calm, Kin
  <2>3. /\ DOMAIN sockets' = DOMAIN sockets
        /\ \A g \in Generations : /\ sockets'[g].fd = sockets[g].fd
                                  /\ sockets'[g].retired = sockets[g].retired
                                  /\ sockets'[g].heard = sockets[g].heard
        /\ \A d \in Descriptors : /\ registry'[d] = registry[d] /\ registry[d] \in Generations \cup {0}
                                  /\ seat'[d] = seat[d] /\ seat[d] \in Generations \cup {0}
    BY <1>0, <1>1 DEF Calm, Kin, TransportTypes
  <2>4. RegistryKnows'
    BY <1>1, <2>3 DEF TransportInv, RegistryKnows, Generations
  <2>5. OneProcessor' /\ CallbacksCounted'
    BY <1>1, <2>3 DEF TransportInv, OneProcessor, CallbacksCounted, CallsBack, Generations
  <2>6. SeatsKnown' /\ CallbackHitsItsOwn'
    BY <1>1, <2>3 DEF TransportInv, SeatsKnown, CallbackHitsItsOwn
  <2>. QED
    BY <2>1, <2>2, <2>4, <2>5, <2>6 DEF TransportInv
<1>2. CASE send_acquire
  <2>1. Calm
    BY <1>0, <1>2 DEF send_acquire, Calm, Kin, TransportTypes, Generations
  <2>. QED
    BY <1>1, <1>2, <2>1 DEF send_acquire, acquire_connection
<1>3. CASE send_text
  <2>1. sender \in Generations
    BY <1>0, <1>3 DEF send_text, TransportTypes
  <2>2. sockets[sender] \in Connection
    BY <1>0, <2>1 DEF TransportTypes, Generations
  <2>3. sockets' = [sockets EXCEPT ![sender] = write_to_socket(append_to_write_buffer(sockets[sender]))]
    BY <1>3 DEF send_text
  <2>4. Calm
    BY <1>0, <2>1, <2>2, <2>3, SentIsKin, OneSocketCalm
  <2>. QED
    BY <1>1, <1>3, <2>4 DEF send_text
<1>. QED
  BY <1>2, <1>3 DEF Send

(* Time only ages connections. *)
LEMMA TickStep == TransportInv /\ tick => TransportInv'
<1>. SUFFICES ASSUME TransportInv, tick PROVE TransportInv'
  OBVIOUS
<1>0. TransportTypes /\ \A g \in Generations : sockets[g] \in Connection
  BY DEF TransportInv, TransportTypes, Generations
<1>1. ASSUME NEW age \in Nat, NEW limit \in Nat PROVE Older(age, limit) \in Nat
  BY <1>1 DEF Older
<1>2. ASSUME NEW c \in Connection, NEW n \in Nat, NEW m \in Nat
      PROVE  Kin(c, [c EXCEPT !.beat = n, !.ping = m])
  <2>1. [c EXCEPT !.beat = n] \in Connection
    BY DEF Connection
  <2>2. [[c EXCEPT !.beat = n] EXCEPT !.ping = m] \in Connection
    BY <2>1 DEF Connection
  <2>. QED
    BY <2>2 DEF Kin, Connection
<1>3. ASSUME NEW g \in Generations PROVE Kin(sockets[g], sockets'[g])
  <2>1. Kin(sockets[g], sockets[g])
    BY <1>0 DEF Kin
  <2>2. sockets[g].beat \in Nat /\ sockets[g].ping \in Nat /\ Interval \in Nat /\ Timeout \in Nat
    BY <1>0, TransportAssumption DEF Connection
  <2>3. Older(sockets[g].beat, Interval) \in Nat /\ Older(sockets[g].ping, Timeout) \in Nat
    BY <1>1, <2>2
  <2>4. \/ sockets'[g] = sockets[g]
        \/ \E n, m \in Nat : sockets'[g] = [sockets[g] EXCEPT !.beat = n, !.ping = m]
    BY <2>2, <2>3 DEF tick
  <2>5. ASSUME NEW n \in Nat, NEW m \in Nat, sockets'[g] = [sockets[g] EXCEPT !.beat = n, !.ping = m]
        PROVE  Kin(sockets[g], sockets'[g])
    <3>1. Kin(sockets[g], [sockets[g] EXCEPT !.beat = n, !.ping = m])
      BY <1>0, <1>2
    <3>. QED
      BY <2>5, <3>1
  <2>. QED
    BY <2>1, <2>4, <2>5
<1>4. sockets' \in Seq(Connection) /\ DOMAIN sockets' = DOMAIN sockets
  <2>1. Len(sockets) \in Nat /\ Generations = 1..Len(sockets)
    BY <1>0 DEF TransportTypes, Generations
  <2>2. DOMAIN sockets' = Generations
    BY DEF tick
  <2>3. sockets' \in [1..Len(sockets) -> Connection]
    BY <1>3, <2>1, <2>2 DEF Kin, tick
  <2>4. sockets' \in Seq(Connection)
    BY <2>1, <2>3, SeqDef
  <2>. QED
    BY <2>2, <2>4 DEF Generations
<1>5. UNCHANGED Others
  BY DEF tick, Others
<1>. QED
  BY <1>3, <1>4, <1>5, CalmStep DEF Calm

(* Every step keeps the invariant. *)
LEMMA TransportSteps == TransportInv /\ EventTypes /\ [TNext]_tVars => TransportInv'
<1>. SUFFICES ASSUME TransportInv, EventTypes, [TNext]_tVars PROVE TransportInv'
  OBVIOUS
<1>1. ASSUME Calm, UNCHANGED Others PROVE TransportInv'
  BY <1>1, CalmStep
<1>2. CASE UNCHANGED tVars
  BY <1>1, <1>2 DEF tVars, Calm, Kin, Others, TransportInv, TransportTypes, Generations
<1>3. CASE epoll_wait
  BY <1>1, <1>3 DEF epoll_wait, Calm, Kin, Others, TransportInv, TransportTypes, Generations
<1>4. CASE Peers
  BY <1>4, PeersCalm DEF Peers
<1>5. CASE EventLoop
  BY <1>3, <1>5, AcceptStep, DispatchStep, SweepStep, StaleStep DEF EventLoop
<1>6. ASSUME NEW w \in Crew, Serve(w) PROVE TransportInv'
  BY <1>6, TakeStep, DataStep, FinishStep, CloseStep, CallbackStep DEF Serve
<1>. QED
  BY <1>2, <1>4, <1>5, <1>6, SendStep, TickStep DEF TNext

(* Nothing is connected when the server starts. *)
LEMMA TransportStarts == TInit => TransportInv /\ EventTypes
<1>. SUFFICES ASSUME TInit PROVE TransportInv /\ EventTypes
  OBVIOUS
<1>1. /\ sockets = <<>> /\ called = <<>> /\ Generations = {}
      /\ registry = [d \in Descriptors |-> 0] /\ seat = [d \in Descriptors |-> 0]
      /\ ready = {} /\ batch = <<>> /\ stale = {} /\ backlog = <<>>
      /\ worker = [w \in Crew |-> Resting] /\ sender = 0
  BY DEF TInit, NoConnections, Generations
<1>2. TransportTypes
  BY <1>1 DEF TransportTypes, Resting, WorkerSteps, Generations
<1>3. EventTypes
  BY <1>1, FS_EmptySet DEF EventTypes
<1>4. \A w \in Crew : worker[w].step = "idle"
  BY <1>1 DEF Resting
<1>. QED
  BY <1>1, <1>2, <1>3, <1>4 DEF TransportInv, RegistryKnows, OneHolder, OneProcessor, CallbacksCounted,
     SeatsKnown, CallbackHitsItsOwn, Locking

(* The invariant holds always. *)
LEMMA TransportHolds == TransportSpec => [](TransportInv /\ EventTypes)
BY TransportStarts, TransportSteps, EventSteps, PTL DEF TransportSpec

(* tcp_server.cpp: however many events, sweeps and workers close one       *)
(* connection, the game layer is told of its end exactly once, before the  *)
(* descriptor is anybody else's, and seats nobody after.                   *)
THEOREM CallbacksStayExact == TransportSpec => []CallbackIsExact
<1>1. TransportInv => CallbackIsExact
  <2>. SUFFICES ASSUME TransportInv PROVE CallbackIsExact
    OBVIOUS
  <2>1. NoSeatAfterCallback
    BY DEF TransportInv, SeatsKnown, NoSeatAfterCallback
  <2>2. ASSUME NEW g \in Generations PROVE called[g] <= 1 /\ (~Held(g) => called[g] = 1)
    <3>1. called[g] <= 1
      BY DEF TransportInv, CallbacksCounted
    <3>2. ASSUME ~Held(g) PROVE called[g] = 1
      <4>1. sockets[g] \in Connection
        BY DEF TransportInv, TransportTypes, Generations
      <4>2. sockets[g].fd \in Descriptors /\ sockets[g].retired \in BOOLEAN
        BY <4>1 DEF Connection
      <4>3. sockets[g].retired = TRUE
        BY <3>2, <4>2 DEF Held, TransportInv, RegistryKnows
      <4>4. ~CallsBack(g)
        BY <3>2 DEF CallsBack, Held
      <4>. QED
        BY <4>3, <4>4 DEF TransportInv, CallbacksCounted
    <3>. QED
      BY <3>1, <3>2
  <2>. QED
    BY <2>1, <2>2 DEF TransportInv, CallbackIsExact, OneCallbackEach
<1>. QED
  BY <1>1, TransportHolds, PTL

(* connection.cpp: at the cap of the write buffer a client's stream ends;  *)
(* no frame follows a dropped one, however its peer stalls and whoever     *)
(* sends.                                                                  *)
THEOREM StreamsStayWhole == TransportSpec => []StreamHasNoHole
<1>1. TransportInv => StreamHasNoHole
  <2>. SUFFICES ASSUME TransportInv, NEW g \in Generations PROVE ~sockets[g].gap
    BY DEF StreamHasNoHole
  <2>1. sockets[g] \in Connection
    BY DEF TransportInv, TransportTypes, Generations
  <2>. QED
    BY <2>1 DEF Connection
<1>. QED
  BY <1>1, TransportHolds, PTL

-----------------------------------------------------------------------------
(* The lobby *)

SeatRecord == {s \in [fd : Fds \cup {NoFd}, player : Players \cup {NoPlayer}, connected : BOOLEAN,
                      generation : Nat, born : Nat] :
                  s.fd # NoFd => s.connected = TRUE /\ s.born # 0}
Entry == [fd : Fds, player : Players \cup {NoPlayer}, born : Nat \ {0}]
Watcher == [fd : Fds, born : Nat \ {0}]
RoomRecord == [state : {"WAITING", "IN_PROGRESS", "FINISHED"}, origin : {"create", "ai", "match", "rematch"},
               seat : [Colors -> SeatRecord], offer : Colors \cup {NoColor}, spectators : SUBSET Watcher]
LobbyTypes ==
    /\ connections_ \in [Fds -> Nat] /\ identity \in [Fds -> Players \cup {NoPlayer}]
    /\ next_generation_ \in Nat \ {0}
    /\ rooms \in Seq(RoomRecord) /\ rooms_ \subseteq DOMAIN rooms
    /\ queue \subseteq Entry /\ mutex_ \in Fds \cup {0}
    /\ call = [f \in Fds |-> call[f]]

(* Whoever appears on two seats of unfinished rooms is noted. *)
DoubledKnown == \A f \in Fds : \A x, y \in SeatsOn(f, rooms) :
    x # y => rooms[x[1]].seat[x[2]].born \in doubled

(* The seats that must have an owner. *)
Holds(f, r, c) == /\ r \in Unfinished /\ rooms[r].seat[c].fd = f
                  /\ rooms[r].origin # "rematch" /\ rooms[r].seat[c].born \notin doubled
HeldByOwners == \A f \in Fds, r \in Unfinished, c \in Colors :
    Holds(f, r, c) => StillThere(f, rooms[r].seat[c].born)

(* What a request in progress may rely on: its connection is open, the     *)
(* pair it seats is in the queue while it has the matchmaker, and what a   *)
(* closing connection has already been taken out of it stays out of.       *)
Gone == {"find", "detach", "sweep"}
WithRoom == {"join", "spectate", "resume", "offer", "accept", "accepted", "detach", "pair", "seat"}
CallOk(f) ==
    /\ call[f].op \notin Closing \cup {"idle"} => connections_[f] # 0
    /\ call[f].op \in WithRoom => call[f].room \in DOMAIN rooms
    /\ call[f].op = "pair" => mutex_ = f /\ {call[f].a, call[f].b} \subseteq queue
    /\ call[f].op = "rematch" => call[f].seat \in [Colors -> SeatRecord]
    /\ call[f].op = "seat" => rooms[call[f].room].origin = "rematch" /\ call[f].black \in SeatRecord
    /\ call[f].op \in Gone => ~Queued(f)
    /\ call[f].op = "detach" => \A r \in Unfinished, c \in Colors : Holds(f, r, c) => r = call[f].room
    /\ call[f].op = "sweep" => \A r \in Unfinished, c \in Colors : ~Holds(f, r, c)

LobbyInv == /\ LobbyTypes /\ DoubledKnown /\ HeldByOwners
            /\ QueueHoldsLiveConnections /\ NoGhostSpectators
            /\ \A f \in Fds : CallOk(f)

(* Each rematch room, acceptance under way and open offer had an offer of  *)
(* its own.                                                                *)
RematchRooms == {r \in DOMAIN rooms : rooms[r].origin = "rematch"}
Accepting == {f \in Fds : call[f].op \in {"accepted", "rematch"}}
Offered == {r \in DOMAIN rooms : rooms[r].offer # NoColor}
OffersCounted ==
    /\ offers \in Nat /\ IsFiniteSet(Accepting)
    /\ Cardinality(RematchRooms) + Cardinality(Accepting) + Cardinality(Offered) <= offers

-----------------------------------------------------------------------------
(* A set with two members has more than one. *)
LEMMA TwoOfMany ==
    ASSUME NEW S, IsFiniteSet(S), NEW x \in S, NEW y \in S, x # y
    PROVE  Cardinality(S) > 1
<1>1. Cardinality(S) \in Nat /\ Cardinality(S) # 0
  BY FS_CardinalityType, FS_EmptySet
<1>2. Cardinality(S) # 1
  BY FS_Singleton
<1>. QED
  BY <1>1, <1>2

(* Whatever becomes of the rooms, doubled seats are noted. *)
LEMMA DoublesNoted ==
    ASSUME NEW rs \in Seq(RoomRecord), ChangeRooms(rs)
    PROVE  rooms' = rs /\ doubled \subseteq doubled' /\ DoubledKnown'
<1>1. /\ rooms' = rs
      /\ doubled' = doubled \cup {rs[x[1]].seat[x[2]].born :
            x \in UNION {SeatsOn(f, rs) : f \in {g \in Fds : Cardinality(SeatsOn(g, rs)) > 1}}}
  BY DEF ChangeRooms
<1>2. ASSUME NEW f \in Fds, NEW x \in SeatsOn(f, rs), NEW y \in SeatsOn(f, rs), x # y
      PROVE  rs[x[1]].seat[x[2]].born \in doubled'
  <2>1. IsFiniteSet(DOMAIN rs) /\ IsFiniteSet(Colors)
    <3>1. Len(rs) \in Nat /\ DOMAIN rs = 1..Len(rs)
      OBVIOUS
    <3>2. IsFiniteSet(1..Len(rs))
      BY <3>1, FS_Interval
    <3>3. IsFiniteSet({White} \cup {Black})
      BY FS_Singleton, FS_Union
    <3>4. Colors = {White} \cup {Black}
      BY DEF Colors
    <3>. QED
      BY <3>1, <3>2, <3>3, <3>4
  <2>2. IsFiniteSet((DOMAIN rs) \X Colors)
    BY <2>1, FS_Product
  <2>3. SeatsOn(f, rs) \in SUBSET ((DOMAIN rs) \X Colors)
    BY DEF SeatsOn
  <2>4. IsFiniteSet(SeatsOn(f, rs))
    BY <2>2, <2>3, FS_Subset
  <2>5. Cardinality(SeatsOn(f, rs)) > 1
    BY <1>2, <2>4, TwoOfMany
  <2>. QED
    BY <1>1, <2>5
<1>. QED
  BY <1>1, <1>2 DEF DoubledKnown

(* One room changes. *)
LEMMA RoomSet ==
    ASSUME LobbyTypes, NEW r \in DOMAIN rooms, NEW room \in RoomRecord, SetRoom(r, room)
    PROVE  /\ rooms' \in Seq(RoomRecord) /\ DOMAIN rooms' = DOMAIN rooms /\ rooms'[r] = room
           /\ \A q \in DOMAIN rooms : q # r => rooms'[q] = rooms[q]
           /\ doubled \subseteq doubled' /\ DoubledKnown'
<1>1. ChangeRooms([rooms EXCEPT ![r] = room])
  BY DEF SetRoom
<1>2. [rooms EXCEPT ![r] = room] \in Seq(RoomRecord)
  BY DEF LobbyTypes
<1>3. rooms' = [rooms EXCEPT ![r] = room] /\ doubled \subseteq doubled' /\ DoubledKnown'
  BY <1>1, <1>2, DoublesNoted
<1>. QED
  BY <1>2, <1>3 DEF LobbyTypes

(* A new room has its creator on the white side. *)
LEMMA NewRoomSeats ==
    ASSUME NEW white \in SeatRecord, NEW origin \in {"create", "ai", "match", "rematch"}
    PROVE  /\ NewRoom(white, origin) \in RoomRecord
           /\ NewRoom(white, origin).origin = origin /\ NewRoom(white, origin).offer = NoColor
           /\ NewRoom(white, origin).spectators = {}
           /\ NewRoom(white, origin).seat[White] = white
           /\ NewRoom(white, origin).seat[Black] = Empty
<1>1. Empty \in SeatRecord
  BY DEF Empty, SeatRecord
<1>2. White # Black
  BY DEF White, Black
<1>. QED
  BY <1>1, <1>2 DEF NewRoom, RoomRecord, Colors

(* A room is added. *)
LEMMA RoomAdded ==
    ASSUME LobbyTypes, NEW white \in SeatRecord, NEW origin \in {"create", "ai", "match", "rematch"},
           create_room(white, origin), NEW n, n = Len(rooms) + 1
    PROVE  /\ rooms' \in Seq(RoomRecord) /\ DOMAIN rooms' = DOMAIN rooms \cup {n} /\ n \notin DOMAIN rooms
           /\ rooms'[n] = NewRoom(white, origin)
           /\ \A q \in DOMAIN rooms : rooms'[q] = rooms[q]
           /\ rooms_' = rooms_ \cup {n}
           /\ doubled \subseteq doubled' /\ DoubledKnown'
<1>1. ChangeRooms(Append(rooms, NewRoom(white, origin))) /\ rooms_' = rooms_ \cup {n}
  BY DEF create_room
<1>2. Append(rooms, NewRoom(white, origin)) \in Seq(RoomRecord)
  BY NewRoomSeats DEF LobbyTypes
<1>3. /\ rooms' = Append(rooms, NewRoom(white, origin))
      /\ doubled \subseteq doubled' /\ DoubledKnown'
  BY <1>1, <1>2, DoublesNoted
<1>4. rooms \in Seq(RoomRecord)
  BY DEF LobbyTypes
<1>. HIDE DEF RoomRecord
<1>5. /\ DOMAIN rooms' = DOMAIN rooms \cup {n} /\ n \notin DOMAIN rooms
      /\ rooms'[n] = NewRoom(white, origin)
      /\ \A q \in DOMAIN rooms : rooms'[q] = rooms[q]
  BY <1>2, <1>3, <1>4
<1>. QED
  BY <1>1, <1>2, <1>3, <1>5

(* What a step may do to the seats, the watchers and the rooms: a seat is  *)
(* the one it was or goes to a connection that is there, and so on.        *)
Fresh(s) == s.fd \in Fds /\ StillThere(s.fd, s.born) /\ call[s.fd].op \notin Gone
SeatsKept == \A g \in Fds, r \in DOMAIN rooms', c \in Colors : Holds(g, r, c)' =>
    \/ Holds(g, r, c) /\ rooms'[r].seat[c].born = rooms[r].seat[c].born
    \/ StillThere(g, rooms'[r].seat[c].born) /\ call[g].op \notin Gone
WatchersKept == \A r \in rooms_', s \in Watcher : s \in rooms'[r].spectators =>
    \/ r \in rooms_ /\ s \in rooms[r].spectators
    \/ StillThere(s.fd, s.born)
RoomsKept == \A r \in DOMAIN rooms : r \in DOMAIN rooms' /\ rooms'[r].origin = rooms[r].origin

(* What a step may do to a connection: keep it, or leave nothing of it.    *)
NothingOf(f) == /\ \A r \in Unfinished, c \in Colors : ~Holds(f, r, c)
                /\ ~Queued(f)
                /\ \A r \in rooms_ : \A s \in rooms[r].spectators : s.fd # f
Keeps(f) == \/ \A b \in Nat \ {0} : StillThere(f, b) => StillThere(f, b)'
            \/ NothingOf(f)'

(* A step of the connections in some set keeps what the others rely on.    *)
LEMMA LobbyStep ==
    ASSUME LobbyInv, LobbyTypes', DoubledKnown', SeatsKept, WatchersKept, RoomsKept,
           NEW M \in SUBSET Fds,
           \A g \in Fds \ M : call'[g] = call[g] /\ connections_'[g] = connections_[g],
           \A g \in Fds \ M : call[g].op = "pair" =>
              mutex_' = mutex_ /\ {call[g].a, call[g].b} \subseteq queue',
           \A e \in queue' : e \in queue \/ (e.fd \in M /\ StillThere(e.fd, e.born)'),
           \A f \in M : CallOk(f)' /\ Keeps(f)
    PROVE  LobbyInv'
<1>. USE DEF LobbyInv
<1>1. \A g \in Fds \ M : \A b : StillThere(g, b)' <=> StillThere(g, b)
  BY DEF StillThere
<1>2. \A g \in Fds, b \in Nat \ {0} : StillThere(g, b) => StillThere(g, b)' \/ NothingOf(g)'
  BY <1>1 DEF Keeps
<1>3. ASSUME NEW g \in Fds, NEW r \in Unfinished', NEW c \in Colors, Holds(g, r, c)'
      PROVE  StillThere(g, rooms[r].seat[c].born)'
  <2>1. r \in DOMAIN rooms' /\ rooms'[r] \in RoomRecord
    BY <1>3 DEF LobbyTypes, Unfinished
  <2>2. rooms'[r].seat[c] \in SeatRecord
    BY <2>1 DEF RoomRecord
  <2>3. g # NoFd /\ rooms'[r].seat[c].fd = g
    BY <1>3, LobbyAssumption DEF Holds, NoFd
  <2>4. rooms'[r].seat[c].born \in Nat \ {0}
    BY <2>2, <2>3 DEF SeatRecord
  <2>5. Holds(g, r, c) => r \in Unfinished
    BY DEF Holds
  <2>6. StillThere(g, rooms'[r].seat[c].born)
    BY <1>3, <2>1, <2>5 DEF SeatsKept, HeldByOwners
  <2>7. ~NothingOf(g)'
    BY <1>3 DEF NothingOf
  <2>. QED
    BY <1>2, <2>4, <2>6, <2>7
<1>4. HeldByOwners'
  BY <1>3 DEF HeldByOwners
<1>5. QueueHoldsLiveConnections'
  <2>1. ASSUME NEW e \in queue' PROVE StillThere(e.fd, e.born)'
    <3>1. e.fd \in Fds /\ e.born \in Nat \ {0}
      BY <2>1 DEF LobbyTypes, Entry
    <3>2. CASE e \in queue
      BY <1>2, <2>1, <3>1, <3>2 DEF QueueHoldsLiveConnections, NothingOf, Queued
    <3>3. CASE e.fd \in M /\ StillThere(e.fd, e.born)'
      BY <3>3
    <3>. QED
      BY <2>1, <3>2, <3>3
  <2>. QED
    BY <2>1 DEF QueueHoldsLiveConnections
<1>6. NoGhostSpectators'
  <2>1. ASSUME NEW r \in rooms_', NEW s \in rooms'[r].spectators PROVE StillThere(s.fd, s.born)'
    <3>1. rooms'[r] \in RoomRecord
      BY <2>1 DEF LobbyTypes
    <3>2. s \in Watcher
      BY <2>1, <3>1 DEF RoomRecord
    <3>3. s.fd \in Fds /\ s.born \in Nat \ {0}
      BY <3>2 DEF Watcher
    <3>4. StillThere(s.fd, s.born)
      BY <2>1, <3>2 DEF WatchersKept, NoGhostSpectators
    <3>5. ~NothingOf(s.fd)'
      BY <2>1 DEF NothingOf
    <3>. QED
      BY <1>2, <3>3, <3>4, <3>5
  <2>. QED
    BY <2>1 DEF NoGhostSpectators
<1>7. ASSUME NEW g \in Fds \ M PROVE CallOk(g)'
  <2>0. call'[g] = call[g] /\ connections_'[g] = connections_[g] /\ CallOk(g)
    OBVIOUS
  <2>1. call'[g].op \notin Closing \cup {"idle"} => connections_'[g] # 0
    BY <2>0 DEF CallOk
  <2>2. call'[g].op \in WithRoom => call'[g].room \in DOMAIN rooms'
    BY <2>0 DEF CallOk, RoomsKept
  <2>3. call'[g].op = "pair" => mutex_' = g /\ {call'[g].a, call'[g].b} \subseteq queue'
    BY <2>0 DEF CallOk
  <2>4. call'[g].op = "seat" => rooms'[call'[g].room].origin = "rematch" /\ call'[g].black \in SeatRecord
    BY <2>0 DEF CallOk, RoomsKept, WithRoom
  <2>5. call'[g].op \in Gone => ~Queued(g)'
    BY <2>0 DEF CallOk, Queued
  <2>6. ASSUME NEW r \in Unfinished', NEW c \in Colors, call[g].op \in Gone, Holds(g, r, c)'
        PROVE  Holds(g, r, c) /\ r \in Unfinished
    <3>1. r \in DOMAIN rooms'
      BY <2>6 DEF LobbyTypes, Unfinished
    <3>. QED
      BY <2>6, <3>1 DEF SeatsKept, Holds
  <2>7. call'[g].op = "detach" => \A r \in Unfinished', c \in Colors : Holds(g, r, c)' => r = call'[g].room
    BY <2>0, <2>6 DEF CallOk, Gone
  <2>8. call'[g].op = "sweep" => \A r \in Unfinished', c \in Colors : ~Holds(g, r, c)'
    BY <2>0, <2>6 DEF CallOk, Gone
  <2>9. call'[g].op = "rematch" => call'[g].seat \in [Colors -> SeatRecord]
    BY <2>0 DEF CallOk
  <2>. QED
    BY <2>1, <2>2, <2>3, <2>4, <2>5, <2>7, <2>8, <2>9 DEF CallOk
<1>. QED
  BY <1>4, <1>5, <1>6, <1>7

(* Rooms that stay as they are. *)
LEMMA RoomsStay ==
    ASSUME LobbyInv, UNCHANGED <<rooms, rooms_, doubled>>
    PROVE  SeatsKept /\ WatchersKept /\ RoomsKept /\ DoubledKnown'
BY DEF LobbyInv, SeatsKept, WatchersKept, RoomsKept, DoubledKnown, Holds, Unfinished, SeatsOn

(* One room changes, some of its seats going to connections that are       *)
(* there.                                                                  *)
LEMMA RoomMoves ==
    ASSUME LobbyInv, NEW r \in DOMAIN rooms, NEW room \in RoomRecord, SetRoom(r, room), rooms_' \subseteq rooms_,
           room.origin = rooms[r].origin, rooms[r].state = "FINISHED" => room.state = "FINISHED",
           \A c \in Colors : \/ room.seat[c] = rooms[r].seat[c] \/ room.seat[c].fd = NoFd
                             \/ room.origin = "rematch" \/ Fresh(room.seat[c]),
           \A s \in room.spectators : s \in rooms[r].spectators \/ StillThere(s.fd, s.born)
    PROVE  SeatsKept /\ WatchersKept /\ RoomsKept /\ DoubledKnown' /\ rooms' \in Seq(RoomRecord)
           /\ rooms'[r] = room /\ DOMAIN rooms' = DOMAIN rooms /\ rooms_' \subseteq DOMAIN rooms'
<1>1. /\ rooms' \in Seq(RoomRecord) /\ DOMAIN rooms' = DOMAIN rooms /\ rooms'[r] = room
      /\ \A q \in DOMAIN rooms : q # r => rooms'[q] = rooms[q]
      /\ doubled \subseteq doubled' /\ DoubledKnown'
  BY RoomSet DEF LobbyInv
<1>2. RoomsKept /\ rooms_ \subseteq DOMAIN rooms
  BY <1>1 DEF RoomsKept, LobbyInv, LobbyTypes
<1>3. WatchersKept
  BY <1>1, <1>2 DEF WatchersKept
<1>4. ASSUME NEW g \in Fds, NEW q \in DOMAIN rooms', NEW c \in Colors, Holds(g, q, c)'
      PROVE  \/ Holds(g, q, c) /\ rooms'[q].seat[c].born = rooms[q].seat[c].born
             \/ StillThere(g, rooms'[q].seat[c].born) /\ call[g].op \notin Gone
  <2>1. /\ q \in rooms_ /\ rooms'[q].state # "FINISHED" /\ rooms'[q].seat[c].fd = g
        /\ rooms'[q].origin # "rematch" /\ rooms'[q].seat[c].born \notin doubled
    BY <1>1, <1>4 DEF Holds, Unfinished
  <2>2. CASE rooms'[q].seat[c] = rooms[q].seat[c]
    <3>1. rooms[q].state # "FINISHED" /\ rooms[q].origin # "rematch"
      BY <1>1, <2>1
    <3>. QED
      BY <2>1, <2>2, <3>1 DEF Holds, Unfinished
  <2>3. CASE q = r /\ Fresh(room.seat[c])
    BY <1>1, <2>1, <2>3 DEF Fresh
  <2>4. g # NoFd
    BY LobbyAssumption DEF NoFd
  <2>. QED
    BY <1>1, <2>1, <2>2, <2>3, <2>4
<1>. QED
  BY <1>1, <1>2, <1>3, <1>4 DEF SeatsKept

(* A room is added for a connection that is there, or for a rematch. *)
LEMMA RoomComes ==
    ASSUME LobbyInv, NEW white \in SeatRecord, NEW origin \in {"create", "ai", "match", "rematch"},
           create_room(white, origin), Fresh(white) \/ origin = "rematch", NEW n, n = Len(rooms) + 1
    PROVE  SeatsKept /\ WatchersKept /\ RoomsKept /\ DoubledKnown' /\ rooms' \in Seq(RoomRecord)
           /\ rooms'[n] = NewRoom(white, origin) /\ DOMAIN rooms' = DOMAIN rooms \cup {n}
           /\ n \notin DOMAIN rooms /\ rooms_' \subseteq DOMAIN rooms'
<1>1. /\ rooms' \in Seq(RoomRecord) /\ DOMAIN rooms' = DOMAIN rooms \cup {n} /\ n \notin DOMAIN rooms
      /\ rooms'[n] = NewRoom(white, origin)
      /\ \A q \in DOMAIN rooms : rooms'[q] = rooms[q]
      /\ rooms_' = rooms_ \cup {n}
      /\ doubled \subseteq doubled' /\ DoubledKnown'
  BY RoomAdded DEF LobbyInv
<1>2. /\ rooms'[n].origin = origin /\ rooms'[n].spectators = {}
      /\ rooms'[n].seat[White] = white /\ rooms'[n].seat[Black].fd = NoFd
  BY <1>1, NewRoomSeats DEF Empty
<1>3. RoomsKept /\ rooms_ \subseteq DOMAIN rooms
  BY <1>1 DEF RoomsKept, LobbyInv, LobbyTypes
<1>4. WatchersKept
  BY <1>1, <1>2, <1>3 DEF WatchersKept
<1>5. ASSUME NEW g \in Fds, NEW q \in DOMAIN rooms', NEW c \in Colors, Holds(g, q, c)'
      PROVE  \/ Holds(g, q, c) /\ rooms'[q].seat[c].born = rooms[q].seat[c].born
             \/ StillThere(g, rooms'[q].seat[c].born) /\ call[g].op \notin Gone
  <2>1. /\ q \in rooms_' /\ rooms'[q].state # "FINISHED" /\ rooms'[q].seat[c].fd = g
        /\ rooms'[q].origin # "rematch" /\ rooms'[q].seat[c].born \notin doubled
    BY <1>1, <1>5 DEF Holds, Unfinished
  <2>2. CASE q \in DOMAIN rooms
    BY <1>1, <2>1, <2>2 DEF Holds, Unfinished
  <2>3. CASE q = n
    <3>1. g # NoFd /\ (c = White \/ c = Black)
      BY LobbyAssumption DEF NoFd, Colors
    <3>. QED
      BY <1>2, <2>1, <2>3, <3>1 DEF Fresh
  <2>. QED
    BY <1>1, <2>2, <2>3
<1>. QED
  BY <1>1, <1>3, <1>4, <1>5 DEF SeatsKept

(* A connection takes up a request, goes on with it or ends it. *)
LEMMA Ran ==
    ASSUME LobbyTypes, NEW f \in Fds, NEW c, Run(f, c)
    PROVE  /\ call'[f] = c /\ call' = [g \in Fds |-> call'[g]]
           /\ \A g \in Fds \ {f} : call'[g] = call[g]
BY DEF LobbyTypes, Run

(* The step of one connection that neither opens nor closes it. *)
LEMMA Moves ==
    ASSUME LobbyInv, NEW f \in Fds, NEW c, Run(f, c), UNCHANGED connVars,
           SeatsKept, WatchersKept, RoomsKept, DoubledKnown',
           rooms' \in Seq(RoomRecord), rooms_' \subseteq DOMAIN rooms',
           \/ UNCHANGED <<queue, mutex_>>
           \/ /\ mutex_ \in {0, f} /\ mutex_' \in Fds \cup {0} /\ queue' \subseteq Entry
              /\ \A e \in queue' : e \in queue \/ (e.fd = f /\ StillThere(f, e.born)'),
           call[f].op \in Closing => (c.op \in Closing /\ c.gen = call[f].gen) \/ NothingOf(f)',
           CallOk(f)'
    PROVE  LobbyInv'
<1>. USE DEF LobbyInv
<1>1. /\ call'[f] = c /\ call' = [g \in Fds |-> call'[g]]
      /\ \A g \in Fds \ {f} : call'[g] = call[g]
  BY Ran
<1>2. LobbyTypes'
  BY <1>1 DEF LobbyTypes, connVars
<1>3. connections_' = connections_
  BY DEF connVars
<1>4. \A g \in Fds \ {f} : call[g].op = "pair" => mutex_ = g /\ {call[g].a, call[g].b} \subseteq queue
  BY DEF CallOk
<1>5. \A g \in Fds \ {f} : call[g].op = "pair" =>
         mutex_' = mutex_ /\ {call[g].a, call[g].b} \subseteq queue'
  BY <1>4, LobbyAssumption
<1>6. \A e \in queue' : e \in queue \/ (e.fd \in {f} /\ StillThere(e.fd, e.born)')
  OBVIOUS
<1>7. Keeps(f)
  <2>1. CASE NothingOf(f)'
    BY <2>1 DEF Keeps
  <2>2. CASE ~NothingOf(f)'
    BY <1>1, <1>3, <2>2 DEF Keeps, StillThere
  <2>. QED
    BY <2>1, <2>2
<1>. HIDE DEF LobbyInv
<1>. QED
  BY <1>1, <1>2, <1>3, <1>5, <1>6, <1>7, LobbyStep, {f} \in SUBSET Fds

(* The step of no connection: the rooms change, or entries leave a queue   *)
(* nobody holds.                                                           *)
LEMMA NothingMoves ==
    ASSUME LobbyInv, UNCHANGED <<connVars, call, mutex_>>,
           SeatsKept, WatchersKept, RoomsKept, DoubledKnown',
           rooms' \in Seq(RoomRecord), rooms_' \subseteq DOMAIN rooms',
           queue' \subseteq queue, queue' = queue \/ mutex_ = 0
    PROVE  LobbyInv'
<1>. USE DEF LobbyInv
<1>1. LobbyTypes'
  BY DEF LobbyTypes, connVars
<1>2. connections_' = connections_
  BY DEF connVars
<1>3. \A g \in Fds : call[g].op = "pair" => mutex_ = g /\ {call[g].a, call[g].b} \subseteq queue
  BY DEF CallOk
<1>4. \A g \in Fds \ {} : call[g].op = "pair" =>
         mutex_' = mutex_ /\ {call[g].a, call[g].b} \subseteq queue'
  BY <1>3, LobbyAssumption
<1>. HIDE DEF LobbyInv
<1>. QED
  BY <1>1, <1>2, <1>4, LobbyStep, {} \in SUBSET Fds

(* A request that ends has nothing to rely on. *)
LEMMA IdleOk ==
    ASSUME NEW f \in Fds, call'[f] = Idle
    PROVE  CallOk(f)'
BY DEF CallOk, Idle, Closing, WithRoom, Gone

(* The seat of a connection that is open. *)
LEMMA MySeatFresh ==
    ASSUME LobbyInv, NEW f \in Fds, call[f].op \notin Closing \cup {"idle"}
    PROVE  /\ MySeat(f) \in SeatRecord /\ Fresh(MySeat(f)) /\ connections_[f] \in Nat \ {0}
           /\ MySeat(f) # Empty
<1>1. connections_[f] \in Nat \ {0} /\ identity[f] \in Players \cup {NoPlayer}
  BY DEF LobbyInv, LobbyTypes, CallOk
<1>2. f # NoFd
  BY LobbyAssumption DEF NoFd
<1>. QED
  BY <1>1, <1>2 DEF MySeat, Seat, SeatRecord, Fresh, StillThere, Closing, Gone, Empty

(* The seat of an entry of the queue. *)
LEMMA EntryFresh ==
    ASSUME LobbyInv, NEW e \in queue
    PROVE  Seat(e.fd, e.player, e.born) \in SeatRecord /\ Fresh(Seat(e.fd, e.player, e.born))
<1>1. e \in Entry /\ StillThere(e.fd, e.born)
  BY DEF LobbyInv, LobbyTypes, QueueHoldsLiveConnections
<1>2. call[e.fd].op \notin Gone
  BY <1>1 DEF LobbyInv, CallOk, Queued, Entry
<1>. QED
  BY <1>1, <1>2 DEF Entry, Seat, SeatRecord, Fresh

(* The black seat of a waiting room goes to whoever joins it. *)
LEMMA Joined ==
    ASSUME NEW room \in RoomRecord, NEW black \in SeatRecord
    PROVE  /\ join(room, black) \in RoomRecord /\ join(room, black).origin = room.origin
           /\ join(room, black).offer = room.offer
           /\ join(room, black).spectators = room.spectators
           /\ room.state = "FINISHED" => join(room, black).state = "FINISHED"
           /\ \A c \in Colors : \/ join(room, black).seat[c] = room.seat[c]
                                \/ join(room, black).seat[c] = black
<1>1. CASE room.state = "WAITING" /\ room.seat[Black] = Empty
  <2>1. join(room, black) = [[room EXCEPT !.seat[Black] = black] EXCEPT !.state = "IN_PROGRESS"]
    BY <1>1 DEF join, RoomRecord
  <2>2. [room EXCEPT !.seat[Black] = black] \in RoomRecord
    BY DEF RoomRecord, Colors
  <2>. QED
    BY <1>1, <2>1, <2>2 DEF RoomRecord, Colors
<1>2. CASE ~(room.state = "WAITING" /\ room.seat[Black] = Empty)
  BY <1>2 DEF join
<1>. QED
  BY <1>1, <1>2

(* A request for a game that is let through. *)
LEMMA RequestRuns ==
    ASSUME NEW f \in Fds, RequestGame(f)
    PROVE  \E c : /\ Run(f, c)
                  /\ \/ c.op \in {"create", "ai", "queue"}
                     \/ c.op \in {"join", "spectate"} /\ c.room \in rooms_
<1>1. CASE \E op \in {"create", "ai"} : Run(f, [op |-> op])
  <2>1. PICK op, c :
                 /\ op \in {"create", "ai"}
                 /\ c = [op |-> op]
                 /\ Run(f, c)
    BY <1>1
  <2>. QED
    BY <2>1
<1>2. CASE Run(f, [op |-> "queue"])
  <2>1. PICK c : c = [op |-> "queue"] /\ Run(f, c)
    BY <1>2
  <2>. QED
    BY <2>1
<1>3. CASE \E r \in rooms_, op \in {"join", "spectate"} : Run(f, [op |-> op, room |-> r])
  <2>1. PICK r, op, c :
                 /\ r \in rooms_
                 /\ op \in {"join", "spectate"}
                 /\ c = [op |-> op, room |-> r]
                 /\ Run(f, c)
    BY <1>3
  <2>. QED
    BY <2>1
<1>. QED
  BY <1>1, <1>2, <1>3 DEF RequestGame

(* The requests that make, join or watch a game. *)
LEMMA RequestGameStep ==
    ASSUME LobbyInv, NEW f \in Fds, RequestGame(f)
    PROVE  LobbyInv'
<1>1. call[f] = Idle /\ connections_[f] # 0 /\ UNCHANGED <<connVars, rooms, doubled, rooms_, queue, mutex_>>
  BY DEF RequestGame, Free
<1>2. PICK c : /\ Run(f, c)
               /\ \/ c.op \in {"create", "ai", "queue"}
                  \/ c.op \in {"join", "spectate"} /\ c.room \in rooms_
  BY RequestRuns
<1>3. call'[f] = c /\ connections_' = connections_ /\ rooms' = rooms /\ rooms_ \subseteq DOMAIN rooms
  BY <1>1, <1>2, Ran DEF LobbyInv, LobbyTypes, connVars
<1>4. CallOk(f)'
  BY <1>1, <1>2, <1>3 DEF CallOk, Closing, WithRoom, Gone
<1>5. rooms \in Seq(RoomRecord) /\ call[f].op \notin Closing
  BY <1>1 DEF LobbyInv, LobbyTypes, Idle, Closing
<1>. QED
  BY <1>1, <1>2, <1>3, <1>4, <1>5, RoomsStay, Moves

LEMMA CreateGameStep ==
    ASSUME LobbyInv, NEW f \in Fds, CreateGame(f)
    PROVE  LobbyInv'
<1>1. /\ call[f].op \in {"create", "ai"} /\ create_room(MySeat(f), call[f].op)
      /\ Run(f, Idle) /\ UNCHANGED <<connVars, queue, mutex_>>
  BY DEF CreateGame
<1>2. call[f].op \notin Closing \cup {"idle"}
  BY <1>1 DEF Closing
<1>3. PICK n : n = Len(rooms) + 1
  OBVIOUS
<1>4. /\ SeatsKept /\ WatchersKept /\ RoomsKept /\ DoubledKnown' /\ rooms' \in Seq(RoomRecord)
      /\ rooms_' \subseteq DOMAIN rooms'
  BY <1>1, <1>2, <1>3, MySeatFresh, RoomComes
<1>5. CallOk(f)'
  BY <1>1, Ran, IdleOk DEF LobbyInv
<1>. QED
  BY <1>1, <1>2, <1>4, <1>5, Moves

LEMMA JoinGameStep ==
    ASSUME LobbyInv, NEW f \in Fds, JoinGame(f)
    PROVE  LobbyInv'
<1>1. /\ call[f].op = "join" /\ SetRoom(call[f].room, join(rooms[call[f].room], MySeat(f)))
      /\ Run(f, Idle) /\ UNCHANGED <<connVars, rooms_, queue, mutex_>>
  BY DEF JoinGame
<1>2. call[f].op \notin Closing \cup {"idle"} /\ call[f].room \in DOMAIN rooms
  BY <1>1 DEF LobbyInv, CallOk, Closing, WithRoom
<1>3. PICK r \in DOMAIN rooms : r = call[f].room
  BY <1>2
<1>4. rooms[r] \in RoomRecord
  BY DEF LobbyInv, LobbyTypes
<1>5. PICK room : room = join(rooms[r], MySeat(f))
  OBVIOUS
<1>6. /\ room \in RoomRecord /\ room.origin = rooms[r].origin
      /\ room.spectators = rooms[r].spectators
      /\ rooms[r].state = "FINISHED" => room.state = "FINISHED"
      /\ \A c \in Colors : room.seat[c] = rooms[r].seat[c] \/ room.seat[c] = MySeat(f)
  BY <1>2, <1>4, <1>5, Joined, MySeatFresh
<1>7. \A c \in Colors : room.seat[c] = rooms[r].seat[c] \/ Fresh(room.seat[c])
  BY <1>2, <1>6, MySeatFresh
<1>8. SetRoom(r, room)
  BY <1>1, <1>3, <1>5
<1>9. /\ SeatsKept /\ WatchersKept /\ RoomsKept /\ DoubledKnown' /\ rooms' \in Seq(RoomRecord)
      /\ rooms_' \subseteq DOMAIN rooms'
  BY <1>1, <1>6, <1>7, <1>8, RoomMoves
<1>10. CallOk(f)'
  BY <1>1, Ran, IdleOk DEF LobbyInv
<1>. QED
  BY <1>1, <1>2, <1>9, <1>10, Moves

LEMMA SpectateStep ==
    ASSUME LobbyInv, NEW f \in Fds, Spectate(f)
    PROVE  LobbyInv'
<1>1. call[f].op = "spectate" /\ Run(f, Idle) /\ UNCHANGED <<connVars, rooms_, queue, mutex_>>
  BY DEF Spectate
<1>2. call[f].op \notin Closing \cup {"idle"} /\ call[f].room \in DOMAIN rooms
  BY <1>1 DEF LobbyInv, CallOk, Closing, WithRoom
<1>3. PICK r \in DOMAIN rooms : r = call[f].room
  BY <1>2
<1>4. rooms[r] \in RoomRecord
  BY DEF LobbyInv, LobbyTypes
<1>5. PICK w : w = [fd |-> f, born |-> connections_[f]]
  OBVIOUS
<1>6. w \in Watcher /\ StillThere(w.fd, w.born)
  BY <1>2, <1>5, MySeatFresh DEF Watcher, StillThere
<1>7. PICK room : /\ SetRoom(r, room)
                  /\ room = rooms[r] \/ room = [rooms[r] EXCEPT !.spectators = @ \cup {w}]
  BY <1>3, <1>5 DEF Spectate
<1>8. /\ room \in RoomRecord /\ room.origin = rooms[r].origin /\ room.seat = rooms[r].seat
      /\ room.state = rooms[r].state
      /\ \A s \in room.spectators : s \in rooms[r].spectators \/ StillThere(s.fd, s.born)
  BY <1>4, <1>6, <1>7 DEF RoomRecord
<1>9. /\ SeatsKept /\ WatchersKept /\ RoomsKept /\ DoubledKnown' /\ rooms' \in Seq(RoomRecord)
      /\ rooms_' \subseteq DOMAIN rooms'
  BY <1>1, <1>7, <1>8, RoomMoves
<1>10. CallOk(f)'
  BY <1>1, Ran, IdleOk DEF LobbyInv
<1>. QED
  BY <1>1, <1>2, <1>9, <1>10, Moves

(* Quick play: the queue and the pairing. *)
LEMMA EnqueueStep ==
    ASSUME LobbyInv, NEW f \in Fds, Enqueue(f)
    PROVE  LobbyInv'
<1>1. PICK e : /\ e = [fd |-> f, player |-> identity[f], born |-> connections_[f]]
               /\ queue' = queue \cup {e}
  BY DEF Enqueue
<1>2. PICK c : Run(f, c) /\ c.op = "match"
  BY DEF Enqueue
<1>3. /\ call[f].op = "queue" /\ mutex_ = 0 /\ mutex_' = mutex_
      /\ UNCHANGED <<connVars, rooms, doubled, rooms_>>
  BY DEF Enqueue
<1>4. call[f].op \notin Closing \cup {"idle"}
  BY <1>3 DEF Closing
<1>5. /\ rooms \in Seq(RoomRecord) /\ rooms_ \subseteq DOMAIN rooms /\ queue \subseteq Entry
      /\ identity[f] \in Players \cup {NoPlayer}
  BY DEF LobbyInv, LobbyTypes
<1>6. e \in Entry /\ connections_[f] \in Nat \ {0} /\ StillThere(f, e.born)
  BY <1>1, <1>4, <1>5, MySeatFresh DEF Entry, StillThere
<1>7. queue' \subseteq Entry /\ mutex_' \in Fds \cup {0} /\ mutex_ \in {0, f}
  BY <1>1, <1>3, <1>5, <1>6
<1>8. call'[f] = c /\ connections_' = connections_
  BY <1>2, <1>3, Ran DEF LobbyInv, connVars
<1>9. CallOk(f)'
  BY <1>2, <1>6, <1>8 DEF CallOk, Closing, WithRoom, Gone
<1>10. \A d \in queue' : d \in queue \/ (d.fd = f /\ StillThere(f, d.born)')
  BY <1>1, <1>8 DEF StillThere
<1>11. SeatsKept /\ WatchersKept /\ RoomsKept /\ DoubledKnown' /\ rooms' = rooms /\ rooms_' = rooms_
  BY <1>3, RoomsStay
<1>. QED
  BY <1>2, <1>3, <1>4, <1>5, <1>7, <1>9, <1>10, <1>11, Moves

LEMMA MatchCreateStep ==
    ASSUME LobbyInv, NEW f \in Fds, MatchCreate(f)
    PROVE  LobbyInv'
<1>1. /\ call[f].op = "match" /\ mutex_ \in {0, f} /\ mutex_' = f
      /\ UNCHANGED <<connVars, queue>>
  BY DEF MatchCreate
<1>2. PICK a \in queue, b \in queue :
         /\ create_room(Seat(a.fd, a.player, a.born), "match")
         /\ Run(f, [op |-> "pair", room |-> Len(rooms) + 1, a |-> a, b |-> b])
  BY DEF MatchCreate
<1>3. PICK n : n = Len(rooms) + 1
  OBVIOUS
<1>4. call[f].op \notin Closing \cup {"idle"}
  BY <1>1 DEF Closing
<1>5. /\ SeatsKept /\ WatchersKept /\ RoomsKept /\ DoubledKnown' /\ rooms' \in Seq(RoomRecord)
      /\ rooms_' \subseteq DOMAIN rooms' /\ n \in DOMAIN rooms'
  <2>1. PICK s : s = Seat(a.fd, a.player, a.born)
    OBVIOUS
  <2>2. s \in SeatRecord /\ Fresh(s) /\ create_room(s, "match")
    BY <1>2, <2>1, EntryFresh
  <2>. QED
    BY <1>3, <2>2, RoomComes
<1>6. /\ call'[f] = [op |-> "pair", room |-> n, a |-> a, b |-> b]
      /\ connections_' = connections_ /\ connections_[f] # 0
  BY <1>1, <1>2, <1>3, <1>4, Ran, MySeatFresh DEF LobbyInv, connVars
<1>7. CallOk(f)'
  BY <1>1, <1>2, <1>5, <1>6 DEF CallOk, Closing, WithRoom, Gone
<1>8. queue' \subseteq Entry /\ mutex_' \in Fds \cup {0}
  BY <1>1 DEF LobbyInv, LobbyTypes
<1>9. \A d \in queue' : d \in queue
  BY <1>1
<1>10. PICK c : Run(f, c)
  BY <1>2
<1>. QED
  BY <1>1, <1>4, <1>5, <1>7, <1>8, <1>9, <1>10, Moves

LEMMA MatchJoinStep ==
    ASSUME LobbyInv, NEW f \in Fds, MatchJoin(f)
    PROVE  LobbyInv'
<1>1. /\ call[f].op = "pair" /\ UNCHANGED <<connVars, rooms_, mutex_>>
      /\ queue' = queue \ {call[f].a, call[f].b}
  BY DEF MatchJoin
<1>2. /\ call[f].op \notin Closing \cup {"idle"} /\ call[f].room \in DOMAIN rooms
      /\ mutex_ = f /\ call[f].b \in queue
  BY <1>1 DEF LobbyInv, CallOk, Closing, WithRoom
<1>3. PICK r, b, black :
               /\ r \in DOMAIN rooms
               /\ b \in queue
               /\ r = call[f].room /\ b = call[f].b
               /\ black = Seat(b.fd, b.player, b.born)
  BY <1>2
<1>4. rooms[r] \in RoomRecord /\ queue \subseteq Entry
  BY <1>3 DEF LobbyInv, LobbyTypes
<1>5. black \in SeatRecord /\ Fresh(black)
  BY <1>3, EntryFresh
<1>6. PICK room : room = join(rooms[r], black) /\ SetRoom(r, room)
  BY <1>3 DEF MatchJoin
<1>7. /\ room \in RoomRecord /\ room.origin = rooms[r].origin
      /\ room.spectators = rooms[r].spectators
      /\ rooms[r].state = "FINISHED" => room.state = "FINISHED"
      /\ \A c \in Colors : room.seat[c] = rooms[r].seat[c] \/ room.seat[c] = black
  BY <1>4, <1>5, <1>6, Joined
<1>8. \A c \in Colors : room.seat[c] = rooms[r].seat[c] \/ Fresh(room.seat[c])
  BY <1>5, <1>7
<1>9. /\ SeatsKept /\ WatchersKept /\ RoomsKept /\ DoubledKnown' /\ rooms' \in Seq(RoomRecord)
      /\ rooms_' \subseteq DOMAIN rooms'
  BY <1>1, <1>3, <1>6, <1>7, <1>8, RoomMoves
<1>10. PICK c : Run(f, c) /\ c.op = "match"
  BY DEF MatchJoin
<1>11. call'[f] = c /\ connections_' = connections_ /\ connections_[f] # 0
  BY <1>1, <1>2, <1>10, Ran, MySeatFresh DEF LobbyInv, connVars
<1>12. CallOk(f)'
  BY <1>10, <1>11 DEF CallOk, Closing, WithRoom, Gone
<1>13. queue' \subseteq Entry /\ mutex_' \in Fds \cup {0} /\ \A d \in queue' : d \in queue
  BY <1>1, <1>2, <1>4
<1>. QED
  BY <1>1, <1>2, <1>9, <1>10, <1>12, <1>13, Moves

LEMMA MatchDoneStep ==
    ASSUME LobbyInv, NEW f \in Fds, MatchDone(f)
    PROVE  LobbyInv'
<1>1. /\ call[f].op = "match" /\ mutex_ \in {0, f} /\ mutex_' = 0 /\ Run(f, Idle)
      /\ UNCHANGED <<connVars, rooms, doubled, rooms_, queue>>
  BY DEF MatchDone
<1>2. call[f].op \notin Closing
  BY <1>1 DEF Closing
<1>3. rooms \in Seq(RoomRecord) /\ rooms_ \subseteq DOMAIN rooms /\ queue \subseteq Entry
  BY DEF LobbyInv, LobbyTypes
<1>4. CallOk(f)'
  BY <1>1, Ran, IdleOk DEF LobbyInv
<1>5. SeatsKept /\ WatchersKept /\ RoomsKept /\ DoubledKnown' /\ rooms' = rooms /\ rooms_' = rooms_
  BY <1>1, RoomsStay
<1>6. queue' \subseteq Entry /\ mutex_' \in Fds \cup {0} /\ \A d \in queue' : d \in queue
  BY <1>1, <1>3
<1>. QED
  BY <1>1, <1>2, <1>3, <1>4, <1>5, <1>6, Moves

LEMMA CancelQueueStep ==
    ASSUME LobbyInv, NEW f \in Fds, CancelQueue(f)
    PROVE  LobbyInv'
<1>1. /\ mutex_ = 0 /\ queue' \subseteq queue
      /\ UNCHANGED <<connVars, rooms, doubled, rooms_, mutex_, call>>
  BY DEF CancelQueue, dequeue
<1>2. SeatsKept /\ WatchersKept /\ RoomsKept /\ DoubledKnown' /\ rooms' = rooms /\ rooms_' = rooms_
  BY <1>1, RoomsStay
<1>3. rooms \in Seq(RoomRecord) /\ rooms_ \subseteq DOMAIN rooms
  BY DEF LobbyInv, LobbyTypes
<1>. QED
  BY <1>1, <1>2, <1>3, NothingMoves

(* The greatest of some natural numbers below a bound is one of them.       *)
LEMMA GreatestOfMany ==
    ASSUME NEW n \in Nat, NEW S \in SUBSET (1..n), S # {}
    PROVE  Max(S) \in S
<1>1. PICK T \in SUBSET Nat : T = {y \in Nat : n - y \in S}
  OBVIOUS
<1>2. \A x \in S : x \in Int /\ n - x \in T /\ n - (n - x) = x
  <2>1. TAKE x \in S
  <2>2. x \in 1..n
    OBVIOUS
  <2>3. n - x \in Nat /\ n - (n - x) = x
    BY <2>2
  <2>. QED
    BY <1>1, <2>2, <2>3
<1>3. PICK R : R = {ss \in Nat \X Nat : ss[1] < ss[2]} /\ IsWellFoundedOn(R, Nat)
  BY NatLessThanWellFounded DEF OpToRel
<1>4. T # {} /\ T \subseteq Nat
  BY <1>2
<1>5. \E t \in T : \A y \in T : ~(<<y, t>> \in R)
  BY <1>3, <1>4, WFMin, Zenon
<1>6. PICK t \in T : \A y \in T : ~(<<y, t>> \in R)
  BY <1>5
<1>7. \A y \in T : t <= y
  <2>1. TAKE y \in T
  <2>2. <<y, t>> \in Nat \X Nat /\ ~(<<y, t>> \in R)
    BY <1>6
  <2>3. ~(y < t)
    BY <1>3, <2>2
  <2>. QED
    BY <2>3
<1>8. n - t \in S /\ t \in Nat
  BY <1>1
<1>9. \A x \in S : n - t >= x
  BY <1>2, <1>7, <1>8
<1>. QED
  BY <1>8, <1>9 DEF Max

(* A player resumes a game under a new connection. *)
LEMMA ResumeStep ==
    ASSUME LobbyInv, NEW f \in Fds, Resume(f)
    PROVE  LobbyInv'
<1>1. /\ call[f] = Idle /\ connections_[f] # 0
      /\ UNCHANGED <<connVars, rooms, doubled, rooms_, queue, mutex_>>
  BY DEF Resume, Free
<1>2. PICK r, c :
               /\ r \in rooms_
               /\ Run(f, c)
               /\ c = [op |-> "resume", room |-> r]
  <2>1. PICK r \in find_room_by_db_player(identity[f]) \cup NewestOffer(identity[f]) :
           Run(f, [op |-> "resume", room |-> r])
    BY DEF Resume
  <2>2. find_room_by_db_player(identity[f]) \subseteq rooms_
    BY DEF find_room_by_db_player, Unfinished
  <2>3. NewestOffer(identity[f]) \subseteq rooms_
    <3>1. PICK S \in SUBSET rooms_ : NewestOffer(identity[f]) = IF S = {} THEN {} ELSE {Max(S)}
      BY DEF NewestOffer
    <3>2. Len(rooms) \in Nat /\ S \in SUBSET (1..Len(rooms))
      BY DEF LobbyInv, LobbyTypes
    <3>3. S # {} => Max(S) \in S
      BY <3>2, GreatestOfMany
    <3>. QED
      BY <3>1, <3>3
  <2>. QED
    BY <2>1, <2>2, <2>3
<1>3. call'[f] = c /\ connections_' = connections_ /\ rooms' = rooms /\ rooms_ \subseteq DOMAIN rooms
  BY <1>1, <1>2, Ran DEF LobbyInv, LobbyTypes, connVars
<1>4. CallOk(f)'
  BY <1>1, <1>2, <1>3 DEF CallOk, Closing, WithRoom, Gone
<1>5. rooms \in Seq(RoomRecord) /\ call[f].op \notin Closing
  BY <1>1 DEF LobbyInv, LobbyTypes, Idle, Closing
<1>. QED
  BY <1>1, <1>2, <1>3, <1>4, <1>5, RoomsStay, Moves

LEMMA OnReconnectDbPlayerStep ==
    ASSUME LobbyInv, NEW f \in Fds, OnReconnectDbPlayer(f)
    PROVE  LobbyInv'
<1>1. call[f].op = "resume" /\ Run(f, Idle) /\ UNCHANGED <<connVars, rooms_, queue, mutex_>>
  BY DEF OnReconnectDbPlayer
<1>2. call[f].op \notin Closing \cup {"idle"} /\ call[f].room \in DOMAIN rooms
  BY <1>1 DEF LobbyInv, CallOk, Closing, WithRoom
<1>3. PICK r \in DOMAIN rooms : r = call[f].room
  BY <1>2
<1>4. rooms[r] \in RoomRecord /\ identity[f] \in Players \cup {NoPlayer}
  BY DEF LobbyInv, LobbyTypes
<1>5. PICK c \in Colors : c = IF rooms[r].seat[White].player = identity[f] THEN White ELSE Black
  BY DEF Colors
<1>6. PICK mine : mine = [fd |-> f, player |-> identity[f], connected |-> TRUE,
                          generation |-> connections_[f], born |-> connections_[f]]
  OBVIOUS
<1>7. mine \in SeatRecord /\ Fresh(mine)
  BY <1>1, <1>2, <1>4, <1>6, MySeatFresh DEF SeatRecord, Fresh, StillThere, Gone
<1>8. PICK room : /\ SetRoom(r, room)
                  /\ room = rooms[r] \/ room = [rooms[r] EXCEPT !.seat[c] = mine]
  BY <1>3, <1>5, <1>6 DEF OnReconnectDbPlayer
<1>9. /\ room \in RoomRecord /\ room.origin = rooms[r].origin /\ room.state = rooms[r].state
      /\ room.spectators = rooms[r].spectators
      /\ \A d \in Colors : room.seat[d] = rooms[r].seat[d] \/ Fresh(room.seat[d])
  BY <1>4, <1>7, <1>8 DEF RoomRecord
<1>10. /\ SeatsKept /\ WatchersKept /\ RoomsKept /\ DoubledKnown' /\ rooms' \in Seq(RoomRecord)
       /\ rooms_' \subseteq DOMAIN rooms'
  BY <1>1, <1>8, <1>9, RoomMoves
<1>11. CallOk(f)'
  BY <1>1, Ran, IdleOk DEF LobbyInv
<1>. QED
  BY <1>1, <1>2, <1>10, <1>11, Moves

(* A game ends, or an offer lapses. *)
LEMMA FinishGameStep ==
    ASSUME LobbyInv, NEW r \in rooms_, FinishGame(r)
    PROVE  LobbyInv'
<1>1. r \in DOMAIN rooms /\ rooms[r] \in RoomRecord
  BY DEF LobbyInv, LobbyTypes
<1>2. PICK room : SetRoom(r, room) /\ room = [rooms[r] EXCEPT !.state = "FINISHED"]
  BY DEF FinishGame
<1>3. /\ room \in RoomRecord /\ room.origin = rooms[r].origin /\ room.state = "FINISHED"
      /\ room.spectators = rooms[r].spectators /\ room.seat = rooms[r].seat
  BY <1>1, <1>2 DEF RoomRecord
<1>4. UNCHANGED <<connVars, rooms_, queue, mutex_, call>>
  BY DEF FinishGame
<1>5. /\ SeatsKept /\ WatchersKept /\ RoomsKept /\ DoubledKnown' /\ rooms' \in Seq(RoomRecord)
      /\ rooms_' \subseteq DOMAIN rooms'
  BY <1>1, <1>2, <1>3, <1>4, RoomMoves
<1>. QED
  BY <1>4, <1>5, NothingMoves

(* Only the offer of a room changes. *)
LEMMA OfferChanges ==
    ASSUME LobbyInv, NEW r \in DOMAIN rooms, NEW o \in Colors \cup {NoColor}, UNCHANGED rooms_,
           \/ SetRoom(r, [rooms[r] EXCEPT !.offer = o])
           \/ SetRoom(r, rooms[r])
    PROVE  SeatsKept /\ WatchersKept /\ RoomsKept /\ DoubledKnown' /\ rooms' \in Seq(RoomRecord)
           /\ rooms_' \subseteq DOMAIN rooms'
<1>1. rooms[r] \in RoomRecord
  BY DEF LobbyInv, LobbyTypes
<1>2. PICK room : /\ SetRoom(r, room)
                  /\ room = rooms[r] \/ room = [rooms[r] EXCEPT !.offer = o]
  OBVIOUS
<1>3. /\ room \in RoomRecord /\ room.origin = rooms[r].origin /\ room.state = rooms[r].state
      /\ room.spectators = rooms[r].spectators /\ room.seat = rooms[r].seat
  BY <1>1, <1>2 DEF RoomRecord
<1>. QED
  BY <1>2, <1>3, RoomMoves

LEMMA ExpireRematchOfferStep ==
    ASSUME LobbyInv, NEW r \in rooms_, ExpireRematchOffer(r)
    PROVE  LobbyInv'
<1>1. r \in DOMAIN rooms /\ NoColor \in Colors \cup {NoColor}
  BY DEF LobbyInv, LobbyTypes
<1>2. SetRoom(r, [rooms[r] EXCEPT !.offer = NoColor]) /\ UNCHANGED <<connVars, rooms_, queue, mutex_, call>>
  BY DEF ExpireRematchOffer, ClearOffer
<1>. QED
  BY <1>1, <1>2, OfferChanges, NothingMoves

LEMMA DeclineRematchStep ==
    ASSUME LobbyInv, NEW f \in Fds, NEW r \in rooms_, DeclineRematch(f, r)
    PROVE  LobbyInv'
<1>1. r \in DOMAIN rooms /\ NoColor \in Colors \cup {NoColor}
  BY DEF LobbyInv, LobbyTypes
<1>2. SetRoom(r, [rooms[r] EXCEPT !.offer = NoColor]) /\ UNCHANGED <<connVars, rooms_, queue, mutex_, call>>
  BY DEF DeclineRematch, ClearOffer
<1>. QED
  BY <1>1, <1>2, OfferChanges, NothingMoves

LEMMA AskRematchStep ==
    ASSUME LobbyInv, NEW f \in Fds, AskRematch(f)
    PROVE  LobbyInv'
<1>1. /\ call[f] = Idle /\ connections_[f] # 0
      /\ UNCHANGED <<connVars, rooms, doubled, rooms_, queue, mutex_>>
  BY DEF AskRematch, Free
<1>2. PICK r, op, c :
               /\ r \in rooms_
               /\ op \in {"offer", "accept"}
               /\ Run(f, c)
               /\ c = [op |-> op, room |-> r]
  BY DEF AskRematch
<1>3. call'[f] = c /\ connections_' = connections_ /\ rooms' = rooms /\ rooms_ \subseteq DOMAIN rooms
  BY <1>1, <1>2, Ran DEF LobbyInv, LobbyTypes, connVars
<1>4. CallOk(f)'
  BY <1>1, <1>2, <1>3 DEF CallOk, Closing, WithRoom, Gone
<1>5. rooms \in Seq(RoomRecord) /\ call[f].op \notin Closing
  BY <1>1 DEF LobbyInv, LobbyTypes, Idle, Closing
<1>. QED
  BY <1>1, <1>2, <1>3, <1>4, <1>5, RoomsStay, Moves

LEMMA OfferRematchStep ==
    ASSUME LobbyInv, NEW f \in Fds, OfferRematch(f)
    PROVE  LobbyInv'
<1>1. call[f].op = "offer" /\ Run(f, Idle) /\ UNCHANGED <<connVars, rooms_, queue, mutex_>>
  BY DEF OfferRematch
<1>2. call[f].op \notin Closing /\ call[f].room \in DOMAIN rooms
  BY <1>1 DEF LobbyInv, CallOk, Closing, WithRoom
<1>3. PICK r \in DOMAIN rooms, o \in Colors \cup {NoColor} : r = call[f].room /\ o = color_of(r, f)
  BY <1>2 DEF color_of, Colors
<1>4. SetRoom(r, [rooms[r] EXCEPT !.offer = o]) \/ SetRoom(r, rooms[r])
  BY <1>3 DEF OfferRematch
<1>5. CallOk(f)'
  BY <1>1, Ran, IdleOk DEF LobbyInv
<1>. QED
  BY <1>1, <1>2, <1>4, <1>5, OfferChanges, Moves

LEMMA RespondToRematchStep ==
    ASSUME LobbyInv, NEW f \in Fds, RespondToRematch(f)
    PROVE  LobbyInv'
<1>1. call[f].op = "accept" /\ UNCHANGED <<connVars, rooms_, queue, mutex_>>
  BY DEF RespondToRematch
<1>2. call[f].op \notin Closing \cup {"idle"} /\ call[f].room \in DOMAIN rooms
  BY <1>1 DEF LobbyInv, CallOk, Closing, WithRoom
<1>3. PICK r \in DOMAIN rooms : r = call[f].room
  BY <1>2
<1>4. rooms \in Seq(RoomRecord) /\ rooms_ \subseteq DOMAIN rooms
  BY DEF LobbyInv, LobbyTypes
<1>5. CASE ~CanRespond(f, r)
  <2>1. Run(f, Idle) /\ UNCHANGED <<rooms, doubled>>
    BY <1>3, <1>5 DEF RespondToRematch
  <2>2. CallOk(f)'
    BY <2>1, Ran, IdleOk DEF LobbyInv
  <2>. QED
    BY <1>1, <1>2, <1>4, <2>1, <2>2, RoomsStay, Moves
<1>6. CASE CanRespond(f, r)
  <2>1. PICK c : Run(f, c) /\ c = [op |-> "accepted", room |-> r]
    BY <1>3, <1>6 DEF RespondToRematch
  <2>2. SetRoom(r, [rooms[r] EXCEPT !.offer = NoColor]) /\ NoColor \in Colors \cup {NoColor}
    BY <1>3, <1>6 DEF RespondToRematch, ClearOffer
  <2>3. /\ SeatsKept /\ WatchersKept /\ RoomsKept /\ DoubledKnown' /\ rooms' \in Seq(RoomRecord)
        /\ rooms_' \subseteq DOMAIN rooms'
    BY <1>1, <2>2, OfferChanges
  <2>4. call'[f] = c /\ connections_' = connections_ /\ connections_[f] # 0
    BY <1>1, <1>2, <2>1, Ran, MySeatFresh DEF LobbyInv, connVars
  <2>5. CallOk(f)'
    BY <2>1, <2>3, <2>4 DEF CallOk, Closing, WithRoom, Gone, RoomsKept
  <2>. QED
    BY <1>1, <1>2, <2>1, <2>3, <2>5, Moves
<1>. QED
  BY <1>5, <1>6

LEMMA ReadSeatsStep ==
    ASSUME LobbyInv, NEW f \in Fds, ReadSeats(f)
    PROVE  LobbyInv'
<1>1. call[f].op = "accepted" /\ UNCHANGED <<connVars, rooms, doubled, rooms_, queue, mutex_>>
  BY DEF ReadSeats
<1>2. call[f].op \notin Closing \cup {"idle"} /\ call[f].room \in DOMAIN rooms
  BY <1>1 DEF LobbyInv, CallOk, Closing, WithRoom
<1>3. PICK r \in DOMAIN rooms : r = call[f].room
  BY <1>2
<1>4. /\ rooms \in Seq(RoomRecord) /\ rooms_ \subseteq DOMAIN rooms
      /\ rooms[r].seat \in [Colors -> SeatRecord]
  <2>1. rooms \in Seq(RoomRecord) /\ rooms_ \subseteq DOMAIN rooms
    BY DEF LobbyInv, LobbyTypes
  <2>2. rooms[r] \in RoomRecord
    BY <2>1
  <2>. QED
    BY <2>1, <2>2 DEF RoomRecord
<1>5. CASE Run(f, Idle)
  <2>1. CallOk(f)'
    BY <1>5, Ran, IdleOk DEF LobbyInv
  <2>. QED
    BY <1>1, <1>2, <1>4, <1>5, <2>1, RoomsStay, Moves
<1>6. CASE Run(f, [op |-> "rematch", seat |-> rooms[r].seat])
  <2>1. PICK c : Run(f, c) /\ c = [op |-> "rematch", seat |-> rooms[r].seat]
    BY <1>6
  <2>2. call'[f] = c /\ connections_' = connections_ /\ connections_[f] # 0
    BY <1>1, <1>2, <2>1, Ran, MySeatFresh DEF LobbyInv, connVars
  <2>3. CallOk(f)'
    BY <1>4, <2>1, <2>2 DEF CallOk, Closing, WithRoom, Gone
  <2>. QED
    BY <1>1, <1>2, <1>4, <2>1, <2>3, RoomsStay, Moves
<1>. QED
  BY <1>3, <1>5, <1>6 DEF ReadSeats

(* The seats of a rematch were read two steps earlier; its room is not     *)
(* among those that hold their seats for a connection.                     *)
LEMMA RematchSeatRecord ==
    ASSUME NEW s \in SeatRecord
    PROVE  RematchSeat(s) \in SeatRecord
BY DEF SeatRecord, RematchSeat, Seat

LEMMA RematchCreateStep ==
    ASSUME LobbyInv, NEW f \in Fds, RematchCreate(f)
    PROVE  LobbyInv'
<1>1. /\ call[f].op = "rematch" /\ create_room(RematchSeat(call[f].seat[Black]), "rematch")
      /\ UNCHANGED <<connVars, queue, mutex_>>
  BY DEF RematchCreate
<1>2. call[f].op \notin Closing \cup {"idle"} /\ call[f].seat \in [Colors -> SeatRecord]
  BY <1>1 DEF LobbyInv, CallOk, Closing
<1>3. PICK white \in SeatRecord, black \in SeatRecord :
         white = RematchSeat(call[f].seat[Black]) /\ black = RematchSeat(call[f].seat[White])
  BY <1>2, RematchSeatRecord DEF Colors
<1>4. PICK n : n = Len(rooms) + 1
  OBVIOUS
<1>5. create_room(white, "rematch")
  BY <1>1, <1>3
<1>6. /\ SeatsKept /\ WatchersKept /\ RoomsKept /\ DoubledKnown' /\ rooms' \in Seq(RoomRecord)
      /\ rooms_' \subseteq DOMAIN rooms' /\ n \in DOMAIN rooms'
      /\ rooms'[n] = NewRoom(white, "rematch")
  BY <1>4, <1>5, RoomComes
<1>7. rooms'[n].origin = "rematch"
  BY <1>6, NewRoomSeats
<1>8. PICK c : Run(f, c) /\ c = [op |-> "seat", room |-> n, black |-> black]
  BY <1>3, <1>4 DEF RematchCreate
<1>9. call'[f] = c /\ connections_' = connections_ /\ connections_[f] # 0
  BY <1>1, <1>2, <1>8, Ran, MySeatFresh DEF LobbyInv, connVars
<1>10. CallOk(f)'
  BY <1>6, <1>7, <1>8, <1>9 DEF CallOk, Closing, WithRoom, Gone
<1>. QED
  BY <1>1, <1>2, <1>6, <1>8, <1>10, Moves

LEMMA RematchJoinStep ==
    ASSUME LobbyInv, NEW f \in Fds, RematchJoin(f)
    PROVE  LobbyInv'
<1>1. /\ call[f].op = "seat" /\ SetRoom(call[f].room, join(rooms[call[f].room], call[f].black))
      /\ Run(f, Idle) /\ UNCHANGED <<connVars, queue, mutex_>> /\ rooms_' \subseteq rooms_
  BY DEF RematchJoin
<1>2. /\ call[f].op \notin Closing /\ call[f].room \in DOMAIN rooms
      /\ rooms[call[f].room].origin = "rematch" /\ call[f].black \in SeatRecord
  BY <1>1 DEF LobbyInv, CallOk, Closing, WithRoom
<1>3. PICK r \in DOMAIN rooms, black \in SeatRecord : r = call[f].room /\ black = call[f].black
  BY <1>2
<1>4. rooms[r] \in RoomRecord
  BY DEF LobbyInv, LobbyTypes
<1>5. PICK room : room = join(rooms[r], black)
  OBVIOUS
<1>6. /\ room \in RoomRecord /\ room.origin = rooms[r].origin
      /\ room.spectators = rooms[r].spectators
      /\ rooms[r].state = "FINISHED" => room.state = "FINISHED"
  BY <1>3, <1>4, <1>5, Joined
<1>7. SetRoom(r, room) /\ room.origin = "rematch"
  BY <1>1, <1>2, <1>3, <1>5, <1>6
<1>8. /\ SeatsKept /\ WatchersKept /\ RoomsKept /\ DoubledKnown' /\ rooms' \in Seq(RoomRecord)
      /\ rooms_' \subseteq DOMAIN rooms'
  BY <1>1, <1>6, <1>7, RoomMoves
<1>9. CallOk(f)'
  BY <1>1, Ran, IdleOk DEF LobbyInv
<1>. QED
  BY <1>1, <1>2, <1>8, <1>9, Moves

(* A connection is opened and, on its way out, taken out of the queue, out *)
(* of the one room that holds a seat for it and out of every audience.     *)
LEMMA AcceptConnectionStep ==
    ASSUME LobbyInv, NEW f \in Fds, NEW p \in Players, Accept(f, p)
    PROVE  LobbyInv'
<1>. USE DEF LobbyInv
<1>1. /\ connections_[f] = 0 /\ call[f] = Idle
      /\ connections_' = [connections_ EXCEPT ![f] = next_generation_]
      /\ identity' = [identity EXCEPT ![f] = p] /\ next_generation_' = next_generation_ + 1
      /\ UNCHANGED <<rooms, doubled, rooms_, queue, mutex_, call>>
  BY DEF Accept
<1>2. SeatsKept /\ WatchersKept /\ RoomsKept /\ DoubledKnown'
  BY <1>1, RoomsStay
<1>3. connections_' \in [Fds -> Nat] /\ \A g \in Fds \ {f} : connections_'[g] = connections_[g]
  BY <1>1 DEF LobbyTypes
<1>4. LobbyTypes'
  BY <1>1, <1>3 DEF LobbyTypes
<1>5. CallOk(f)'
  BY <1>1, IdleOk
<1>6. \A b \in Nat \ {0} : ~StillThere(f, b)
  BY <1>1 DEF StillThere, Idle, Closing
<1>7. Keeps(f)
  BY <1>6 DEF Keeps
<1>8. \A g \in Fds \ {f} : call[g].op = "pair" =>
         mutex_' = mutex_ /\ {call[g].a, call[g].b} \subseteq queue'
  BY <1>1 DEF CallOk
<1>. HIDE DEF LobbyInv
<1>. QED
  BY <1>1, <1>2, <1>3, <1>4, <1>5, <1>7, <1>8, LobbyStep, {f} \in SUBSET Fds

LEMMA CloseConnectionStep ==
    ASSUME LobbyInv, NEW f \in Fds, CloseConnection(f)
    PROVE  LobbyInv'
<1>. USE DEF LobbyInv
<1>1. /\ call[f] = Idle /\ connections_' = [connections_ EXCEPT ![f] = 0]
      /\ UNCHANGED <<identity, next_generation_, rooms, doubled, rooms_, queue, mutex_>>
  BY DEF CloseConnection, Free
<1>2. PICK c : Run(f, c) /\ c = [op |-> "dequeue", gen |-> connections_[f]]
  BY DEF CloseConnection
<1>3. /\ call'[f] = c /\ call' = [g \in Fds |-> call'[g]]
      /\ \A g \in Fds \ {f} : call'[g] = call[g]
  BY <1>2, Ran
<1>4. SeatsKept /\ WatchersKept /\ RoomsKept /\ DoubledKnown'
  BY <1>1, RoomsStay
<1>5. connections_' \in [Fds -> Nat] /\ \A g \in Fds \ {f} : connections_'[g] = connections_[g]
  BY <1>1 DEF LobbyTypes
<1>6. LobbyTypes'
  BY <1>1, <1>3, <1>5 DEF LobbyTypes
<1>7. CallOk(f)'
  BY <1>2, <1>3 DEF CallOk, Closing, WithRoom, Gone
<1>8. \A b \in Nat \ {0} : StillThere(f, b) => StillThere(f, b)'
  BY <1>1, <1>2, <1>3 DEF StillThere, Idle, Closing
<1>9. Keeps(f)
  BY <1>8 DEF Keeps
<1>10. \A g \in Fds \ {f} : call[g].op = "pair" =>
         mutex_' = mutex_ /\ {call[g].a, call[g].b} \subseteq queue'
  BY <1>1 DEF CallOk
<1>. HIDE DEF LobbyInv
<1>. QED
  BY <1>1, <1>3, <1>4, <1>5, <1>6, <1>7, <1>9, <1>10, LobbyStep, {f} \in SUBSET Fds

LEMMA DisconnectDequeueStep ==
    ASSUME LobbyInv, NEW f \in Fds, DisconnectDequeue(f)
    PROVE  LobbyInv'
<1>1. /\ call[f].op = "dequeue" /\ mutex_ = 0 /\ mutex_' = mutex_
      /\ queue' = {e \in queue : e.fd # f}
      /\ UNCHANGED <<connVars, rooms, doubled, rooms_>>
  BY DEF DisconnectDequeue, Advance, dequeue
<1>2. PICK c : Run(f, c) /\ c = [op |-> "find", gen |-> call[f].gen]
  BY DEF DisconnectDequeue, Advance
<1>3. call'[f] = c
  BY <1>2, Ran DEF LobbyInv
<1>4. /\ rooms \in Seq(RoomRecord) /\ rooms_ \subseteq DOMAIN rooms /\ queue \subseteq Entry
      /\ mutex_ \in Fds \cup {0}
  BY DEF LobbyInv, LobbyTypes
<1>5. CallOk(f)'
  BY <1>1, <1>2, <1>3 DEF CallOk, Closing, WithRoom, Gone, Queued
<1>6. SeatsKept /\ WatchersKept /\ RoomsKept /\ DoubledKnown' /\ rooms' = rooms /\ rooms_' = rooms_
  BY <1>1, RoomsStay
<1>7. queue' \subseteq Entry /\ \A d \in queue' : d \in queue
  BY <1>1, <1>4
<1>8. c.op \in Closing /\ c.gen = call[f].gen
  BY <1>2 DEF Closing
<1>. QED
  BY <1>1, <1>2, <1>4, <1>5, <1>6, <1>7, <1>8, Moves

(* Two seats of unfinished rooms make a connection a doubled one, so the   *)
(* room that on_player_disconnect finds is the only one that holds a seat  *)
(* for the connection.                                                     *)
LEMMA HoldsOne ==
    ASSUME LobbyInv, NEW f \in Fds, NEW r \in Unfinished, NEW c \in Colors, Holds(f, r, c),
           NEW q \in Unfinished, NEW d \in Colors, rooms[q].seat[d].fd = f
    PROVE  q = r /\ d = c
<1>1. PICK x, y : x = <<r, c>> /\ y = <<q, d>>
  OBVIOUS
<1>2. Unfinished \subseteq DOMAIN rooms
  BY DEF Unfinished, LobbyInv, LobbyTypes
<1>3. x \in SeatsOn(f, rooms) /\ y \in SeatsOn(f, rooms)
  BY <1>1, <1>2 DEF SeatsOn, Holds, Unfinished
<1>4. x # y => rooms[r].seat[c].born \in doubled
  BY <1>1, <1>3 DEF LobbyInv, DoubledKnown
<1>. QED
  BY <1>1, <1>4 DEF Holds

LEMMA DisconnectFindStep ==
    ASSUME LobbyInv, NEW f \in Fds, DisconnectFind(f)
    PROVE  LobbyInv'
<1>1. call[f].op = "find" /\ UNCHANGED <<connVars, rooms, doubled, rooms_, queue, mutex_>>
  BY DEF DisconnectFind
<1>2. /\ rooms \in Seq(RoomRecord) /\ rooms_ \subseteq DOMAIN rooms
      /\ find_room_by_fd(f) \subseteq DOMAIN rooms
  BY DEF LobbyInv, LobbyTypes, find_room_by_fd
<1>3. ~Queued(f)
  BY <1>1 DEF LobbyInv, CallOk, Gone
<1>4. \A r \in Unfinished, c \in Colors : Holds(f, r, c) => r \in find_room_by_fd(f) \cap Unfinished
  BY DEF Holds, find_room_by_fd, has_player, Unfinished
<1>5. CASE find_room_by_fd(f) = {} /\ Run(f, [op |-> "sweep", gen |-> call[f].gen])
  <2>1. PICK c : Run(f, c) /\ c = [op |-> "sweep", gen |-> call[f].gen]
    BY <1>5
  <2>2. call'[f] = c
    BY <2>1, Ran DEF LobbyInv
  <2>3. (\A r \in Unfinished, d \in Colors : ~Holds(f, r, d))'
    BY <1>1, <1>4, <1>5 DEF Holds, Unfinished
  <2>4. CallOk(f)'
    BY <1>1, <1>3, <2>1, <2>2, <2>3 DEF CallOk, Closing, WithRoom, Gone, Queued
  <2>5. c.op \in Closing /\ c.gen = call[f].gen
    BY <2>1 DEF Closing
  <2>. QED
    BY <1>1, <1>2, <2>1, <2>4, <2>5, RoomsStay, Moves
<1>6. ASSUME NEW r \in find_room_by_fd(f), Run(f, [op |-> "detach", gen |-> call[f].gen, room |-> r])
      PROVE  LobbyInv'
  <2>1. PICK c : Run(f, c) /\ c = [op |-> "detach", gen |-> call[f].gen, room |-> r]
    BY <1>6
  <2>2. call'[f] = c
    BY <2>1, Ran DEF LobbyInv
  <2>3. ASSUME NEW q \in Unfinished, NEW d \in Colors, Holds(f, q, d)
        PROVE  q = r
    <3>1. r \in Unfinished /\ has_player(r, f)
      BY <1>4, <1>6, <2>3 DEF find_room_by_fd
    <3>2. PICK e \in Colors : rooms[r].seat[e].fd = f
      BY <3>1 DEF has_player
    <3>. QED
      BY <2>3, <3>1, <3>2, HoldsOne
  <2>4. (\A q \in Unfinished, d \in Colors : Holds(f, q, d) => q = r)'
    BY <1>1, <2>3 DEF Holds, Unfinished
  <2>5. r \in DOMAIN rooms'
    BY <1>1, <1>2
  <2>6. CallOk(f)'
    BY <1>1, <1>3, <2>1, <2>2, <2>4, <2>5 DEF CallOk, Closing, WithRoom, Gone, Queued
  <2>7. c.op \in Closing /\ c.gen = call[f].gen
    BY <2>1 DEF Closing
  <2>. QED
    BY <1>1, <1>2, <2>1, <2>6, <2>7, RoomsStay, Moves
<1>. QED
  BY <1>5, <1>6 DEF DisconnectFind

LEMMA DisconnectDetachStep ==
    ASSUME LobbyInv, NEW f \in Fds, DisconnectDetach(f)
    PROVE  LobbyInv'
<1>1. call[f].op = "detach" /\ UNCHANGED <<connVars, rooms_, queue, mutex_>>
  BY DEF DisconnectDetach, Advance
<1>2. /\ call[f].room \in DOMAIN rooms /\ ~Queued(f)
      /\ \A q \in Unfinished, d \in Colors : Holds(f, q, d) => q = call[f].room
  BY <1>1 DEF LobbyInv, CallOk, WithRoom, Gone
<1>3. PICK r \in DOMAIN rooms : r = call[f].room
  BY <1>2
<1>4. /\ rooms[r] \in RoomRecord /\ f # NoFd
      /\ rooms_ \subseteq DOMAIN rooms
  BY LobbyAssumption DEF LobbyInv, LobbyTypes, NoFd
<1>5. PICK c \in Colors : c = IF rooms[r].seat[White].fd = f THEN White ELSE Black
  BY DEF Colors
<1>6. PICK room : room = OnDisconnect(rooms[r], f) /\ SetRoom(r, room)
  BY <1>3 DEF DisconnectDetach
<1>7. /\ room \in RoomRecord /\ room.origin = rooms[r].origin
      /\ room.spectators = rooms[r].spectators
      /\ rooms[r].state = "FINISHED" => room.state = "FINISHED"
      /\ \A d \in Colors : room.seat[d] = rooms[r].seat[d] \/ room.seat[d].fd = NoFd
      /\ room.seat[c].fd # f
  <2>1. rooms[r].seat[c] \in SeatRecord
    BY <1>4 DEF RoomRecord
  <2>2. CASE rooms[r].seat[c].fd # f \/ ~rooms[r].seat[c].connected
    <3>1. room = rooms[r]
      BY <1>5, <1>6, <2>2 DEF OnDisconnect
    <3>2. rooms[r].seat[c].fd # f
      BY <1>4, <2>1, <2>2 DEF SeatRecord
    <3>. QED
      BY <1>4, <3>1, <3>2
  <2>3. CASE ~(rooms[r].seat[c].fd # f \/ ~rooms[r].seat[c].connected)
    <3>1. PICK s : s = Detached(rooms[r].seat[c])
      OBVIOUS
    <3>2. s \in SeatRecord /\ s.fd = NoFd
      BY <2>1, <3>1 DEF SeatRecord, Detached
    <3>3. PICK seated : seated = [rooms[r] EXCEPT !.seat[c] = s]
      OBVIOUS
    <3>4. seated \in RoomRecord
      BY <1>4, <3>2, <3>3 DEF RoomRecord
    <3>5. /\ seated.origin = rooms[r].origin /\ seated.spectators = rooms[r].spectators
          /\ seated.state = rooms[r].state /\ seated.seat[c] = s
          /\ \A d \in Colors \ {c} : seated.seat[d] = rooms[r].seat[d]
      BY <1>4, <3>3 DEF RoomRecord
    <3>6. PICK st \in {"WAITING", "IN_PROGRESS", "FINISHED"} :
             st = IF rooms[r].state = "WAITING" THEN "FINISHED" ELSE rooms[r].state
      BY <1>4 DEF RoomRecord
    <3>7. room = [seated EXCEPT !.state = st]
      BY <1>4, <1>5, <1>6, <2>3, <3>1, <3>3, <3>6 DEF OnDisconnect, RoomRecord
    <3>8. /\ room \in RoomRecord /\ room.origin = seated.origin /\ room.state = st
          /\ room.spectators = seated.spectators /\ room.seat = seated.seat
      BY <3>4, <3>6, <3>7 DEF RoomRecord
    <3>9. rooms[r].state = "FINISHED" => room.state = "FINISHED"
      BY <3>6, <3>8
    <3>10. \A d \in Colors : room.seat[d] = rooms[r].seat[d] \/ room.seat[d].fd = NoFd
      BY <3>2, <3>5, <3>8
    <3>. QED
      BY <1>4, <3>2, <3>5, <3>8, <3>9, <3>10
  <2>. QED
    BY <2>2, <2>3
<1>8. /\ SeatsKept /\ WatchersKept /\ RoomsKept /\ DoubledKnown' /\ rooms' \in Seq(RoomRecord)
      /\ rooms_' \subseteq DOMAIN rooms' /\ rooms'[r] = room /\ DOMAIN rooms' = DOMAIN rooms
  BY <1>1, <1>6, <1>7, RoomMoves
<1>9. PICK e : Run(f, e) /\ e = [op |-> "sweep", gen |-> call[f].gen]
  BY DEF DisconnectDetach, Advance
<1>10. call'[f] = e
  BY <1>9, Ran DEF LobbyInv
<1>11. ASSUME NEW q \in Unfinished', NEW d \in Colors, Holds(f, q, d)'
       PROVE  FALSE
  <2>1. q \in DOMAIN rooms'
    BY <1>8, <1>11 DEF Unfinished
  <2>2. Holds(f, q, d)
    BY <1>1, <1>11, <2>1, <1>8 DEF SeatsKept, Gone
  <2>3. q \in Unfinished /\ q = r
    BY <1>2, <1>3, <2>2 DEF Holds
  <2>4. room.seat[d].fd = f /\ rooms[r].seat[d].fd = f
    BY <1>8, <1>11, <2>2, <2>3 DEF Holds
  <2>5. d # c
    BY <1>7, <2>4
  <2>6. rooms[r].seat[c].fd = f
    BY <1>5, <2>4, <2>5 DEF Colors
  <2>. QED
    BY <2>2, <2>3, <2>5, <2>6, HoldsOne
<1>12. CallOk(f)'
  BY <1>1, <1>2, <1>9, <1>10, <1>11 DEF CallOk, Closing, WithRoom, Gone, Queued
<1>13. e.op \in Closing /\ e.gen = call[f].gen
  BY <1>9 DEF Closing
<1>. QED
  BY <1>1, <1>8, <1>9, <1>12, <1>13, Moves

LEMMA DisconnectSweepStep ==
    ASSUME LobbyInv, NEW f \in Fds, DisconnectSweep(f)
    PROVE  LobbyInv'
<1>1. call[f].op = "sweep" /\ Run(f, Idle) /\ UNCHANGED <<connVars, rooms_, queue, mutex_>>
  BY DEF DisconnectSweep
<1>2. ~Queued(f) /\ \A r \in Unfinished, c \in Colors : ~Holds(f, r, c)
  BY <1>1 DEF LobbyInv, CallOk, Gone
<1>3. rooms \in Seq(RoomRecord) /\ rooms_ \subseteq DOMAIN rooms
  BY DEF LobbyInv, LobbyTypes
<1>4. PICK rs : /\ rs = [r \in DOMAIN rooms |-> IF r \in rooms_ THEN remove_spectator(rooms[r], f)
                                                              ELSE rooms[r]]
                /\ ChangeRooms(rs)
  BY DEF DisconnectSweep
<1>5. ASSUME NEW r \in DOMAIN rooms
      PROVE  /\ rs[r] \in RoomRecord /\ rs[r].seat = rooms[r].seat /\ rs[r].state = rooms[r].state
             /\ rs[r].origin = rooms[r].origin /\ rs[r].spectators \subseteq rooms[r].spectators
             /\ r \in rooms_ => \A s \in rs[r].spectators : s.fd # f
  <2>1. rooms[r] \in RoomRecord
    BY <1>3
  <2>2. PICK left : left = {s \in rooms[r].spectators : s.fd # f}
    OBVIOUS
  <2>3. left \in SUBSET Watcher
    BY <2>1, <2>2 DEF RoomRecord
  <2>4. rs[r] = rooms[r] \/ rs[r] = [rooms[r] EXCEPT !.spectators = left]
    BY <1>4, <2>2 DEF remove_spectator
  <2>5. /\ rs[r] \in RoomRecord /\ rs[r].seat = rooms[r].seat /\ rs[r].state = rooms[r].state
        /\ rs[r].origin = rooms[r].origin /\ rs[r].spectators \subseteq rooms[r].spectators
    BY <2>1, <2>2, <2>3, <2>4 DEF RoomRecord
  <2>6. r \in rooms_ => rs[r] = [rooms[r] EXCEPT !.spectators = left]
    BY <1>4, <2>2 DEF remove_spectator
  <2>7. r \in rooms_ => rs[r].spectators = left
    BY <2>1, <2>6 DEF RoomRecord
  <2>. QED
    BY <2>2, <2>5, <2>7
<1>6. rs \in Seq(RoomRecord) /\ DOMAIN rs = DOMAIN rooms
  <2>1. PICK n \in Nat : DOMAIN rooms = 1..n
    BY <1>3
  <2>2. DOMAIN rs = 1..n
    BY <1>4, <2>1
  <2>3. rs \in [1..n -> RoomRecord]
    BY <1>4, <1>5, <2>1, Zenon
  <2>. HIDE DEF RoomRecord
  <2>. QED
    BY <2>1, <2>2, <2>3
<1>7. rooms' = rs /\ doubled \subseteq doubled' /\ DoubledKnown'
  BY <1>4, <1>6, DoublesNoted
<1>8. RoomsKept
  BY <1>5, <1>6, <1>7 DEF RoomsKept
<1>9. WatchersKept
  BY <1>1, <1>3, <1>5, <1>6, <1>7 DEF WatchersKept
<1>10. ASSUME NEW g \in Fds, NEW q \in DOMAIN rooms', NEW c \in Colors, Holds(g, q, c)'
       PROVE  Holds(g, q, c) /\ rooms'[q].seat[c].born = rooms[q].seat[c].born
  <2>1. q \in DOMAIN rooms /\ rooms'[q] = rs[q]
    BY <1>6, <1>7
  <2>. QED
    BY <1>1, <1>5, <1>7, <1>10, <2>1 DEF Holds, Unfinished
<1>11. SeatsKept
  BY <1>10 DEF SeatsKept
<1>12. NothingOf(f)'
  <2>1. ASSUME NEW q \in Unfinished', NEW d \in Colors, Holds(f, q, d)'
        PROVE  FALSE
    <3>1. q \in DOMAIN rooms'
      BY <1>1, <1>3, <1>6, <1>7 DEF Unfinished
    <3>2. Holds(f, q, d)
      BY <1>10, <2>1, <3>1
    <3>. QED
      BY <1>2, <3>2 DEF Holds
  <2>2. ~Queued(f)'
    BY <1>1, <1>2 DEF Queued
  <2>3. \A r \in rooms_' : \A s \in rooms'[r].spectators : s.fd # f
    BY <1>1, <1>3, <1>5, <1>7
  <2>. QED
    BY <2>1, <2>2, <2>3 DEF NothingOf
<1>13. CallOk(f)'
  BY <1>1, Ran, IdleOk DEF LobbyInv
<1>14. rooms' \in Seq(RoomRecord) /\ rooms_' \subseteq DOMAIN rooms'
  BY <1>1, <1>3, <1>6, <1>7
<1>. QED
  BY <1>1, <1>7, <1>8, <1>9, <1>11, <1>12, <1>13, <1>14, Moves

LEMMA LobbyStart == LobbyInit => LobbyInv
<1>. SUFFICES ASSUME LobbyInit PROVE LobbyInv
  OBVIOUS
<1>1. /\ connections_ = [f \in Fds |-> 0] /\ identity = [f \in Fds |-> NoPlayer]
      /\ next_generation_ = 1 /\ rooms = <<>> /\ rooms_ = {} /\ queue = {} /\ mutex_ = 0
      /\ call = [f \in Fds |-> Idle]
  BY DEF LobbyInit
<1>2. DOMAIN rooms = {} /\ rooms \in Seq(RoomRecord)
  BY <1>1
<1>3. LobbyTypes
  BY <1>1, <1>2 DEF LobbyTypes
<1>4. \A f \in Fds : call[f] = Idle
  BY <1>1
<1>5. \A f \in Fds : CallOk(f)
  BY <1>4 DEF CallOk, Idle, Closing, WithRoom, Gone
<1>6. DoubledKnown
  BY <1>2 DEF DoubledKnown, SeatsOn
<1>7. HeldByOwners /\ QueueHoldsLiveConnections /\ NoGhostSpectators
  BY <1>1 DEF HeldByOwners, QueueHoldsLiveConnections, NoGhostSpectators, Unfinished
<1>. QED
  BY <1>3, <1>5, <1>6, <1>7 DEF LobbyInv

LEMMA LobbyKeeps == LobbyInv /\ [LobbyNext]_lobbyVars => LobbyInv'
<1>. SUFFICES ASSUME LobbyInv, [LobbyNext]_lobbyVars PROVE LobbyInv'
  OBVIOUS
<1>1. CASE UNCHANGED lobbyVars
  <2>1. /\ UNCHANGED <<connVars, call, mutex_>> /\ UNCHANGED <<rooms, rooms_, doubled>>
        /\ queue' = queue
    BY <1>1 DEF lobbyVars
  <2>2. rooms \in Seq(RoomRecord) /\ rooms_ \subseteq DOMAIN rooms
    BY DEF LobbyInv, LobbyTypes
  <2>. QED
    BY <2>1, <2>2, RoomsStay, NothingMoves
<1>2. ASSUME NEW f \in Fds, NEW p \in Players, Accept(f, p) PROVE LobbyInv'
  BY <1>2, AcceptConnectionStep
<1>3. ASSUME NEW f \in Fds, Request(f) PROVE LobbyInv'
  BY <1>3, RequestGameStep, CreateGameStep, JoinGameStep, SpectateStep, EnqueueStep,
     MatchCreateStep, MatchJoinStep, MatchDoneStep, CancelQueueStep, ResumeStep,
     OnReconnectDbPlayerStep DEF Request
<1>4. ASSUME NEW f \in Fds, Rematch(f) PROVE LobbyInv'
  BY <1>4, AskRematchStep, OfferRematchStep, RespondToRematchStep, ReadSeatsStep,
     RematchCreateStep, RematchJoinStep, DeclineRematchStep DEF Rematch
<1>5. ASSUME NEW f \in Fds, Disconnect(f) PROVE LobbyInv'
  BY <1>5, CloseConnectionStep, DisconnectDequeueStep, DisconnectFindStep,
     DisconnectDetachStep, DisconnectSweepStep DEF Disconnect
<1>6. ASSUME NEW r \in rooms_, FinishGame(r) PROVE LobbyInv'
  BY <1>6, FinishGameStep
<1>7. ASSUME NEW r \in rooms_, ExpireRematchOffer(r) PROVE LobbyInv'
  BY <1>7, ExpireRematchOfferStep
<1>. QED
  BY <1>1, <1>2, <1>3, <1>4, <1>5, <1>6, <1>7 DEF LobbyNext

(* Seats have types, so a seat that is taken is taken by a descriptor.     *)
LEMMA LobbyGivesProperty == LobbyInv => DescriptorsInheritNothing
<1>. SUFFICES ASSUME LobbyInv PROVE DescriptorsInheritNothing
  OBVIOUS
<1>1. ASSUME NEW r \in Unfinished, NEW c \in Colors, rooms[r].seat[c].fd # NoFd,
             rooms[r].origin # "rematch", rooms[r].seat[c].born \notin doubled
      PROVE  StillThere(rooms[r].seat[c].fd, rooms[r].seat[c].born)
  <2>1. r \in DOMAIN rooms /\ rooms \in Seq(RoomRecord)
    BY DEF LobbyInv, LobbyTypes, Unfinished
  <2>2. rooms[r] \in RoomRecord
    BY <2>1
  <2>3. rooms[r].seat[c] \in SeatRecord
    BY <2>2 DEF RoomRecord
  <2>4. rooms[r].seat[c].fd \in Fds
    BY <1>1, <2>3 DEF SeatRecord
  <2>. QED
    BY <1>1, <2>4 DEF LobbyInv, HeldByOwners, Holds
<1>2. SeatsHeldByOwners
  BY <1>1 DEF SeatsHeldByOwners
<1>. QED
  BY <1>2 DEF LobbyInv, DescriptorsInheritNothing

(* gameplay_service.cpp, on_player_disconnect: a client that is given a    *)
(* used descriptor gets neither the seat, nor the queue entry, nor the     *)
(* broadcasts of the client before it, for any number of clients and rooms *)
(* and however pairings, rematches and disconnects overlap.                *)
THEOREM DescriptorsStayClean == LobbySpec => []DescriptorsInheritNothing
<1>1. LobbyInit => LobbyInv
  BY LobbyStart
<1>2. LobbyInv /\ [LobbyNext]_lobbyVars => LobbyInv'
  BY LobbyKeeps
<1>3. LobbyInv => DescriptorsInheritNothing
  BY LobbyGivesProperty
<1>. QED
  BY <1>1, <1>2, <1>3, PTL DEF LobbySpec

-----------------------------------------------------------------------------
(* The rooms are finitely many, whichever of them are counted.             *)
LEMMA RoomsFinite ==
    ASSUME LobbyTypes
    PROVE  /\ IsFiniteSet(RematchRooms) /\ Cardinality(RematchRooms) \in Nat
           /\ IsFiniteSet(Offered) /\ Cardinality(Offered) \in Nat
<1>1. PICK n \in Nat : DOMAIN rooms = 1..n
  BY DEF LobbyTypes
<1>2. IsFiniteSet(1..n)
  BY FS_Interval
<1>3. RematchRooms \in SUBSET (1..n) /\ Offered \in SUBSET (1..n)
  BY <1>1 DEF RematchRooms, Offered
<1>4. IsFiniteSet(RematchRooms) /\ IsFiniteSet(Offered)
  BY <1>2, <1>3, FS_Subset
<1>. QED
  BY <1>4, FS_CardinalityType

(* A set that has at most one member more than another. *)
LEMMA OneMore ==
    ASSUME NEW S, NEW T, IsFiniteSet(S), NEW x, T \subseteq S \cup {x}
    PROVE  IsFiniteSet(T) /\ Cardinality(T) \in Nat /\ Cardinality(T) <= Cardinality(S) + 1
<1>1. PICK U : U = S \cup {x}
  OBVIOUS
<1>2. IsFiniteSet(U) /\ Cardinality(U) <= Cardinality(S) + 1 /\ Cardinality(S) \in Nat
  BY <1>1, FS_AddElement, FS_CardinalityType
<1>3. T \in SUBSET U
  BY <1>1
<1>4. IsFiniteSet(T) /\ Cardinality(T) <= Cardinality(U)
  BY <1>2, <1>3, FS_Subset
<1>5. Cardinality(T) \in Nat /\ Cardinality(U) \in Nat
  BY <1>2, <1>4, FS_CardinalityType
<1>. QED
  BY <1>2, <1>4, <1>5

(* A set that has no more members than another, without one it had. *)
LEMMA OneLess ==
    ASSUME NEW S, NEW T, IsFiniteSet(S), NEW x \in S, T \subseteq S \ {x}
    PROVE  IsFiniteSet(T) /\ Cardinality(T) \in Nat /\ Cardinality(T) + 1 <= Cardinality(S)
<1>1. PICK U : U = S \ {x}
  OBVIOUS
<1>2. IsFiniteSet(U) /\ Cardinality(U) = Cardinality(S) - 1 /\ Cardinality(S) \in Nat
  BY <1>1, FS_RemoveElement, FS_CardinalityType
<1>3. T \in SUBSET U
  BY <1>1
<1>4. IsFiniteSet(T) /\ Cardinality(T) <= Cardinality(U)
  BY <1>2, <1>3, FS_Subset
<1>5. Cardinality(T) \in Nat /\ Cardinality(U) \in Nat
  BY <1>2, <1>4, FS_CardinalityType
<1>. QED
  BY <1>2, <1>4, <1>5

(* Most steps make no rematch room, no acceptance and no offer.            *)
CountsKept == /\ RematchRooms' = RematchRooms /\ Accepting' \subseteq Accepting
              /\ Offered' \subseteq Offered /\ offers' = offers

(* Such a step leaves an offer for each of them. *)
LEMMA CountsKeep ==
    ASSUME OffersCounted, LobbyTypes, CountsKept
    PROVE  OffersCounted'
<1>1. /\ RematchRooms' = RematchRooms /\ Accepting' \in SUBSET Accepting
      /\ Offered' \in SUBSET Offered /\ offers' = offers
      /\ offers \in Nat /\ IsFiniteSet(Accepting)
      /\ Cardinality(RematchRooms) + Cardinality(Accepting) + Cardinality(Offered) <= offers
  BY DEF CountsKept, OffersCounted
<1>2. PICK A, O : A = Accepting' /\ O = Offered'
  OBVIOUS
<1>3. /\ A \in SUBSET Accepting /\ O \in SUBSET Offered
      /\ IsFiniteSet(Offered) /\ Cardinality(RematchRooms) \in Nat
  BY <1>1, <1>2, RoomsFinite
<1>4. /\ IsFiniteSet(A) /\ Cardinality(A) <= Cardinality(Accepting)
      /\ IsFiniteSet(O) /\ Cardinality(O) <= Cardinality(Offered)
  BY <1>1, <1>3, FS_Subset
<1>5. /\ Cardinality(A) \in Nat /\ Cardinality(Accepting) \in Nat
      /\ Cardinality(O) \in Nat /\ Cardinality(Offered) \in Nat
  BY <1>1, <1>3, <1>4, FS_CardinalityType
<1>6. Cardinality(RematchRooms) + Cardinality(A) + Cardinality(O) <= offers
  BY <1>1, <1>3, <1>4, <1>5
<1>. QED
  BY <1>1, <1>2, <1>4, <1>6 DEF OffersCounted

(* Acceptances under way: those of the requests that are past the answer.  *)
LEMMA AcceptingMoves ==
    ASSUME LobbyTypes, NEW f \in Fds, NEW c, Run(f, c)
    PROVE  /\ Accepting' \subseteq Accepting \cup {f}
           /\ c.op \notin {"accepted", "rematch"} => Accepting' \subseteq Accepting \ {f}
           /\ f \in Accepting => Accepting' \subseteq Accepting
BY Ran DEF Accepting

(* A room keeps its origin and loses an offer at most. *)
LEMMA CountsOfRoom ==
    ASSUME LobbyTypes, NEW r \in DOMAIN rooms, NEW room, SetRoom(r, room),
           room.origin = rooms[r].origin, room.offer \in {rooms[r].offer, NoColor}
    PROVE  RematchRooms' = RematchRooms /\ Offered' \subseteq Offered
<1>1. rooms' = [rooms EXCEPT ![r] = room] /\ rooms \in Seq(RoomRecord)
  BY DEF SetRoom, ChangeRooms, LobbyTypes
<1>2. DOMAIN rooms' = DOMAIN rooms /\ rooms'[r] = room /\ \A q \in DOMAIN rooms : q # r => rooms'[q] = rooms[q]
  BY <1>1
<1>. QED
  BY <1>2 DEF RematchRooms, Offered

(* A room that is made has no offer. *)
LEMMA CountsOfNewRoom ==
    ASSUME LobbyTypes, NEW white, NEW origin, create_room(white, origin)
    PROVE  /\ RematchRooms' = IF origin = "rematch" THEN RematchRooms \cup {Len(rooms) + 1} ELSE RematchRooms
           /\ Offered' = Offered
<1>1. /\ rooms' = Append(rooms, NewRoom(white, origin)) /\ rooms \in Seq(RoomRecord)
      /\ Len(rooms) \in Nat
  BY DEF create_room, ChangeRooms, LobbyTypes
<1>2. NewRoom(white, origin).origin = origin /\ NewRoom(white, origin).offer = NoColor
  BY DEF NewRoom
<1>3. PICK n, room : n = Len(rooms) + 1 /\ room = NewRoom(white, origin)
  OBVIOUS
<1>. HIDE DEF RoomRecord
<1>4. /\ DOMAIN rooms' = DOMAIN rooms \cup {n} /\ n \notin DOMAIN rooms
      /\ rooms'[n] = room
      /\ \A q \in DOMAIN rooms : rooms'[q] = rooms[q]
  <2>1. rooms' = Append(rooms, room)
    BY <1>1, <1>3
  <2>2. DOMAIN rooms = 1..Len(rooms)
    BY <1>1
  <2>. QED
    BY <1>1, <1>3, <2>1, <2>2, AppendProperties
<1>. QED
  BY <1>2, <1>3, <1>4 DEF RematchRooms, Offered

(* The steps that make no offer, answer none and create no rematch.        *)
LEMMA RequestsCount ==
    ASSUME LobbyInv, NEW f \in Fds, Request(f)
    PROVE  CountsKept
<1>1. LobbyTypes
  BY DEF LobbyInv
<1>2. ASSUME UNCHANGED <<rooms, offers>> PROVE RematchRooms' = RematchRooms /\ Offered' \subseteq Offered
  BY <1>2 DEF RematchRooms, Offered
<1>3. CASE RequestGame(f)
  <2>1. PICK c : Run(f, c) /\ c.op \in {"create", "ai", "queue", "join", "spectate"}
    BY <1>3, RequestRuns
  <2>. QED
    BY <1>1, <1>2, <1>3, <2>1, AcceptingMoves DEF RequestGame, CountsKept
<1>4. CASE CreateGame(f)
  <2>1. /\ call[f].op \in {"create", "ai"} /\ create_room(MySeat(f), call[f].op)
        /\ Run(f, Idle) /\ offers' = offers
    BY <1>4 DEF CreateGame
  <2>2. RematchRooms' = RematchRooms /\ Offered' = Offered
    BY <1>1, <2>1, CountsOfNewRoom
  <2>. QED
    BY <1>1, <2>1, <2>2, AcceptingMoves DEF CountsKept, Idle
<1>5. CASE JoinGame(f)
  <2>1. /\ SetRoom(call[f].room, join(rooms[call[f].room], MySeat(f)))
        /\ Run(f, Idle) /\ offers' = offers /\ call[f].room \in DOMAIN rooms
        /\ rooms[call[f].room] \in RoomRecord
    BY <1>5 DEF JoinGame, LobbyInv, CallOk, WithRoom, LobbyTypes
  <2>2. PICK r, room :
                 /\ r \in DOMAIN rooms
                 /\ r = call[f].room /\ room = join(rooms[r], MySeat(f))
                 /\ SetRoom(r, room)
    BY <2>1
  <2>3. room.origin = rooms[r].origin /\ room.offer = rooms[r].offer
    BY <2>1, <2>2 DEF join, RoomRecord
  <2>. QED
    BY <1>1, <2>1, <2>2, <2>3, CountsOfRoom, AcceptingMoves DEF CountsKept, Idle
<1>6. CASE Spectate(f)
  <2>1. /\ Run(f, Idle) /\ offers' = offers /\ call[f].room \in DOMAIN rooms
        /\ rooms[call[f].room] \in RoomRecord
    BY <1>6 DEF Spectate, LobbyInv, CallOk, WithRoom, LobbyTypes
  <2>2. PICK r, w, room :
                 /\ r \in DOMAIN rooms
                 /\ r = call[f].room /\ SetRoom(r, room)
                 /\ room = rooms[r] \/ room = [rooms[r] EXCEPT !.spectators = @ \cup {w}]
    BY <1>6, <2>1 DEF Spectate
  <2>3. room.origin = rooms[r].origin /\ room.offer = rooms[r].offer
    BY <2>1, <2>2 DEF RoomRecord
  <2>. QED
    BY <1>1, <2>1, <2>2, <2>3, CountsOfRoom, AcceptingMoves DEF CountsKept, Idle
<1>7. CASE Enqueue(f)
  <2>1. PICK c : Run(f, c) /\ c.op = "match"
    BY <1>7 DEF Enqueue
  <2>. QED
    BY <1>1, <1>2, <1>7, <2>1, AcceptingMoves DEF Enqueue, CountsKept
<1>8. CASE MatchCreate(f)
  <2>1. PICK a, b : /\ create_room(Seat(a.fd, a.player, a.born), "match")
                    /\ Run(f, [op |-> "pair", room |-> Len(rooms) + 1, a |-> a, b |-> b])
    BY <1>8 DEF MatchCreate
  <2>2. PICK white, c : /\ create_room(white, "match") /\ Run(f, c) /\ c.op = "pair"
    BY <2>1
  <2>3. RematchRooms' = RematchRooms /\ Offered' = Offered
    BY <1>1, <2>2, CountsOfNewRoom
  <2>. QED
    BY <1>1, <1>8, <2>2, <2>3, AcceptingMoves DEF MatchCreate, CountsKept
<1>9. CASE MatchJoin(f)
  <2>1. /\ offers' = offers /\ call[f].room \in DOMAIN rooms
        /\ rooms[call[f].room] \in RoomRecord
    BY <1>9 DEF MatchJoin, LobbyInv, CallOk, WithRoom, LobbyTypes
  <2>2. PICK r, s, room :
                 /\ r \in DOMAIN rooms
                 /\ r = call[f].room /\ room = join(rooms[r], s)
                 /\ SetRoom(r, room)
    BY <1>9, <2>1 DEF MatchJoin
  <2>3. room.origin = rooms[r].origin /\ room.offer = rooms[r].offer
    BY <2>1, <2>2 DEF join, RoomRecord
  <2>4. PICK c : Run(f, c) /\ c.op = "match"
    BY <1>9 DEF MatchJoin
  <2>. QED
    BY <1>1, <2>1, <2>2, <2>3, <2>4, CountsOfRoom, AcceptingMoves DEF CountsKept
<1>10. CASE MatchDone(f)
  BY <1>1, <1>2, <1>10, AcceptingMoves DEF MatchDone, CountsKept, Idle
<1>11. CASE CancelQueue(f)
  BY <1>2, <1>11 DEF CancelQueue, CountsKept, Accepting
<1>12. CASE Resume(f)
  <2>1. PICK c : Run(f, c) /\ c.op = "resume"
    BY <1>12 DEF Resume
  <2>. QED
    BY <1>1, <1>2, <1>12, <2>1, AcceptingMoves DEF Resume, CountsKept
<1>13. CASE OnReconnectDbPlayer(f)
  <2>1. /\ Run(f, Idle) /\ offers' = offers /\ call[f].room \in DOMAIN rooms
        /\ rooms[call[f].room] \in RoomRecord
    BY <1>13 DEF OnReconnectDbPlayer, LobbyInv, CallOk, WithRoom, LobbyTypes
  <2>2. PICK r, c, mine, room :
                 /\ r \in DOMAIN rooms
                 /\ r = call[f].room /\ SetRoom(r, room)
                 /\ room = rooms[r] \/ room = [rooms[r] EXCEPT !.seat[c] = mine]
    BY <1>13, <2>1 DEF OnReconnectDbPlayer
  <2>3. room.origin = rooms[r].origin /\ room.offer = rooms[r].offer
    BY <2>1, <2>2 DEF RoomRecord
  <2>. QED
    BY <1>1, <2>1, <2>2, <2>3, CountsOfRoom, AcceptingMoves DEF CountsKept, Idle
<1>. QED
  BY <1>3, <1>4, <1>5, <1>6, <1>7, <1>8, <1>9, <1>10, <1>11, <1>12, <1>13 DEF Request

LEMMA DisconnectsCount ==
    ASSUME LobbyInv, NEW f \in Fds, Disconnect(f)
    PROVE  CountsKept
<1>1. LobbyTypes
  BY DEF LobbyInv
<1>2. ASSUME UNCHANGED <<rooms, offers>> PROVE RematchRooms' = RematchRooms /\ Offered' \subseteq Offered
  BY <1>2 DEF RematchRooms, Offered
<1>3. CASE CloseConnection(f) \/ DisconnectDequeue(f) \/ DisconnectFind(f)
  <2>1. PICK c : Run(f, c) /\ c.op \in {"dequeue", "find", "sweep", "detach"}
    <3>1. CASE CloseConnection(f)
      <4>1. PICK c : Run(f, c) /\ c.op = "dequeue"
        BY <3>1 DEF CloseConnection
      <4>. QED
        BY <4>1
    <3>2. CASE DisconnectDequeue(f)
      <4>1. PICK c : Run(f, c) /\ c.op = "find"
        BY <3>2 DEF DisconnectDequeue, Advance
      <4>. QED
        BY <4>1
    <3>3. CASE DisconnectFind(f)
      <4>1. CASE Run(f, [op |-> "sweep", gen |-> call[f].gen])
        <5>1. PICK c : Run(f, c) /\ c.op = "sweep"
          BY <4>1
        <5>. QED
          BY <5>1
      <4>2. CASE \E r : Run(f, [op |-> "detach", gen |-> call[f].gen, room |-> r])
        <5>1. PICK c : Run(f, c) /\ c.op = "detach"
          BY <4>2
        <5>. QED
          BY <5>1
      <4>. QED
        BY <3>3, <4>1, <4>2 DEF DisconnectFind
    <3>. QED
      BY <1>3, <3>1, <3>2, <3>3
  <2>2. UNCHANGED <<rooms, offers>>
    BY <1>3 DEF CloseConnection, DisconnectDequeue, DisconnectFind
  <2>. QED
    BY <1>1, <1>2, <2>1, <2>2, AcceptingMoves DEF CountsKept
<1>4. CASE DisconnectDetach(f)
  <2>1. /\ offers' = offers /\ call[f].room \in DOMAIN rooms
        /\ rooms[call[f].room] \in RoomRecord
    BY <1>4 DEF DisconnectDetach, Advance, LobbyInv, CallOk, WithRoom, LobbyTypes
  <2>2. PICK r, room :
                 /\ r \in DOMAIN rooms
                 /\ r = call[f].room
                 /\ SetRoom(r, room)
                 /\ room = OnDisconnect(rooms[r], f)
    BY <1>4, <2>1 DEF DisconnectDetach
  <2>3. room.origin = rooms[r].origin /\ room.offer = rooms[r].offer
    BY <2>1, <2>2 DEF OnDisconnect, RoomRecord
  <2>4. PICK c : Run(f, c) /\ c.op = "sweep"
    BY <1>4 DEF DisconnectDetach, Advance
  <2>. QED
    BY <1>1, <2>1, <2>2, <2>3, <2>4, CountsOfRoom, AcceptingMoves DEF CountsKept
<1>5. CASE DisconnectSweep(f)
  <2>1. /\ Run(f, Idle) /\ offers' = offers
        /\ rooms' = [r \in DOMAIN rooms |-> IF r \in rooms_ THEN remove_spectator(rooms[r], f)
                                                             ELSE rooms[r]]
    BY <1>5 DEF DisconnectSweep, ChangeRooms
  <2>2. ASSUME NEW r \in DOMAIN rooms
        PROVE  rooms'[r].origin = rooms[r].origin /\ rooms'[r].offer = rooms[r].offer
    <3>1. rooms[r] \in RoomRecord
      BY <1>1 DEF LobbyTypes
    <3>. QED
      BY <2>1, <3>1 DEF remove_spectator, RoomRecord
  <2>3. RematchRooms' = RematchRooms /\ Offered' = Offered
    BY <2>1, <2>2 DEF RematchRooms, Offered
  <2>. QED
    BY <1>1, <2>1, <2>3, AcceptingMoves DEF CountsKept, Idle
<1>. QED
  BY <1>3, <1>4, <1>5 DEF Disconnect

(* The steps of a rematch: an offer is made once, spent by the answer, and *)
(* the answer by the room that is created for it.                          *)
LEMMA OffersCount ==
    ASSUME LobbyInv, OffersCounted, NEW f \in Fds, OfferRematch(f)
    PROVE  OffersCounted'
<1>1. LobbyTypes /\ offers \in Nat /\ IsFiniteSet(Accepting)
  BY DEF LobbyInv, OffersCounted
<1>2. /\ Run(f, Idle) /\ call[f].room \in DOMAIN rooms
  BY DEF OfferRematch, LobbyInv, CallOk, WithRoom
<1>3. PICK r, c :
               /\ r \in DOMAIN rooms
               /\ r = call[f].room
               /\ c = color_of(r, f)
  BY <1>2
<1>4. rooms[r] \in RoomRecord
  BY <1>1, <1>3 DEF LobbyTypes
<1>5. Accepting' \subseteq Accepting
  BY <1>1, <1>2, AcceptingMoves DEF Idle
<1>6. CASE offers' = offers /\ SetRoom(r, rooms[r])
  <2>1. CountsKept
    BY <1>1, <1>3, <1>5, <1>6, CountsOfRoom DEF CountsKept
  <2>. QED
    BY <1>1, <2>1, CountsKeep
<1>7. CASE offers' = offers + 1 /\ SetRoom(r, [rooms[r] EXCEPT !.offer = c])
  <2>1. PICK room : SetRoom(r, room) /\ room = [rooms[r] EXCEPT !.offer = c]
    BY <1>7
  <2>2. room.origin = rooms[r].origin
    BY <1>4, <2>1 DEF RoomRecord
  <2>3. rooms' = [rooms EXCEPT ![r] = room] /\ rooms \in Seq(RoomRecord)
    BY <1>1, <2>1 DEF SetRoom, ChangeRooms, LobbyTypes
  <2>4. /\ DOMAIN rooms' = DOMAIN rooms /\ rooms'[r] = room
        /\ \A q \in DOMAIN rooms : q # r => rooms'[q] = rooms[q]
    BY <1>3, <2>3
  <2>5. RematchRooms' = RematchRooms /\ Offered' \subseteq Offered \cup {r}
    BY <2>2, <2>4 DEF RematchRooms, Offered
  <2>6. PICK A, O : A = Accepting' /\ O = Offered'
    OBVIOUS
  <2>7. /\ IsFiniteSet(A) /\ Cardinality(A) <= Cardinality(Accepting)
        /\ Cardinality(Accepting) \in Nat /\ Cardinality(A) \in Nat
    <3>1. A \in SUBSET Accepting
      BY <1>5, <2>6
    <3>2. IsFiniteSet(A) /\ Cardinality(A) <= Cardinality(Accepting)
      BY <1>1, <3>1, FS_Subset
    <3>. QED
      BY <1>1, <3>2, FS_CardinalityType
  <2>8. /\ Cardinality(O) \in Nat /\ Cardinality(O) <= Cardinality(Offered) + 1
        /\ Cardinality(Offered) \in Nat /\ Cardinality(RematchRooms) \in Nat
    <3>1. IsFiniteSet(Offered) /\ O \subseteq Offered \cup {r}
      BY <1>1, <2>5, <2>6, RoomsFinite
    <3>. QED
      BY <1>1, <3>1, OneMore, RoomsFinite
  <2>9. Cardinality(RematchRooms) + Cardinality(A) + Cardinality(O) <= offers + 1
    BY <1>1, <2>7, <2>8 DEF OffersCounted
  <2>. QED
    BY <1>1, <1>7, <2>5, <2>6, <2>7, <2>9 DEF OffersCounted
<1>. QED
  BY <1>3, <1>6, <1>7 DEF OfferRematch

LEMMA AnswersCount ==
    ASSUME LobbyInv, OffersCounted, NEW f \in Fds, RespondToRematch(f)
    PROVE  OffersCounted'
<1>1. LobbyTypes /\ offers \in Nat /\ IsFiniteSet(Accepting) /\ offers' = offers
  BY DEF LobbyInv, OffersCounted, RespondToRematch
<1>2. PICK r \in DOMAIN rooms : r = call[f].room
  BY DEF RespondToRematch, LobbyInv, CallOk, WithRoom
<1>3. CASE ~CanRespond(f, r)
  <2>1. Run(f, Idle) /\ rooms' = rooms
    BY <1>2, <1>3 DEF RespondToRematch
  <2>2. CountsKept
    BY <1>1, <2>1, AcceptingMoves DEF CountsKept, RematchRooms, Offered, Idle
  <2>. QED
    BY <1>1, <2>2, CountsKeep
<1>4. CASE CanRespond(f, r)
  <2>1. rooms[r] \in RoomRecord /\ r \in Offered
    BY <1>1, <1>4 DEF LobbyTypes, CanRespond, Offered
  <2>2. PICK room, c : /\ SetRoom(r, room) /\ room = [rooms[r] EXCEPT !.offer = NoColor]
                       /\ Run(f, c) /\ c.op = "accepted"
    BY <1>2, <1>4 DEF RespondToRematch, ClearOffer
  <2>3. room.origin = rooms[r].origin /\ room.offer = NoColor
    BY <2>1, <2>2 DEF RoomRecord
  <2>4. rooms' = [rooms EXCEPT ![r] = room] /\ rooms \in Seq(RoomRecord)
    BY <1>1, <2>2 DEF SetRoom, ChangeRooms, LobbyTypes
  <2>5. /\ DOMAIN rooms' = DOMAIN rooms /\ rooms'[r] = room
        /\ \A q \in DOMAIN rooms : q # r => rooms'[q] = rooms[q]
    BY <2>4
  <2>6. RematchRooms' = RematchRooms /\ Offered' \subseteq Offered \ {r}
    BY <2>3, <2>5 DEF RematchRooms, Offered
  <2>7. PICK A, O : A = Accepting' /\ O = Offered'
    OBVIOUS
  <2>8. /\ IsFiniteSet(A) /\ Cardinality(A) \in Nat /\ Cardinality(A) <= Cardinality(Accepting) + 1
    <3>1. A \subseteq Accepting \cup {f}
      BY <1>1, <2>2, <2>7, AcceptingMoves
    <3>. QED
      BY <1>1, <3>1, OneMore
  <2>9. Cardinality(O) \in Nat /\ Cardinality(O) + 1 <= Cardinality(Offered)
    <3>1. IsFiniteSet(Offered) /\ O \subseteq Offered \ {r}
      BY <1>1, <2>6, <2>7, RoomsFinite
    <3>. QED
      BY <2>1, <3>1, OneLess
  <2>10. /\ Cardinality(RematchRooms) \in Nat /\ Cardinality(Offered) \in Nat
         /\ Cardinality(Accepting) \in Nat
    BY <1>1, RoomsFinite, FS_CardinalityType
  <2>11. Cardinality(RematchRooms) + Cardinality(A) + Cardinality(O) <= offers
    BY <1>1, <2>8, <2>9, <2>10 DEF OffersCounted
  <2>. QED
    BY <1>1, <2>6, <2>7, <2>8, <2>11 DEF OffersCounted
<1>. QED
  BY <1>3, <1>4

LEMMA CreationsCount ==
    ASSUME LobbyInv, OffersCounted, NEW f \in Fds, RematchCreate(f)
    PROVE  OffersCounted'
<1>1. /\ LobbyTypes /\ offers \in Nat /\ IsFiniteSet(Accepting) /\ offers' = offers
      /\ f \in Accepting
  BY DEF LobbyInv, OffersCounted, RematchCreate, Accepting
<1>2. PICK white, c : create_room(white, "rematch") /\ Run(f, c) /\ c.op = "seat"
  BY DEF RematchCreate
<1>3. PICK n : n = Len(rooms) + 1
  OBVIOUS
<1>4. RematchRooms' = RematchRooms \cup {n} /\ Offered' = Offered
  BY <1>1, <1>2, <1>3, CountsOfNewRoom
<1>5. PICK A, R : A = Accepting' /\ R = RematchRooms'
  OBVIOUS
<1>6. IsFiniteSet(A) /\ Cardinality(A) \in Nat /\ Cardinality(A) + 1 <= Cardinality(Accepting)
  <2>1. A \subseteq Accepting \ {f}
    BY <1>1, <1>2, <1>5, AcceptingMoves
  <2>. QED
    BY <1>1, <2>1, OneLess
<1>7. Cardinality(R) \in Nat /\ Cardinality(R) <= Cardinality(RematchRooms) + 1
  <2>1. IsFiniteSet(RematchRooms) /\ R \subseteq RematchRooms \cup {n}
    BY <1>1, <1>4, <1>5, RoomsFinite
  <2>. QED
    BY <2>1, OneMore
<1>8. /\ Cardinality(RematchRooms) \in Nat /\ Cardinality(Offered) \in Nat
      /\ Cardinality(Accepting) \in Nat
  BY <1>1, RoomsFinite, FS_CardinalityType
<1>9. Cardinality(R) + Cardinality(A) + Cardinality(Offered) <= offers
  BY <1>1, <1>6, <1>7, <1>8 DEF OffersCounted
<1>. QED
  BY <1>1, <1>4, <1>5, <1>6, <1>9 DEF OffersCounted

(* The other steps of a rematch, the end of a game and the lapse of an     *)
(* offer count nothing.                                                    *)
LEMMA RematchesCount ==
    ASSUME LobbyInv, NEW f \in Fds, AskRematch(f) \/ ReadSeats(f) \/ RematchJoin(f)
    PROVE  CountsKept
<1>1. LobbyTypes
  BY DEF LobbyInv
<1>2. ASSUME UNCHANGED <<rooms, offers>> PROVE RematchRooms' = RematchRooms /\ Offered' \subseteq Offered
  BY <1>2 DEF RematchRooms, Offered
<1>3. CASE AskRematch(f)
  <2>1. PICK op \in {"offer", "accept"} : \E r : Run(f, [op |-> op, room |-> r])
    BY <1>3 DEF AskRematch
  <2>2. PICK c : Run(f, c) /\ c.op = op
    BY <2>1
  <2>. QED
    BY <1>1, <1>2, <1>3, <2>2, AcceptingMoves DEF AskRematch, CountsKept
<1>4. CASE ReadSeats(f)
  <2>1. PICK c : Run(f, c)
    BY <1>4 DEF ReadSeats
  <2>2. f \in Accepting
    BY <1>4 DEF ReadSeats, Accepting
  <2>. QED
    BY <1>1, <1>2, <1>4, <2>1, <2>2, AcceptingMoves DEF ReadSeats, CountsKept
<1>5. CASE RematchJoin(f)
  <2>1. /\ Run(f, Idle) /\ offers' = offers /\ call[f].room \in DOMAIN rooms
        /\ rooms[call[f].room] \in RoomRecord
    BY <1>5 DEF RematchJoin, LobbyInv, CallOk, WithRoom, LobbyTypes
  <2>2. PICK r, s, room :
                 /\ r \in DOMAIN rooms
                 /\ r = call[f].room
                 /\ room = join(rooms[r], s)
                 /\ SetRoom(r, room)
    BY <1>5, <2>1 DEF RematchJoin
  <2>3. room.origin = rooms[r].origin /\ room.offer = rooms[r].offer
    BY <2>1, <2>2 DEF join, RoomRecord
  <2>. QED
    BY <1>1, <2>1, <2>2, <2>3, CountsOfRoom, AcceptingMoves DEF CountsKept, Idle
<1>. QED
  BY <1>3, <1>4, <1>5

LEMMA RoomsCount ==
    ASSUME LobbyInv, NEW r \in rooms_,
           FinishGame(r) \/ ExpireRematchOffer(r) \/ \E f \in Fds : DeclineRematch(f, r)
    PROVE  CountsKept
<1>1. LobbyTypes /\ r \in DOMAIN rooms /\ rooms[r] \in RoomRecord
  BY DEF LobbyInv, LobbyTypes
<1>2. offers' = offers /\ call' = call
  BY DEF FinishGame, ExpireRematchOffer, DeclineRematch
<1>3. PICK room : /\ SetRoom(r, room)
                  /\ \/ room = [rooms[r] EXCEPT !.state = "FINISHED"]
                     \/ room = [rooms[r] EXCEPT !.offer = NoColor]
  BY DEF FinishGame, ExpireRematchOffer, DeclineRematch, ClearOffer
<1>4. room.origin = rooms[r].origin /\ room.offer \in {rooms[r].offer, NoColor}
  BY <1>1, <1>3 DEF RoomRecord
<1>5. Accepting' = Accepting
  BY <1>2 DEF Accepting
<1>. QED
  BY <1>1, <1>2, <1>3, <1>4, <1>5, CountsOfRoom DEF CountsKept

LEMMA CountingStart == LobbyInit => OffersCounted
<1>. SUFFICES ASSUME LobbyInit PROVE OffersCounted
  OBVIOUS
<1>1. rooms = <<>> /\ offers = 0 /\ call = [f \in Fds |-> Idle]
  BY DEF LobbyInit
<1>2. RematchRooms = {} /\ Offered = {}
  BY <1>1 DEF RematchRooms, Offered
<1>3. Accepting = {}
  BY <1>1 DEF Accepting, Idle
<1>. QED
  BY <1>1, <1>2, <1>3, FS_EmptySet DEF OffersCounted

LEMMA CountingKeeps == LobbyInv /\ OffersCounted /\ [LobbyNext]_lobbyVars => OffersCounted'
<1>. SUFFICES ASSUME LobbyInv, OffersCounted, [LobbyNext]_lobbyVars PROVE OffersCounted'
  OBVIOUS
<1>1. CountsKept => OffersCounted'
  BY CountsKeep DEF LobbyInv
<1>2. CASE UNCHANGED lobbyVars \/ \E f \in Fds, p \in Players : Accept(f, p)
  <2>1. rooms' = rooms /\ call' = call /\ offers' = offers
    BY <1>2 DEF lobbyVars, Accept
  <2>2. CountsKept
    BY <2>1 DEF CountsKept, RematchRooms, Offered, Accepting
  <2>. QED
    BY <1>1, <2>2
<1>3. ASSUME NEW f \in Fds, Request(f) PROVE OffersCounted'
  BY <1>1, <1>3, RequestsCount
<1>4. ASSUME NEW f \in Fds, Disconnect(f) PROVE OffersCounted'
  BY <1>1, <1>4, DisconnectsCount
<1>5. ASSUME NEW f \in Fds, Rematch(f) PROVE OffersCounted'
  BY <1>1, <1>5, OffersCount, AnswersCount, CreationsCount, RematchesCount, RoomsCount DEF Rematch
<1>6. ASSUME NEW r \in rooms_, FinishGame(r) \/ ExpireRematchOffer(r) PROVE OffersCounted'
  BY <1>1, <1>6, RoomsCount
<1>. QED
  BY <1>2, <1>3, <1>4, <1>5, <1>6 DEF LobbyNext

(* gameplay_service.cpp, respond_to_rematch: one offer leads to one        *)
(* rematch at most, whichever windows its players answer it from and       *)
(* however their requests overlap; the answer takes the offer away under   *)
(* the lock of its room, before any other room is created.                 *)
THEOREM OffersSpentOnce == LobbySpec => []OneRoomPerOffer
<1>1. LobbyInit => LobbyInv /\ OffersCounted
  BY LobbyStart, CountingStart
<1>2. LobbyInv /\ OffersCounted /\ [LobbyNext]_lobbyVars => LobbyInv' /\ OffersCounted'
  BY LobbyKeeps, CountingKeeps
<1>3. LobbyInv /\ OffersCounted => OneRoomPerOffer
  <2>. SUFFICES ASSUME LobbyInv, OffersCounted PROVE OneRoomPerOffer
    OBVIOUS
  <2>1. /\ Cardinality(RematchRooms) \in Nat /\ Cardinality(Offered) \in Nat
        /\ Cardinality(Accepting) \in Nat
    BY RoomsFinite, FS_CardinalityType DEF LobbyInv, OffersCounted
  <2>2. Cardinality(RematchRooms) <= offers
    BY <2>1 DEF OffersCounted
  <2>. QED
    BY <2>2 DEF OneRoomPerOffer, RematchRooms
<1>. QED
  BY <1>1, <1>2, <1>3, PTL DEF LobbySpec
-----------------------------------------------------------------------------
(* Broadcasts                                                              *)

People == Rivals \cup {"watcher"}
Handlers == People \cup {"upkeep"}
CastFrames == [type : {"move_made", "state"}, n : Nat]
          \cup [type : {"game_over", "draw_declined", "draw_offer_sent", "draw_offered", "draw_offer_resolved"}]
AllErrands == [do : {"tell"}, to : People, frame : CastFrames] \cup [do : {"fan"}, frame : CastFrames]
              \cup [do : {"think", "join", "history"}]

CastTypes ==
    /\ engineGame \in BOOLEAN /\ plies \in Nat /\ ending \in {"none", "timeout", "other"}
    /\ offeredBy \in Rivals \cup {"none"} /\ watching \in BOOLEAN /\ blind \in BOOLEAN
    /\ engineGame => offeredBy = "none"
    /\ errands \in [Handlers -> Seq(AllErrands)]
    /\ inbox \in [People -> [moves : Seq(Nat), states : SUBSET Nat, over : BOOLEAN]]

(* Who reads a state first joins the list, and reads the moves afterwards. *)
Reads(h) == Errand("history") \in ToSet(errands[h])
Joins(h) == Errand("join") \in ToSet(errands[h])
ReadersKnown ==
    /\ \A h \in Handlers : Errand("think") \in ToSet(errands[h]) => engineGame
    /\ ~Reads("upkeep")
    /\ \A h \in Handlers \ {"watcher"} : ~Joins(h)
    /\ Joins("watcher") => errands["watcher"] = Onboarding /\ ~watching

(* What has been sent, or is still to be sent.                             *)
Lasting == [type : {"move_made", "state"}, n : Nat] \cup {GameOver}
Arrived(p, frame) == \/ frame.type = "move_made" /\ frame.n \in ToSet(inbox[p].moves)
                     \/ frame.type = "state" /\ frame.n \in inbox[p].states
                     \/ frame.type = "game_over" /\ inbox[p].over
Pending(e) == \E h \in Handlers : e \in ToSet(errands[h])
Due(p, frame) == Arrived(p, frame) \/ Pending(Tell(p, frame))
DueToWatcher(frame) == Due("watcher", frame) \/ Pending(Fan(frame))
PlayersServed == \A p \in Seated : \A n \in 1..plies : Due(p, MoveMade(n))
ServedFrom(s) == /\ Due("watcher", StateFrame(s))
                 /\ \A n \in (s + 1)..plies : DueToWatcher(MoveMade(n))
WatcherServed == watching => Reads("watcher") \/ \E s \in Nat : ServedFrom(s)
EndTold == ending # "none" => /\ \A p \in Seated : Due(p, GameOver)
                              /\ watching => DueToWatcher(GameOver)

(* The last move is on its way to nobody, to the opponent or to both, from *)
(* the head of its mover's errands; earlier moves have arrived in order.   *)
BringsMove(e) == e.do = "tell" /\ e.to \in Rivals /\ e.frame.type = "move_made"
Moveless(list) == \A e \in ToSet(list) : ~BringsMove(e)
UpTo(n) == [i \in 1..n |-> i]
Mover == IF engineGame THEN "w" ELSE Across(ToMove)
OthersMoveless == \A h \in Handlers \ {Mover} : Moveless(errands[h])
AllArrived == /\ \A p \in Seated : inbox[p].moves = UpTo(plies)
              /\ \A h \in Handlers : Moveless(errands[h])
ToOpponent == /\ ~engineGame /\ plies > 0 /\ OthersMoveless /\ errands[Mover] # <<>>
              /\ inbox[Mover].moves = UpTo(plies) /\ inbox[Across(Mover)].moves = UpTo(plies - 1)
              /\ Head(errands[Mover]) = Tell(Across(Mover), MoveMade(plies))
              /\ Moveless(Tail(errands[Mover]))
ToAll == /\ plies > 0 /\ OthersMoveless /\ errands[Mover] # <<>>
         /\ \A p \in Seated : inbox[p].moves = UpTo(plies - 1)
         /\ Head(errands[Mover]) = Tell(Mover, MoveMade(plies))
         /\ IF engineGame THEN Moveless(Tail(errands[Mover]))
            ELSE /\ Tail(errands[Mover]) # <<>>
                 /\ Head(Tail(errands[Mover])) = Tell(Across(Mover), MoveMade(plies))
                 /\ Moveless(Tail(Tail(errands[Mover])))
InTurn == ~blind => AllArrived \/ ToOpponent \/ ToAll

CastInv == CastTypes /\ ReadersKnown /\ PlayersServed /\ WatcherServed /\ EndTold /\ InTurn

(* Lists of errands as the sets of what is in them.                        *)
LEMMA ListsAre ==
    /\ \A S : <<>> \in Seq(S) /\ ToSet(<<>>) = {}
    /\ \A S : \A x \in S : <<x>> \in Seq(S) /\ ToSet(<<x>>) = {x}
    /\ \A S : \A x \in S : \A y \in S : <<x, y>> \in Seq(S) /\ ToSet(<<x, y>>) = {x, y}
<1>1. ASSUME NEW S PROVE <<>> \in Seq(S) /\ ToSet(<<>>) = {}
  BY DEF ToSet
<1>2. ASSUME NEW S, NEW x \in S PROVE <<x>> \in Seq(S) /\ ToSet(<<x>>) = {x}
  <2>1. <<x>> \in Seq(S) /\ DOMAIN <<x>> = {1} /\ <<x>>[1] = x
    OBVIOUS
  <2>. QED
    BY <2>1 DEF ToSet
<1>3. ASSUME NEW S, NEW x \in S, NEW y \in S PROVE <<x, y>> \in Seq(S) /\ ToSet(<<x, y>>) = {x, y}
  <2>1. <<x, y>> \in Seq(S) /\ DOMAIN <<x, y>> = {1, 2} /\ <<x, y>>[1] = x /\ <<x, y>>[2] = y
    OBVIOUS
  <2>. QED
    BY <2>1 DEF ToSet
<1>. QED
  BY <1>1, <1>2, <1>3

LEMMA JoinedLists ==
    ASSUME NEW S, NEW s \in Seq(S), NEW t \in Seq(S)
    PROVE  s \o t \in Seq(S) /\ ToSet(s \o t) = ToSet(s) \cup ToSet(t)
<1>1. /\ s \o t \in Seq(S) /\ Len(s) \in Nat /\ Len(t) \in Nat
      /\ DOMAIN s = 1..Len(s) /\ DOMAIN t = 1..Len(t) /\ DOMAIN (s \o t) = 1..(Len(s) + Len(t))
  OBVIOUS
<1>2. \A i \in 1..(Len(s) + Len(t)) : (s \o t)[i] = IF i <= Len(s) THEN s[i] ELSE t[i - Len(s)]
  OBVIOUS
<1>3. ASSUME NEW x \in ToSet(s \o t) PROVE x \in ToSet(s) \cup ToSet(t)
  <2>1. PICK i \in 1..(Len(s) + Len(t)) : x = (s \o t)[i]
    BY <1>1 DEF ToSet
  <2>2. CASE i <= Len(s)
    BY <1>1, <1>2, <2>1, <2>2 DEF ToSet
  <2>3. CASE i > Len(s)
    <3>1. i - Len(s) \in 1..Len(t)
      BY <1>1, <2>3
    <3>. QED
      BY <1>1, <1>2, <2>1, <2>3, <3>1 DEF ToSet
  <2>. QED
    BY <1>1, <2>2, <2>3
<1>4. ASSUME NEW x \in ToSet(s) PROVE x \in ToSet(s \o t)
  <2>1. PICK i \in 1..Len(s) : x = s[i]
    BY <1>1 DEF ToSet
  <2>2. i \in 1..(Len(s) + Len(t)) /\ (s \o t)[i] = x
    BY <1>1, <1>2, <2>1
  <2>. QED
    BY <1>1, <2>2 DEF ToSet
<1>5. ASSUME NEW x \in ToSet(t) PROVE x \in ToSet(s \o t)
  <2>1. PICK i \in 1..Len(t) : x = t[i]
    BY <1>1 DEF ToSet
  <2>2. PICK k \in 1..(Len(s) + Len(t)) : k = Len(s) + i
    BY <1>1
  <2>3. (s \o t)[k] = x
    BY <1>1, <1>2, <2>1, <2>2
  <2>. QED
    BY <1>1, <2>3 DEF ToSet
<1>. QED
  BY <1>1, <1>3, <1>4, <1>5

LEMMA ListsSplit ==
    ASSUME NEW S, NEW s \in Seq(S), s # <<>>
    PROVE  Head(s) \in S /\ Tail(s) \in Seq(S) /\ ToSet(s) = {Head(s)} \cup ToSet(Tail(s))
<1>1. /\ Head(s) \in S /\ Tail(s) \in Seq(S) /\ Len(s) \in Nat \ {0} /\ Head(s) = s[1]
      /\ Len(Tail(s)) = Len(s) - 1 /\ DOMAIN s = 1..Len(s) /\ DOMAIN Tail(s) = 1..(Len(s) - 1)
  OBVIOUS
<1>2. \A i \in 1..(Len(s) - 1) : Tail(s)[i] = s[i + 1]
  OBVIOUS
<1>3. ASSUME NEW x \in ToSet(s) PROVE x \in {Head(s)} \cup ToSet(Tail(s))
  <2>1. PICK i \in 1..Len(s) : x = s[i]
    BY <1>1 DEF ToSet
  <2>2. CASE i = 1
    BY <1>1, <2>1, <2>2
  <2>3. CASE i # 1
    <3>1. PICK k \in 1..(Len(s) - 1) : k + 1 = i
      BY <1>1, <2>3
    <3>2. Tail(s)[k] = x
      BY <1>2, <2>1, <3>1
    <3>. QED
      BY <1>1, <3>2 DEF ToSet
  <2>. QED
    BY <2>2, <2>3
<1>4. ASSUME NEW x \in ToSet(Tail(s)) PROVE x \in ToSet(s)
  <2>1. PICK k \in 1..(Len(s) - 1) : x = Tail(s)[k]
    BY <1>1 DEF ToSet
  <2>2. PICK i \in 1..Len(s) : i = k + 1
    BY <1>1
  <2>3. s[i] = x
    BY <1>2, <2>1, <2>2
  <2>. QED
    BY <1>1, <2>3 DEF ToSet
<1>5. Head(s) \in ToSet(s)
  BY <1>1 DEF ToSet
<1>. QED
  BY <1>1, <1>3, <1>4, <1>5

LEMMA HeadOfJoined ==
    ASSUME NEW S, NEW s \in Seq(S), NEW t \in Seq(S), s # <<>>
    PROVE  s \o t # <<>> /\ Head(s \o t) = Head(s) /\ Tail(s \o t) = Tail(s) \o t
<1>1. /\ s \o t \in Seq(S) /\ Len(s) \in Nat \ {0} /\ Len(t) \in Nat /\ Len(s \o t) = Len(s) + Len(t)
      /\ Head(s) = s[1] /\ Tail(s) \in Seq(S) /\ Len(Tail(s)) = Len(s) - 1
  OBVIOUS
<1>2. s \o t # <<>> /\ Head(s \o t) = s[1]
  BY <1>1
<1>3. Tail(s \o t) \in Seq(S) /\ Tail(s) \o t \in Seq(S)
  BY <1>1, <1>2
<1>4. Len(Tail(s \o t)) = Len(s) + Len(t) - 1 /\ Len(Tail(s) \o t) = Len(s) + Len(t) - 1
  BY <1>1, <1>2
<1>5. ASSUME NEW i \in 1..Len(Tail(s \o t)) PROVE Tail(s \o t)[i] = (Tail(s) \o t)[i]
  <2>1. Tail(s \o t)[i] = (s \o t)[i + 1]
    BY <1>1, <1>2, <1>4
  <2>2. (s \o t)[i + 1] = IF i + 1 <= Len(s) THEN s[i + 1] ELSE t[i + 1 - Len(s)]
    BY <1>1, <1>4
  <2>3. (Tail(s) \o t)[i] = IF i <= Len(s) - 1 THEN Tail(s)[i] ELSE t[i - (Len(s) - 1)]
    BY <1>1, <1>4
  <2>4. i <= Len(s) - 1 => Tail(s)[i] = s[i + 1]
    BY <1>1
  <2>. QED
    BY <1>1, <1>4, <2>1, <2>2, <2>3, <2>4
<1>6. Tail(s \o t) = Tail(s) \o t
  BY <1>3, <1>4, <1>5, SeqEqual
<1>. QED
  BY <1>1, <1>2, <1>6

(* The kinds of errands.                                                   *)
LEMMA ErrandsAre ==
    /\ \A e \in AllErrands : /\ e.do \in {"tell", "fan", "think", "join", "history"}
                             /\ e.do = "tell" => e = Tell(e.to, e.frame) /\ e.to \in People /\ e.frame \in CastFrames
                             /\ e.do = "fan" => e = Fan(e.frame) /\ e.frame \in CastFrames
                             /\ e.do \in {"think", "join", "history"} => e = Errand(e.do)
    /\ {Errand("think"), Errand("join"), Errand("history")} \subseteq AllErrands
    /\ \A p \in People : \A f \in CastFrames : Tell(p, f) \in AllErrands
    /\ \A f \in CastFrames : Fan(f) \in AllErrands
<1>1. \A e \in AllErrands : e.do \in {"tell", "fan", "think", "join", "history"}
  BY DEF AllErrands
<1>2. \A e \in AllErrands : e.do = "tell" => e = Tell(e.to, e.frame) /\ e.to \in People /\ e.frame \in CastFrames
  BY DEF AllErrands, Tell
<1>3. \A e \in AllErrands : e.do = "fan" => e = Fan(e.frame) /\ e.frame \in CastFrames
  BY DEF AllErrands, Fan
<1>4. \A e \in AllErrands : e.do \in {"think", "join", "history"} => e = Errand(e.do)
  BY DEF AllErrands, Errand
<1>5. {Errand("think"), Errand("join"), Errand("history")} \subseteq AllErrands
  BY DEF AllErrands, Errand
<1>6. \A p \in People : \A f \in CastFrames : Tell(p, f) \in AllErrands
  BY DEF AllErrands, Tell
<1>7. \A f \in CastFrames : Fan(f) \in AllErrands
  BY DEF AllErrands, Fan
<1>. QED
  BY <1>1, <1>2, <1>3, <1>4, <1>5, <1>6, <1>7

LEMMA ErrandsDiffer ==
    /\ \A p, f : Tell(p, f).do = "tell" /\ Tell(p, f).to = p /\ Tell(p, f).frame = f
    /\ \A f : Fan(f).do = "fan" /\ Fan(f).frame = f
    /\ \A k : Errand(k).do = k
BY DEF Tell, Fan, Errand

LEMMA FramesAre ==
    /\ \A n \in Nat : /\ MoveMade(n) \in Lasting /\ StateFrame(n) \in Lasting
                      /\ MoveMade(n).type = "move_made" /\ MoveMade(n).n = n
                      /\ StateFrame(n).type = "state" /\ StateFrame(n).n = n
    /\ GameOver \in Lasting /\ GameOver.type = "game_over"
    /\ Lasting \subseteq CastFrames
    /\ \A type \in {"draw_declined", "draw_offer_sent", "draw_offered", "draw_offer_resolved"} :
          Notice(type) \in CastFrames /\ Notice(type).type = type
    /\ \A f \in CastFrames : /\ f.type = "move_made" => f.n \in Nat /\ f = MoveMade(f.n)
                             /\ f.type = "state" => f.n \in Nat /\ f = StateFrame(f.n)
BY DEF MoveMade, StateFrame, GameOver, Notice, Lasting, CastFrames

(* What is told to both players.                                           *)
LEMMA BothErrands ==
    ASSUME NEW p \in Rivals, engineGame \in BOOLEAN, NEW f \in CastFrames, engineGame => p = "w"
    PROVE  /\ ToBoth(p, f) \in Seq(AllErrands) /\ ToSet(ToBoth(p, f)) = {Tell(q, f) : q \in Seated}
           /\ ToBoth(p, f) # <<>> /\ Head(ToBoth(p, f)) = Tell(p, f)
           /\ Tail(ToBoth(p, f)) = IF engineGame THEN <<>> ELSE <<Tell(Across(p), f)>>
<1>1. p \in People /\ Across(p) \in People /\ Across(p) \in Rivals
  BY DEF Rivals, People, Across
<1>2. Tell(p, f) \in AllErrands /\ Tell(Across(p), f) \in AllErrands
  BY <1>1, ErrandsAre
<1>3. Seated = IF engineGame THEN {p} ELSE {p, Across(p)}
  BY DEF Seated, Rivals, Across
<1>4. CASE engineGame
  <2>1. ToBoth(p, f) = <<Tell(p, f)>>
    BY <1>4 DEF ToBoth
  <2>2. ToSet(ToBoth(p, f)) = {Tell(p, f)} /\ ToBoth(p, f) \in Seq(AllErrands)
    BY <1>2, <2>1, ListsAre
  <2>3. ToBoth(p, f) # <<>> /\ Head(ToBoth(p, f)) = Tell(p, f) /\ Tail(ToBoth(p, f)) = <<>>
    BY <1>2, <2>1
  <2>. QED
    BY <1>3, <1>4, <2>2, <2>3
<1>5. CASE ~engineGame
  <2>1. ToBoth(p, f) = <<Tell(p, f), Tell(Across(p), f)>>
    BY <1>5 DEF ToBoth
  <2>2. ToSet(ToBoth(p, f)) = {Tell(p, f), Tell(Across(p), f)} /\ ToBoth(p, f) \in Seq(AllErrands)
    BY <1>2, <2>1, ListsAre
  <2>3. ToBoth(p, f) # <<>> /\ Head(ToBoth(p, f)) = Tell(p, f) /\ Tail(ToBoth(p, f)) = <<Tell(Across(p), f)>>
    BY <1>2, <2>1
  <2>. QED
    BY <1>3, <1>5, <2>2, <2>3
<1>. QED
  BY <1>4, <1>5

(* A step that loses nothing of what is due, and answers for what it adds. *)
Answers ==
    /\ engineGame' = engineGame
    /\ \A p \in People : \A f \in Lasting : Due(p, f) => Due(p, f)'
    /\ watching' /\ watching => /\ \A f \in Lasting : DueToWatcher(f) => DueToWatcher(f)'
                                /\ Reads("watcher") => Reads("watcher")' \/ \E s \in Nat : ServedFrom(s)'
    /\ watching' /\ ~watching => Reads("watcher")' /\ ending' = "none"
    /\ \/ plies' = plies
       \/ \E n \in Nat : /\ n = plies + 1 /\ plies' = n /\ DueToWatcher(MoveMade(n))'
                         /\ \A p \in Seated : Due(p, MoveMade(n))'
    /\ \/ ending' \in {ending, "none"}
       \/ DueToWatcher(GameOver)' /\ \A p \in Seated : Due(p, GameOver)'

LEMMA AnsweredServe ==
    ASSUME CastTypes, PlayersServed, WatcherServed, EndTold, Answers
    PROVE  PlayersServed' /\ WatcherServed' /\ EndTold'
<1>1. plies \in Nat /\ plies' \in {plies, plies + 1} /\ Seated' = Seated /\ Seated \subseteq People
  BY DEF CastTypes, Answers, Seated, Rivals, People
<1>2. ASSUME NEW p \in Seated, NEW n \in 1..plies' PROVE Due(p, MoveMade(n))'
  <2>1. CASE n \in 1..plies
    <3>1. Due(p, MoveMade(n)) /\ MoveMade(n) \in Lasting
      BY <1>1, <2>1, FramesAre DEF PlayersServed
    <3>2. Due(p, MoveMade(n))'
      BY <1>1, <3>1 DEF Answers
    <3>. QED
      BY <3>2
  <2>2. CASE n \notin 1..plies
    <3>1. n = plies + 1 /\ plies' # plies
      BY <1>1, <2>2
    <3>2. PICK m \in Nat : m = plies + 1 /\ \A q \in Seated : Due(q, MoveMade(m))'
      BY <3>1 DEF Answers
    <3>. QED
      BY <3>1, <3>2
  <2>. QED
    BY <2>1, <2>2
<1>3. PlayersServed'
  BY <1>1, <1>2 DEF PlayersServed
<1>4. ASSUME watching', ~Reads("watcher")' PROVE \E s \in Nat : ServedFrom(s)'
  <2>1. watching
    BY <1>4 DEF Answers, CastTypes
  <2>2. CASE Reads("watcher")
    BY <1>4, <2>1, <2>2 DEF Answers
  <2>3. CASE ~Reads("watcher")
    <3>1. PICK s \in Nat : ServedFrom(s)
      BY <2>1, <2>3 DEF WatcherServed
    <3>2. \A f \in Lasting : DueToWatcher(f) => DueToWatcher(f)'
      BY <1>4, <2>1 DEF Answers
    <3>3. Due("watcher", StateFrame(s))'
      BY <3>1, FramesAre DEF ServedFrom, Answers, People
    <3>4. ASSUME NEW n \in (s + 1)..plies' PROVE DueToWatcher(MoveMade(n))'
      <4>1. CASE n \in (s + 1)..plies
        BY <3>1, <3>2, <4>1, FramesAre DEF ServedFrom
      <4>2. CASE n \notin (s + 1)..plies
        <5>1. n = plies + 1 /\ plies' # plies
          BY <1>1, <4>2
        <5>2. PICK m \in Nat : m = plies + 1 /\ DueToWatcher(MoveMade(m))'
          BY <5>1 DEF Answers
        <5>. QED
          BY <5>1, <5>2
      <4>. QED
        BY <4>1, <4>2
    <3>5. ServedFrom(s)'
      BY <3>3, <3>4 DEF ServedFrom
    <3>. QED
      BY <3>5
  <2>. QED
    BY <2>2, <2>3
<1>5. WatcherServed'
  BY <1>4 DEF WatcherServed
<1>6. ASSUME ending' # "none" PROVE (\A p \in Seated : Due(p, GameOver)') /\ (watching' => DueToWatcher(GameOver)')
  <2>1. CASE DueToWatcher(GameOver)' /\ \A p \in Seated : Due(p, GameOver)'
    BY <2>1
  <2>2. CASE ending' \in {ending, "none"}
    <3>1. ending # "none" /\ (watching' => watching)
      BY <1>6, <2>2 DEF Answers
    <3>2. (\A p \in Seated : Due(p, GameOver)) /\ (watching => DueToWatcher(GameOver))
      BY <3>1 DEF EndTold
    <3>. QED
      BY <1>1, <3>1, <3>2, FramesAre DEF Answers
  <2>. QED
    BY <2>1, <2>2 DEF Answers
<1>7. EndTold'
  BY <1>1, <1>6 DEF EndTold
<1>. QED
  BY <1>3, <1>5, <1>7

(* A handler starts: it has a list of errands, and had none, or had to let *)
(* the engine think.                                                       *)
Started(h, list) ==
    /\ h \in Handlers /\ list \in Seq(AllErrands)
    /\ errands[h] \in {<<>>, <<Errand("think")>>}
    /\ Has(h, list)
    /\ UNCHANGED <<engineGame, watching, inbox>>
    /\ Errand("think") \in ToSet(list) => engineGame
    /\ Errand("history") \in ToSet(list) => h # "upkeep"
    /\ Errand("join") \in ToSet(list) => h = "watcher" /\ list = Onboarding /\ ~watching

(* What it changed of the game is on the list for everybody.               *)
TellsAll(list, f) == Fan(f) \in ToSet(list) /\ \A p \in Seated : Tell(p, f) \in ToSet(list)
Announced(list) ==
    /\ \/ plies' = plies
       \/ plies' = plies + 1 /\ TellsAll(list, MoveMade(plies + 1))
    /\ \/ ending' \in {ending, "none"}
       \/ TellsAll(list, GameOver)

LEMMA StartedLists ==
    ASSUME CastTypes, NEW h, NEW list, Started(h, list)
    PROVE  /\ errands' \in [Handlers -> Seq(AllErrands)]
           /\ \A g \in Handlers : errands'[g] = IF g = h THEN list ELSE errands[g]
           /\ ToSet(errands[h]) \subseteq {Errand("think")}
<1>1. errands' \in [Handlers -> Seq(AllErrands)] /\ \A g \in Handlers : errands'[g] = IF g = h THEN list ELSE errands[g]
  BY DEF CastTypes, Started, Has
<1>2. ToSet(errands[h]) \subseteq {Errand("think")}
  BY ListsAre, ErrandsAre DEF Started
<1>. QED
  BY <1>1, <1>2

LEMMA StartAnswers ==
    ASSUME CastTypes, NEW h, NEW list, Started(h, list), Announced(list)
    PROVE  Answers
<1>1. \A g \in Handlers : errands'[g] = IF g = h THEN list ELSE errands[g]
  BY StartedLists
<1>2. ToSet(errands[h]) \subseteq {Errand("think")} /\ h \in Handlers
  BY StartedLists DEF Started
<1>3. \A e : e # Errand("think") /\ Pending(e) => Pending(e)'
  BY <1>1, <1>2 DEF Pending
<1>4. \A e \in ToSet(list) : Pending(e)'
  BY <1>1, <1>2 DEF Pending
<1>5. inbox' = inbox /\ engineGame' = engineGame /\ watching' = watching
  BY DEF Started
<1>6. \A p, f : Tell(p, f) # Errand("think") /\ Fan(f) # Errand("think")
  <2>. TAKE p, f
  <2>1. Tell(p, f).do = "tell" /\ Fan(f).do = "fan" /\ Errand("think").do = "think"
    BY ErrandsDiffer
  <2>. QED
    BY <2>1
<1>7. \A p, f : (Arrived(p, f) \/ Pending(Tell(p, f))') => Due(p, f)'
  BY <1>5 DEF Due, Arrived
<1>8. \A p, f : Due(p, f) => Due(p, f)'
  BY <1>3, <1>6, <1>7 DEF Due
<1>9. \A f : (Due("watcher", f)' \/ Pending(Fan(f))') => DueToWatcher(f)'
  BY DEF DueToWatcher
<1>10. \A f : DueToWatcher(f) => DueToWatcher(f)'
  BY <1>3, <1>6, <1>8, <1>9 DEF DueToWatcher
<1>11. \A f : TellsAll(list, f) => DueToWatcher(f)' /\ \A p \in Seated : Due(p, f)'
  BY <1>4, <1>7, <1>9 DEF TellsAll
<1>12. Reads("watcher") => Reads("watcher")'
  <2>1. Errand("history") # Errand("think") /\ "watcher" \in Handlers
    BY DEF Errand, Handlers, People
  <2>. QED
    BY <1>1, <1>2, <2>1 DEF Reads
<1>13. \/ plies' = plies
       \/ \E n \in Nat : /\ n = plies + 1 /\ plies' = n /\ DueToWatcher(MoveMade(n))'
                         /\ \A p \in Seated : Due(p, MoveMade(n))'
  <2>1. plies + 1 \in Nat
    BY DEF CastTypes
  <2>2. ASSUME NEW n \in Nat, n = plies + 1, TellsAll(list, MoveMade(n))
        PROVE  DueToWatcher(MoveMade(n))' /\ \A p \in Seated : Due(p, MoveMade(n))'
    BY <1>11, <2>2
  <2>. QED
    BY <2>1, <2>2 DEF Announced
<1>. QED
  BY <1>5, <1>8, <1>10, <1>11, <1>12, <1>13 DEF Answers, Announced

LEMMA StartReaders ==
    ASSUME CastTypes, ReadersKnown, NEW h, NEW list, Started(h, list)
    PROVE  ReadersKnown'
<1>1. \A g \in Handlers : errands'[g] = IF g = h THEN list ELSE errands[g]
  BY StartedLists
<1>2. h \in Handlers /\ UNCHANGED <<engineGame, watching>>
  BY DEF Started
<1>3. \A g \in Handlers : Errand("think") \in ToSet(errands'[g]) => engineGame'
  BY <1>1, <1>2 DEF Started, ReadersKnown
<1>4. ~Reads("upkeep")'
  <2>1. "upkeep" \in Handlers
    BY DEF Handlers
  <2>. QED
    BY <1>1, <2>1 DEF Started, ReadersKnown, Reads
<1>5. \A g \in Handlers \ {"watcher"} : ~Joins(g)'
  BY <1>1 DEF Started, ReadersKnown, Joins
<1>6. Joins("watcher")' => errands'["watcher"] = Onboarding /\ ~watching'
  <2>1. "watcher" \in Handlers
    BY DEF Handlers, People
  <2>. QED
    BY <1>1, <1>2, <2>1 DEF Started, ReadersKnown, Joins
<1>7. Onboarding' = Onboarding
  BY DEF Onboarding, Errand
<1>. QED
  BY <1>3, <1>4, <1>5, <1>6, <1>7 DEF ReadersKnown

(* A start that brings no move leaves the last one on its way.             *)
LEMMA QuietStart ==
    ASSUME CastTypes, InTurn, NEW h, NEW list, Started(h, list), errands[h] = <<>>, Moveless(list),
           UNCHANGED <<plies, blind>>
    PROVE  InTurn'
<1>1. \A g \in Handlers : errands'[g] = IF g = h THEN list ELSE errands[g]
  BY StartedLists
<1>2. Mover' = Mover /\ Mover \in Handlers /\ Seated' = Seated
  BY DEF Started, Mover, ToMove, Across, Seated, Handlers, People, Rivals
<1>3. inbox' = inbox /\ engineGame' = engineGame
  BY DEF Started
<1>4. \A g \in Handlers : Moveless(errands[g]) => Moveless(errands'[g])
  BY <1>1
<1>5. \A g \in Handlers : Moveless(errands'[g]) <=> Moveless(errands[g])'
  BY DEF Moveless, BringsMove
<1>6. errands[Mover] # <<>> => errands'[Mover] = errands[Mover]
  BY <1>1, <1>2
<1>7. AllArrived => AllArrived'
  BY <1>2, <1>3, <1>4 DEF AllArrived, Moveless, BringsMove, UpTo
<1>8. OthersMoveless => OthersMoveless'
  BY <1>2, <1>4 DEF OthersMoveless, Moveless, BringsMove
<1>9. ToOpponent => ToOpponent'
  BY <1>2, <1>3, <1>6, <1>8 DEF ToOpponent, Moveless, BringsMove, UpTo, Across, Tell, MoveMade
<1>10. ToAll => ToAll'
  BY <1>2, <1>3, <1>6, <1>8 DEF ToAll, Moveless, BringsMove, UpTo, Across, Tell, MoveMade
<1>. QED
  BY <1>7, <1>9, <1>10 DEF InTurn

(* A move begins its way when all earlier moves have arrived.              *)
LEMMA MoveStart ==
    ASSUME CastTypes, AllArrived, NEW h, NEW list, Started(h, list), plies' = plies + 1, h = Mover',
           list # <<>>, Head(list) = Tell(h, MoveMade(plies + 1)),
           IF engineGame THEN Moveless(Tail(list))
           ELSE /\ Tail(list) # <<>>
                /\ Head(Tail(list)) = Tell(Across(h), MoveMade(plies + 1))
                /\ Moveless(Tail(Tail(list)))
    PROVE  InTurn'
<1>1. \A g \in Handlers : errands'[g] = IF g = h THEN list ELSE errands[g]
  BY StartedLists
<1>2. h \in Handlers /\ inbox' = inbox /\ engineGame' = engineGame /\ Seated' = Seated
  BY DEF Started, Seated
<1>3. errands'[Mover'] = list
  BY <1>1, <1>2
<1>4. OthersMoveless'
  BY <1>1 DEF AllArrived, OthersMoveless, Moveless, BringsMove
<1>5. plies' > 0 /\ plies = plies' - 1
  BY DEF CastTypes
<1>6. \A p \in Seated : inbox[p].moves = UpTo(plies' - 1)
  BY <1>5 DEF AllArrived
<1>7. ToAll'
  BY <1>2, <1>3, <1>4, <1>5, <1>6 DEF ToAll, Moveless, BringsMove, UpTo, Across, Tell, MoveMade
<1>. QED
  BY <1>7 DEF InTurn

LEMMA StartKeeps ==
    ASSUME CastInv, NEW h, NEW list, Started(h, list), Announced(list), InTurn',
           UNCHANGED blind \/ blind' = TRUE,
           plies' \in Nat, ending' \in {"none", "timeout", "other"}, offeredBy' \in {offeredBy, "none"}
               \/ (~engineGame /\ offeredBy' \in Rivals)
    PROVE  CastInv'
<1>1. CastTypes /\ ReadersKnown
  BY DEF CastInv
<1>2. ReadersKnown' /\ errands' \in [Handlers -> Seq(AllErrands)]
  BY <1>1, StartReaders, StartedLists
<1>3. PlayersServed' /\ WatcherServed' /\ EndTold'
  <2>1. Answers
    BY <1>1, StartAnswers
  <2>. QED
    BY <1>1, <2>1, AnsweredServe DEF CastInv
<1>4. UNCHANGED <<engineGame, watching, inbox>>
  BY DEF Started
<1>5. (blind' \in BOOLEAN) /\ (engineGame' => offeredBy' = "none") /\ (offeredBy' \in Rivals \cup {"none"})
  BY <1>1, <1>4 DEF CastTypes
<1>6. CastTypes'
  BY <1>1, <1>2, <1>4, <1>5 DEF CastTypes
<1>. QED
  BY <1>2, <1>3, <1>6 DEF CastInv

LEMMA QuietKeeps ==
    ASSUME CastInv, NEW h, NEW list, Started(h, list), Announced(list), errands[h] = <<>>, Moveless(list),
           UNCHANGED <<plies, blind>>,
           ending' \in {"none", "timeout", "other"}, offeredBy' \in {offeredBy, "none"}
               \/ (~engineGame /\ offeredBy' \in Rivals)
    PROVE  CastInv'
<1>1. CastTypes /\ InTurn /\ plies \in Nat
  BY DEF CastInv, CastTypes
<1>2. InTurn'
  BY <1>1, QuietStart
<1>. QED
  BY <1>1, <1>2, StartKeeps

(* Lists of frames, without a move.                                        *)
Plain(list) == list \in Seq(AllErrands) /\ Moveless(list) /\ \A e \in ToSet(list) : e.do \in {"tell", "fan"}

LEMMA PlainStarts ==
    ASSUME CastInv, NEW h \in Handlers, NEW list, Plain(list), errands[h] = <<>>, Has(h, list),
           UNCHANGED <<engineGame, watching, inbox>>
    PROVE  Started(h, list)
<1>1. \A k \in {"think", "join", "history"} : Errand(k) \notin ToSet(list)
  BY ErrandsDiffer DEF Plain
<1>. QED
  BY <1>1 DEF Plain, Started

LEMMA JoinedPlain == ASSUME NEW s, NEW t, Plain(s), Plain(t) PROVE Plain(s \o t)
BY JoinedLists DEF Plain, Moveless

LEMMA EndList ==
    ASSUME NEW p \in Rivals, engineGame \in BOOLEAN, engineGame => p = "w"
    PROVE  Plain(ToldTheEnd(p)) /\ TellsAll(ToldTheEnd(p), GameOver)
<1>1. GameOver \in CastFrames /\ GameOver.type # "move_made"
  BY FramesAre
<1>2. ToBoth(p, GameOver) \in Seq(AllErrands) /\ ToSet(ToBoth(p, GameOver)) = {Tell(q, GameOver) : q \in Seated}
  BY <1>1, BothErrands
<1>3. <<Fan(GameOver)>> \in Seq(AllErrands) /\ ToSet(<<Fan(GameOver)>>) = {Fan(GameOver)}
  BY <1>1, ErrandsAre, ListsAre
<1>4. ToldTheEnd(p) \in Seq(AllErrands) /\ ToSet(ToldTheEnd(p)) = {Tell(q, GameOver) : q \in Seated} \cup {Fan(GameOver)}
  <2>1. \A s, t \in Seq(AllErrands) : s \o t \in Seq(AllErrands) /\ ToSet(s \o t) = ToSet(s) \cup ToSet(t)
    BY JoinedLists
  <2>. DEFINE last == <<Fan(GameOver)>>
  <2>2. last \in Seq(AllErrands) /\ ToSet(last) = {Fan(GameOver)} /\ ToldTheEnd(p) = ToBoth(p, GameOver) \o last
    BY <1>3 DEF ToldTheEnd
  <2>. HIDE DEF last
  <2>. QED
    BY <1>2, <2>1, <2>2
<1>5. \A e \in ToSet(ToldTheEnd(p)) : e.do \in {"tell", "fan"} /\ ~BringsMove(e)
  BY <1>1, <1>4, ErrandsDiffer DEF BringsMove
<1>. QED
  BY <1>4, <1>5 DEF Plain, TellsAll, Moveless

LEMMA NoticeLists ==
    ASSUME NEW p \in People, NEW q \in People,
           NEW a \in {"draw_declined", "draw_offer_sent", "draw_offered", "draw_offer_resolved"},
           NEW b \in {"draw_declined", "draw_offer_sent", "draw_offered", "draw_offer_resolved"}
    PROVE  Plain(<<Tell(p, Notice(a))>>) /\ Plain(<<Tell(p, Notice(a)), Tell(q, Notice(b))>>)
<1>1. Notice(a) \in CastFrames /\ Notice(b) \in CastFrames /\ Notice(a).type = a /\ Notice(b).type = b
  BY FramesAre
<1>2. Tell(p, Notice(a)) \in AllErrands /\ Tell(q, Notice(b)) \in AllErrands
  BY <1>1, ErrandsAre
<1>3. ~BringsMove(Tell(p, Notice(a))) /\ ~BringsMove(Tell(q, Notice(b)))
  BY <1>1, ErrandsDiffer DEF BringsMove
<1>4. Tell(p, Notice(a)).do = "tell" /\ Tell(q, Notice(b)).do = "tell"
  BY ErrandsDiffer
<1>5. /\ <<Tell(p, Notice(a))>> \in Seq(AllErrands)
      /\ ToSet(<<Tell(p, Notice(a))>>) = {Tell(p, Notice(a))}
      /\ <<Tell(p, Notice(a)), Tell(q, Notice(b))>> \in Seq(AllErrands)
      /\ ToSet(<<Tell(p, Notice(a)), Tell(q, Notice(b))>>) = {Tell(p, Notice(a)), Tell(q, Notice(b))}
  BY <1>2, ListsAre
<1>. QED
  BY <1>3, <1>4, <1>5 DEF Plain, Moveless

LEMMA AskerSits ==
    ASSUME CastTypes, NEW p \in Rivals, FreeToAsk(p)
    PROVE  /\ p \in Handlers /\ p \in People /\ errands[p] = <<>> /\ p \in Seated /\ engineGame \in BOOLEAN
           /\ engineGame => p = "w"
           /\ Across(p) \in Rivals /\ Across(p) \in People /\ p # "upkeep"
BY DEF CastTypes, FreeToAsk, Handlers, People, Rivals, Seated, Across

(* The ends of a game that come with no move.                              *)
LEMMA EndingSteps ==
    ASSUME CastInv,
           \/ \E p \in Rivals : MoveTooLate(p) \/ resign(p)
           \/ expire_on_time
    PROVE  CastInv'
<1>1. CastTypes
  BY DEF CastInv
<1>2. \A h \in Handlers, p \in Rivals :
         /\ engineGame => p = "w"
         /\ errands[h] = <<>> /\ Has(h, ToldTheEnd(p)) /\ ending' \in {"timeout", "other"}
         /\ UNCHANGED <<engineGame, plies, offeredBy, watching, inbox, blind>>
         => CastInv'
  <2>. TAKE h \in Handlers, p \in Rivals
  <2>. HAVE /\ engineGame => p = "w"
            /\ errands[h] = <<>> /\ Has(h, ToldTheEnd(p)) /\ ending' \in {"timeout", "other"}
            /\ UNCHANGED <<engineGame, plies, offeredBy, watching, inbox, blind>>
  <2>1. Plain(ToldTheEnd(p)) /\ TellsAll(ToldTheEnd(p), GameOver)
    BY <1>1, EndList DEF CastTypes
  <2>2. Started(h, ToldTheEnd(p)) /\ Announced(ToldTheEnd(p)) /\ Moveless(ToldTheEnd(p))
    BY <2>1, PlainStarts DEF Announced, Plain
  <2>. QED
    BY <2>2, QuietKeeps
<1>3. ASSUME NEW p \in Rivals, MoveTooLate(p) \/ resign(p) PROVE CastInv'
  <2>1. FreeToAsk(p) /\ Has(p, ToldTheEnd(p)) /\ ending' \in {"timeout", "other"}
        /\ UNCHANGED <<engineGame, plies, offeredBy, watching, inbox, blind>>
    BY <1>3 DEF MoveTooLate, resign
  <2>. QED
    BY <1>1, <1>2, <2>1, AskerSits
<1>4. CASE expire_on_time
  <2>1. "upkeep" \in Handlers /\ "w" \in Rivals
    BY DEF Handlers, Rivals
  <2>2. errands["upkeep"] = <<>> /\ Has("upkeep", ToldTheEnd("w")) /\ ending' \in {"timeout", "other"}
        /\ UNCHANGED <<engineGame, plies, offeredBy, watching, inbox, blind>>
    BY <1>4 DEF expire_on_time, UpkeepErrands
  <2>. QED
    BY <1>2, <2>1, <2>2
<1>. QED
  BY <1>3, <1>4

LEMMA OfferSteps ==
    ASSUME CastInv,
           \/ \E p \in Rivals : offer_draw(p) \/ respond_to_draw(p)
           \/ expire_draw_offer
    PROVE  CastInv'
<1>1. CastTypes
  BY DEF CastInv
<1>2. \A h \in Handlers, p \in People, q \in People :
      \A a, b \in {"draw_declined", "draw_offer_sent", "draw_offered", "draw_offer_resolved"} :
         /\ errands[h] = <<>> /\ Has(h, <<Tell(p, Notice(a)), Tell(q, Notice(b))>>)
         /\ UNCHANGED <<engineGame, plies, ending, watching, inbox, blind>>
         /\ offeredBy' = "none" \/ (~engineGame /\ offeredBy' \in Rivals)
         => CastInv'
  <2>. TAKE h \in Handlers, p \in People, q \in People
  <2>. TAKE a, b \in {"draw_declined", "draw_offer_sent", "draw_offered", "draw_offer_resolved"}
  <2>. HAVE /\ errands[h] = <<>> /\ Has(h, <<Tell(p, Notice(a)), Tell(q, Notice(b))>>)
            /\ UNCHANGED <<engineGame, plies, ending, watching, inbox, blind>>
            /\ offeredBy' = "none" \/ (~engineGame /\ offeredBy' \in Rivals)
  <2>. DEFINE list == <<Tell(p, Notice(a)), Tell(q, Notice(b))>>
  <2>1. Plain(list)
    BY NoticeLists
  <2>. HIDE DEF list
  <2>2. Has(h, list)
    BY DEF list
  <2>3. Started(h, list) /\ Announced(list) /\ Moveless(list)
    BY <2>1, <2>2, PlainStarts DEF Announced, Plain
  <2>4. ending' \in {"none", "timeout", "other"}
    BY <1>1 DEF CastTypes
  <2>. QED
    BY <2>3, <2>4, QuietKeeps
<1>3. ASSUME NEW p \in Rivals, offer_draw(p) PROVE CastInv'
  <2>1. /\ FreeToAsk(p) /\ ~engineGame /\ offeredBy' = p
        /\ Has(p, <<Tell(p, Notice("draw_offer_sent")), Tell(Across(p), Notice("draw_offered"))>>)
        /\ UNCHANGED <<engineGame, plies, ending, watching, inbox, blind>>
    BY <1>3 DEF offer_draw
  <2>. QED
    BY <1>1, <1>2, <2>1, AskerSits
<1>4. ASSUME NEW p \in Rivals, respond_to_draw(p) PROVE CastInv'
  <2>1. FreeToAsk(p) /\ offeredBy' = "none" /\ UNCHANGED <<engineGame, plies, watching, inbox, blind>>
    BY <1>4 DEF respond_to_draw
  <2>2. CASE ending' = "other" /\ Has(p, ToldTheEnd(p))
    <3>1. Plain(ToldTheEnd(p)) /\ TellsAll(ToldTheEnd(p), GameOver)
      BY <1>1, <2>1, AskerSits, EndList
    <3>2. Started(p, ToldTheEnd(p)) /\ Announced(ToldTheEnd(p)) /\ Moveless(ToldTheEnd(p))
      BY <1>1, <2>1, <2>2, <3>1, AskerSits, PlainStarts DEF Announced, Plain
    <3>3. errands[p] = <<>>
      BY <1>1, <2>1, AskerSits
    <3>. QED
      BY <2>1, <2>2, <3>2, <3>3, QuietKeeps
  <2>3. CASE /\ UNCHANGED ending
             /\ Has(p, <<Tell(p, Notice("draw_offer_resolved")), Tell(Across(p), Notice("draw_declined"))>>)
    BY <1>1, <1>2, <2>1, <2>3, AskerSits
  <2>. QED
    BY <1>4, <2>2, <2>3 DEF respond_to_draw
<1>5. CASE expire_draw_offer
  <2>1. /\ errands["upkeep"] = <<>> /\ offeredBy # "none" /\ offeredBy' = "none"
        /\ Has("upkeep", <<Tell(offeredBy, Notice("draw_declined")),
                           Tell(Across(offeredBy), Notice("draw_offer_resolved"))>>)
        /\ UNCHANGED <<engineGame, plies, ending, watching, inbox, blind>>
    BY <1>5 DEF expire_draw_offer
  <2>2. "upkeep" \in Handlers /\ offeredBy \in People /\ Across(offeredBy) \in People
    BY <1>1, <2>1 DEF CastTypes, Handlers, People, Rivals, Across
  <2>. QED
    BY <1>2, <2>1, <2>2
<1>. QED
  BY <1>3, <1>4, <1>5

LEMMA ReadingSteps ==
    ASSUME CastInv,
           \/ \E p \in Rivals : game_state(p)
           \/ spectate \/ stop_spectating
    PROVE  CastInv'
<1>1. CastTypes
  BY DEF CastInv
<1>2. \A k \in {"think", "join", "history"} : ~BringsMove(Errand(k))
  BY ErrandsDiffer DEF BringsMove
<1>3. ending \in {"none", "timeout", "other"}
  BY <1>1 DEF CastTypes
<1>4. Errand("history") # Errand("think") /\ Errand("history") # Errand("join") /\ Errand("join") # Errand("think")
  BY DEF Errand
<1>5. ASSUME NEW p \in Rivals, game_state(p) PROVE CastInv'
  <2>. DEFINE list == <<Errand("history")>>
  <2>1. list \in Seq(AllErrands) /\ ToSet(list) = {Errand("history")}
    BY ErrandsAre, ListsAre
  <2>. HIDE DEF list
  <2>2. /\ FreeToAsk(p) /\ Has(p, list)
        /\ UNCHANGED <<engineGame, plies, ending, offeredBy, watching, inbox, blind>>
    BY <1>5 DEF game_state, roomVars, list
  <2>3. Started(p, list) /\ Announced(list) /\ Moveless(list)
    BY <1>1, <1>2, <1>4, <2>1, <2>2, AskerSits DEF Started, Announced, Moveless
  <2>4. errands[p] = <<>>
    BY <1>1, <2>2, AskerSits
  <2>. QED
    BY <1>3, <2>2, <2>3, <2>4, QuietKeeps
<1>6. CASE spectate
  <2>1. Onboarding \in Seq(AllErrands) /\ ToSet(Onboarding) = {Errand("join"), Errand("history")}
    BY ErrandsAre, ListsAre DEF Onboarding
  <2>2. /\ errands["watcher"] = <<>> /\ Has("watcher", Onboarding) /\ watching = FALSE
        /\ UNCHANGED <<engineGame, plies, ending, offeredBy, watching, inbox, blind>>
    BY <1>1, <1>6 DEF spectate, roomVars, CastTypes
  <2>3. "watcher" \in Handlers
    BY DEF Handlers, People
  <2>4. Started("watcher", Onboarding) /\ Announced(Onboarding) /\ Moveless(Onboarding)
    BY <1>2, <1>4, <2>1, <2>2, <2>3 DEF Started, Announced, Moveless
  <2>. QED
    BY <1>3, <2>2, <2>4, QuietKeeps
<1>7. CASE stop_spectating
  <2>1. watching' = FALSE /\ UNCHANGED <<engineGame, plies, ending, offeredBy, errands, inbox, asked, blind>>
    BY <1>7 DEF stop_spectating
  <2>2. CastTypes'
    BY <1>1, <2>1 DEF CastTypes
  <2>3. ReadersKnown'
    BY <2>1 DEF CastInv, ReadersKnown, Reads, Joins, Onboarding, Errand
  <2>4. \A p, f : Due(p, f) => Due(p, f)'
    BY <2>1 DEF Due, Arrived, Pending, Tell
  <2>5. Answers
    BY <1>1, <2>1, <2>4 DEF Answers, CastTypes
  <2>6. PlayersServed' /\ WatcherServed' /\ EndTold'
    BY <1>1, <2>5, AnsweredServe DEF CastInv
  <2>7. InTurn'
    <3>1. Mover' = Mover /\ Seated' = Seated
      BY <2>1 DEF Mover, ToMove, Across, Seated, Rivals
    <3>. QED
      BY <2>1, <3>1 DEF CastInv, InTurn, AllArrived, ToOpponent, ToAll, OthersMoveless, Moveless,
         BringsMove, UpTo, Across, Tell, MoveMade
  <2>. QED
    BY <2>2, <2>3, <2>6, <2>7 DEF CastInv
<1>. QED
  BY <1>5, <1>6, <1>7

(* Both, as one fact about all sequences over a set.                       *)
InOne(S, x, y) ==
    /\ x \o y \in Seq(S) /\ ToSet(x \o y) = ToSet(x) \cup ToSet(y)
    /\ x # <<>> => x \o y # <<>> /\ Head(x \o y) = Head(x) /\ Tail(x \o y) = Tail(x) \o y
LEMMA ListsJoin == ASSUME NEW S PROVE \A x, y \in Seq(S) : InOne(S, x, y)
<1>1. SUFFICES ASSUME NEW x \in Seq(S), NEW y \in Seq(S) PROVE InOne(S, x, y)
  OBVIOUS
<1>2. x \o y \in Seq(S) /\ ToSet(x \o y) = ToSet(x) \cup ToSet(y)
  BY JoinedLists
<1>3. x # <<>> => x \o y # <<>> /\ Head(x \o y) = Head(x) /\ Tail(x \o y) = Tail(x) \o y
  BY HeadOfJoined
<1>. QED
  BY <1>2, <1>3, Zenon DEF InOne

Lined(s, t, u, v) == s \o t \o u \o v
LEMMA FourLists ==
    ASSUME NEW S, NEW s \in Seq(S), NEW t \in Seq(S), NEW u \in Seq(S), NEW v \in Seq(S)
    PROVE  /\ Lined(s, t, u, v) \in Seq(S)
           /\ ToSet(Lined(s, t, u, v)) = ToSet(s) \cup ToSet(t) \cup ToSet(u) \cup ToSet(v)
           /\ s # <<>> => /\ Lined(s, t, u, v) # <<>> /\ Head(Lined(s, t, u, v)) = Head(s)
                          /\ Tail(Lined(s, t, u, v)) = Lined(Tail(s), t, u, v)
<1>1. InOne(S, s, t)
  BY ListsJoin, Zenon
<1>2. PICK a \in Seq(S) : a = s \o t
  BY <1>1, Zenon DEF InOne
<1>3. InOne(S, a, u)
  BY ListsJoin, Zenon
<1>4. PICK b \in Seq(S) : b = a \o u
  BY <1>3, Zenon DEF InOne
<1>5. InOne(S, b, v)
  BY ListsJoin, Zenon
<1>. QED
  BY <1>1, <1>2, <1>3, <1>4, <1>5, Zenon DEF Lined, InOne

(* A move is told to its mover, the opponent and the watchers, in this     *)
(* order; what follows brings no other move.                               *)
MoveList(list, p, n) ==
    /\ list \in Seq(AllErrands) /\ list # <<>> /\ Head(list) = Tell(p, MoveMade(n))
    /\ IF engineGame THEN Moveless(Tail(list))
       ELSE /\ Tail(list) # <<>> /\ Head(Tail(list)) = Tell(Across(p), MoveMade(n))
            /\ Moveless(Tail(Tail(list)))
    /\ TellsAll(list, MoveMade(n))
    /\ Errand("think") \in ToSet(list) => engineGame
    /\ Errand("history") \notin ToSet(list) /\ Errand("join") \notin ToSet(list)

LEMMA MoveLists ==
    ASSUME NEW p \in Rivals, engineGame \in BOOLEAN, engineGame => p = "w", NEW n \in Nat,
           NEW declined \in BOOLEAN, NEW ends \in BOOLEAN
    PROVE  /\ MoveList(MoveErrands(p, n, declined, ends), p, n)
           /\ ends => TellsAll(MoveErrands(p, n, declined, ends), GameOver)
<1>. DEFINE both == ToBoth(p, MoveMade(n))
            fan == <<Fan(MoveMade(n))>>
            note == IF declined THEN <<Tell(Across(p), Notice("draw_declined"))>> ELSE <<>>
            last == IF ends THEN ToldTheEnd(p) ELSE IF engineGame THEN <<Errand("think")>> ELSE <<>>
            list == MoveErrands(p, n, declined, ends)
            second == Tell(Across(p), MoveMade(n))
<1>0. \A s, t, u, v \in Seq(AllErrands) :
         /\ Lined(s, t, u, v) \in Seq(AllErrands)
         /\ ToSet(Lined(s, t, u, v)) = ToSet(s) \cup ToSet(t) \cup ToSet(u) \cup ToSet(v)
         /\ s # <<>> => /\ Lined(s, t, u, v) # <<>> /\ Head(Lined(s, t, u, v)) = Head(s)
                        /\ Tail(Lined(s, t, u, v)) = Lined(Tail(s), t, u, v)
  BY FourLists
<1>1. list = Lined(both, fan, note, last)
  BY DEF MoveErrands, Lined
<1>2. MoveMade(n) \in CastFrames /\ p \in People /\ Across(p) \in People /\ second \in AllErrands
  BY FramesAre, ErrandsAre DEF Rivals, People, Across
<1>3. /\ both \in Seq(AllErrands) /\ ToSet(both) = {Tell(q, MoveMade(n)) : q \in Seated}
      /\ both # <<>> /\ Head(both) = Tell(p, MoveMade(n))
      /\ Tail(both) = IF engineGame THEN <<>> ELSE <<second>>
  BY <1>2, BothErrands
<1>4. fan \in Seq(AllErrands) /\ ToSet(fan) = {Fan(MoveMade(n))}
  BY <1>2, ErrandsAre, ListsAre
<1>5. note \in Seq(AllErrands) /\ Moveless(note) /\ \A e \in ToSet(note) : e.do \in {"tell", "fan"}
  <2>1. Plain(<<Tell(Across(p), Notice("draw_declined"))>>)
    BY <1>2, NoticeLists
  <2>2. <<>> \in Seq(AllErrands) /\ ToSet(<<>>) = {}
    BY ListsAre
  <2>. QED
    BY <2>1, <2>2 DEF Plain, Moveless
<1>6. /\ last \in Seq(AllErrands) /\ Moveless(last)
      /\ \A e \in ToSet(last) : e.do \in {"tell", "fan"} \/ (engineGame /\ e = Errand("think"))
      /\ ends => TellsAll(last, GameOver)
  <2>1. Plain(ToldTheEnd(p)) /\ TellsAll(ToldTheEnd(p), GameOver)
    BY EndList
  <2>2. <<>> \in Seq(AllErrands) /\ ToSet(<<>>) = {}
    BY ListsAre
  <2>3. <<Errand("think")>> \in Seq(AllErrands) /\ ToSet(<<Errand("think")>>) = {Errand("think")}
    BY ErrandsAre, ListsAre
  <2>4. ~BringsMove(Errand("think"))
    BY ErrandsDiffer DEF BringsMove
  <2>. QED
    BY <2>1, <2>2, <2>3, <2>4 DEF Plain, Moveless
<1>7. <<>> \in Seq(AllErrands) /\ ToSet(<<>>) = {}
  BY ListsAre
<1>8. <<second>> \in Seq(AllErrands) /\ <<second>> # <<>> /\ Head(<<second>>) = second /\ Tail(<<second>>) = <<>>
  BY <1>2
<1>9. ~BringsMove(Fan(MoveMade(n)))
  BY ErrandsDiffer DEF BringsMove
<1>. HIDE DEF both, fan, note, last, list, second
<1>10. /\ list \in Seq(AllErrands) /\ ToSet(list) = ToSet(both) \cup ToSet(fan) \cup ToSet(note) \cup ToSet(last)
       /\ list # <<>> /\ Head(list) = Head(both) /\ Tail(list) = Lined(Tail(both), fan, note, last)
  <2>1. both \in Seq(AllErrands) /\ fan \in Seq(AllErrands) /\ note \in Seq(AllErrands) /\ last \in Seq(AllErrands)
    BY <1>3, <1>4, <1>5, <1>6
  <2>2. both # <<>> /\ list = Lined(both, fan, note, last)
    BY <1>1, <1>3
  <2>. QED
    BY <1>0, <2>1, <2>2
<1>11. ToSet(Lined(<<>>, fan, note, last)) = ToSet(fan) \cup ToSet(note) \cup ToSet(last)
  <2>1. fan \in Seq(AllErrands) /\ note \in Seq(AllErrands) /\ last \in Seq(AllErrands)
    BY <1>4, <1>5, <1>6
  <2>2. PICK none \in Seq(AllErrands) : none = <<>> /\ ToSet(none) = {}
    BY <1>7
  <2>3. ToSet(Lined(none, fan, note, last)) = ToSet(none) \cup ToSet(fan) \cup ToSet(note) \cup ToSet(last)
    BY <1>0, <2>1
  <2>. QED
    BY <2>2, <2>3
<1>12. Moveless(Lined(<<>>, fan, note, last))
  BY <1>4, <1>5, <1>6, <1>9, <1>11 DEF Moveless
<1>13. ASSUME ~engineGame
       PROVE  Tail(list) # <<>> /\ Head(Tail(list)) = second /\ Moveless(Tail(Tail(list)))
  <2>1. PICK one \in Seq(AllErrands) : one = <<second>> /\ one # <<>> /\ Head(one) = second /\ Tail(one) = <<>>
    BY <1>8
  <2>2. Tail(list) = Lined(one, fan, note, last)
    BY <1>3, <1>10, <1>13, <2>1
  <2>3. /\ Lined(one, fan, note, last) # <<>> /\ Head(Lined(one, fan, note, last)) = second
        /\ Tail(Lined(one, fan, note, last)) = Lined(<<>>, fan, note, last)
    <3>1. fan \in Seq(AllErrands) /\ note \in Seq(AllErrands) /\ last \in Seq(AllErrands)
      BY <1>4, <1>5, <1>6
    <3>. one # <<>>
      BY <2>1
    <3>2. /\ Lined(one, fan, note, last) # <<>> /\ Head(Lined(one, fan, note, last)) = Head(one)
          /\ Tail(Lined(one, fan, note, last)) = Lined(Tail(one), fan, note, last)
      BY <1>0, <3>1
    <3>. QED
      BY <2>1, <3>2
  <2>. QED
    BY <1>12, <2>2, <2>3
<1>14. engineGame => Moveless(Tail(list))
  BY <1>3, <1>10, <1>12
<1>15. \A e \in ToSet(list) : e.do \in {"tell", "fan"} \/ (engineGame /\ e = Errand("think"))
  BY <1>3, <1>4, <1>5, <1>6, <1>10, ErrandsDiffer
<1>16. /\ Errand("think") \in ToSet(list) => engineGame
       /\ Errand("history") \notin ToSet(list) /\ Errand("join") \notin ToSet(list)
  <2>1. Errand("think").do = "think" /\ Errand("history").do = "history" /\ Errand("join").do = "join"
    BY ErrandsDiffer
  <2>. QED
    BY <1>15, <2>1
<1>17. TellsAll(list, MoveMade(n)) /\ (ends => TellsAll(list, GameOver))
  BY <1>3, <1>4, <1>6, <1>10 DEF TellsAll
<1>18. MoveList(list, p, n)
  BY <1>3, <1>10, <1>13, <1>14, <1>16, <1>17 DEF MoveList, second
<1>. QED
  BY <1>17, <1>18 DEF list

LEMMA UpToSet ==
    ASSUME NEW n \in Nat
    PROVE  /\ UpTo(n) \in Seq(Nat) /\ ToSet(UpTo(n)) = 1..n
           /\ n > 0 => Append(UpTo(n - 1), n) = UpTo(n)
<1>1. UpTo(n) \in Seq(Nat) /\ Len(UpTo(n)) = n /\ DOMAIN UpTo(n) = 1..n /\ \A i \in 1..n : UpTo(n)[i] = i
  BY DEF UpTo
<1>2. ToSet(UpTo(n)) = 1..n
  BY <1>1 DEF ToSet
<1>3. ASSUME n > 0 PROVE Append(UpTo(n - 1), n) = UpTo(n)
  <2>1. UpTo(n - 1) \in Seq(Nat) /\ Len(UpTo(n - 1)) = n - 1 /\ \A i \in 1..(n - 1) : UpTo(n - 1)[i] = i
    BY <1>3 DEF UpTo
  <2>2. /\ Append(UpTo(n - 1), n) \in Seq(Nat) /\ Len(Append(UpTo(n - 1), n)) = n
        /\ \A i \in 1..n : Append(UpTo(n - 1), n)[i] = i
    BY <1>3, <2>1
  <2>. QED
    BY <1>1, <2>2, SeqEqual
<1>. QED
  BY <1>1, <1>2, <1>3

LEMMA AllHeard == ASSUME NEW n \in Nat, n > 0 PROVE n \notin ToSet(UpTo(n - 1))
<1>1. PICK m \in Nat : m = n - 1
  OBVIOUS
<1>2. ToSet(UpTo(m)) = 1..m
  BY UpToSet
<1>. QED
  BY <1>1, <1>2

LEMMA MoveSteps == ASSUME CastInv, NEW p \in Rivals, make_move(p) PROVE CastInv'
<1>1. CastTypes /\ plies \in Nat
  BY DEF CastInv, CastTypes
<1>2. /\ FreeToAsk(p) /\ ToMove = p /\ Playing /\ plies' = plies + 1
      /\ offeredBy' = IF offeredBy = Across(p) THEN "none" ELSE offeredBy
      /\ blind' = (blind \/ ~Saw(p, plies))
      /\ UNCHANGED <<engineGame, watching, inbox>>
  BY DEF make_move
<1>3. /\ p \in Handlers /\ p \in People /\ errands[p] = <<>> /\ p \in Seated /\ engineGame \in BOOLEAN
      /\ engineGame => p = "w"
  BY <1>1, <1>2, AskerSits
<1>. DEFINE declined == offeredBy = Across(p)
<1>4. PICK ends \in BOOLEAN : /\ ending' = IF ends THEN "other" ELSE "none"
                              /\ Has(p, MoveErrands(p, plies + 1, declined, ends))
  BY DEF make_move
<1>. DEFINE list == MoveErrands(p, plies + 1, declined, ends)
<1>5. MoveList(list, p, plies + 1) /\ (ends => TellsAll(list, GameOver))
  <2>1. PICK n \in Nat : n = plies + 1
    BY <1>1
  <2>2. declined \in BOOLEAN
    OBVIOUS
  <2>. HIDE DEF declined
  <2>3. MoveList(MoveErrands(p, n, declined, ends), p, n) /\ (ends => TellsAll(MoveErrands(p, n, declined, ends), GameOver))
    BY <1>3, <2>2, MoveLists
  <2>. QED
    BY <2>1, <2>3
<1>6. Has(p, list)
  BY <1>4
<1>. HIDE DEF list, declined
<1>7. Started(p, list)
  BY <1>2, <1>3, <1>5, <1>6 DEF Started, MoveList
<1>8. Announced(list)
  BY <1>2, <1>4, <1>5 DEF Announced, MoveList
<1>9. ASSUME ~blind' PROVE InTurn'
  <2>1. ~blind /\ Saw(p, plies)
    BY <1>2, <1>9
  <2>2. plies > 0 => inbox[p].moves # UpTo(plies - 1)
    BY <1>1, <2>1, AllHeard DEF Saw
  <2>3. p = IF engineGame THEN Mover ELSE Across(Mover)
    BY <1>2, <1>3 DEF Mover, Across, Rivals
  <2>4. ~ToOpponent
    BY <2>2, <2>3 DEF ToOpponent
  <2>5. ~ToAll
    BY <1>3, <2>2, <2>3 DEF ToAll
  <2>6. AllArrived
    BY <2>1, <2>4, <2>5 DEF CastInv, InTurn
  <2>7. p = Mover'
    BY <1>1, <1>2, <1>3 DEF Mover, Across, ToMove, Rivals
  <2>. QED
    BY <1>1, <1>2, <1>5, <1>7, <2>6, <2>7, MoveStart DEF MoveList
<1>10. InTurn'
  BY <1>9 DEF InTurn
<1>11. (UNCHANGED blind \/ blind' = TRUE) /\ plies' \in Nat /\ ending' \in {"none", "timeout", "other"}
       /\ offeredBy' \in {offeredBy, "none"}
  <2>1. blind' = TRUE \/ (blind' = FALSE /\ blind = FALSE)
    BY <1>1, <1>2 DEF CastTypes
  <2>2. plies' \in Nat /\ ending' \in {"none", "timeout", "other"} /\ offeredBy' \in {offeredBy, "none"}
    BY <1>1, <1>2, <1>4
  <2>. QED
    BY <2>1, <2>2
<1>. QED
  BY <1>7, <1>8, <1>10, <1>11, StartKeeps

LEMMA ArrivedStart ==
    ASSUME CastTypes, AllArrived, NEW h, NEW list, Started(h, list), Moveless(list), plies' = plies
    PROVE  InTurn'
<1>1. \A g \in Handlers : errands'[g] = IF g = h THEN list ELSE errands[g]
  BY StartedLists
<1>2. inbox' = inbox /\ Seated' = Seated
  BY DEF Started, Seated
<1>3. AllArrived'
  BY <1>1, <1>2 DEF AllArrived, Moveless, BringsMove, UpTo
<1>. QED
  BY <1>3 DEF InTurn

LEMMA EngineLists ==
    ASSUME engineGame = TRUE, NEW n \in Nat, NEW ends \in BOOLEAN
    PROVE  /\ MoveList(EngineErrands(n, ends), "w", n)
           /\ ends => TellsAll(EngineErrands(n, ends), GameOver)
           /\ Plain(<<Tell("w", GameOver), Fan(GameOver)>>)
           /\ TellsAll(<<Tell("w", GameOver), Fan(GameOver)>>, GameOver)
<1>. DEFINE over == <<Tell("w", GameOver), Fan(GameOver)>>
            first == <<Tell("w", MoveMade(n)), Fan(MoveMade(n))>>
            last == IF ends THEN over ELSE <<>>
            list == EngineErrands(n, ends)
<1>1. "w" \in People /\ Seated = {"w"} /\ GameOver \in CastFrames /\ MoveMade(n) \in CastFrames /\ GameOver.type # "move_made"
  BY FramesAre DEF People, Rivals, Seated
<1>2. {Tell("w", GameOver), Fan(GameOver), Tell("w", MoveMade(n)), Fan(MoveMade(n))} \subseteq AllErrands
  BY <1>1, ErrandsAre
<1>3. over \in Seq(AllErrands) /\ ToSet(over) = {Tell("w", GameOver), Fan(GameOver)}
  BY <1>2, ListsAre
<1>4. /\ first \in Seq(AllErrands) /\ ToSet(first) = {Tell("w", MoveMade(n)), Fan(MoveMade(n))} /\ first # <<>>
      /\ Head(first) = Tell("w", MoveMade(n)) /\ Tail(first) = <<Fan(MoveMade(n))>>
  BY <1>2, ListsAre
<1>5. Plain(over) /\ TellsAll(over, GameOver)
  BY <1>1, <1>3, ErrandsDiffer DEF Plain, Moveless, BringsMove, TellsAll
<1>6. last \in Seq(AllErrands) /\ ToSet(last) = IF ends THEN ToSet(over) ELSE {}
  BY <1>3, ListsAre
<1>7. list = first \o last
  BY DEF EngineErrands
<1>8. <<Fan(MoveMade(n))>> \in Seq(AllErrands) /\ ToSet(<<Fan(MoveMade(n))>>) = {Fan(MoveMade(n))}
  BY <1>2, ListsAre
<1>. HIDE DEF over, first, last, list
<1>9. /\ list \in Seq(AllErrands) /\ ToSet(list) = ToSet(first) \cup ToSet(last)
      /\ list # <<>> /\ Head(list) = Head(first) /\ Tail(list) = Tail(first) \o last
  <2>1. \A s, t \in Seq(AllErrands) :
           /\ s \o t \in Seq(AllErrands) /\ ToSet(s \o t) = ToSet(s) \cup ToSet(t)
           /\ s # <<>> => s \o t # <<>> /\ Head(s \o t) = Head(s) /\ Tail(s \o t) = Tail(s) \o t
    BY ListsJoin, Zenon DEF InOne
  <2>2. first \in Seq(AllErrands) /\ last \in Seq(AllErrands) /\ first # <<>>
    BY <1>4, <1>6
  <2>. QED
    BY <1>7, <2>1, <2>2
<1>10. Moveless(Tail(list))
  <2>1. PICK tail \in Seq(AllErrands) : tail = Tail(first) /\ ToSet(tail) = {Fan(MoveMade(n))}
    BY <1>4, <1>8
  <2>2. ToSet(tail \o last) = ToSet(tail) \cup ToSet(last)
    BY <1>6, JoinedLists
  <2>3. ~BringsMove(Fan(MoveMade(n))) /\ \A e \in ToSet(over) : ~BringsMove(e)
    BY <1>5, ErrandsDiffer DEF BringsMove, Plain, Moveless
  <2>. QED
    BY <1>6, <1>9, <2>1, <2>2, <2>3 DEF Moveless
<1>11. \A e \in ToSet(list) : e.do \in {"tell", "fan"}
  BY <1>3, <1>4, <1>6, <1>9, ErrandsDiffer
<1>12. \A k \in {"think", "history", "join"} : Errand(k) \notin ToSet(list)
  BY <1>11, ErrandsDiffer
<1>13. TellsAll(list, MoveMade(n)) /\ (ends => TellsAll(list, GameOver))
  BY <1>1, <1>4, <1>5, <1>6, <1>9 DEF TellsAll
<1>14. MoveList(list, "w", n)
  BY <1>4, <1>9, <1>10, <1>12, <1>13 DEF MoveList
<1>. QED
  BY <1>5, <1>13, <1>14 DEF list, over

LEMMA EngineSteps == ASSUME CastInv, trigger_ai_move PROVE CastInv'
<1>1. CastTypes /\ plies \in Nat /\ ReadersKnown /\ ending \in {"none", "timeout", "other"}
  BY DEF CastInv, CastTypes
<1>2. /\ errands["w"] = <<Errand("think")>> /\ "w" \in Handlers
      /\ UNCHANGED <<engineGame, offeredBy, watching, inbox, asked, blind>>
  BY DEF trigger_ai_move, Handlers, People, Rivals
<1>3. ToSet(errands["w"]) = {Errand("think")}
  BY <1>2, ErrandsAre, ListsAre
<1>4. engineGame = TRUE
  BY <1>1, <1>2, <1>3 DEF ReadersKnown, CastTypes
<1>5. ~blind => AllArrived
  <2>1. Head(errands["w"]) = Errand("think")
    BY <1>2
  <2>2. Mover = "w" /\ ~ToOpponent
    BY <1>4 DEF Mover, ToOpponent
  <2>3. ~ToAll
    <3>1. Tell("w", MoveMade(plies)).do # Errand("think").do
      BY ErrandsDiffer
    <3>. QED
      BY <2>1, <2>2, <3>1 DEF ToAll
  <2>. QED
    BY <2>2, <2>3 DEF CastInv, InTurn
<1>6. \A list : /\ Plain(list) /\ Has("w", list) /\ plies' = plies /\ Announced(list) /\ ending' \in {"none", "timeout", "other"}
                => CastInv'
  <2>. TAKE list
  <2>. HAVE /\ Plain(list) /\ Has("w", list) /\ plies' = plies /\ Announced(list) /\ ending' \in {"none", "timeout", "other"}
  <2>1. \A k \in {"think", "join", "history"} : Errand(k) \notin ToSet(list)
    BY ErrandsDiffer DEF Plain
  <2>2. Started("w", list)
    BY <1>2, <2>1 DEF Started, Plain
  <2>3. InTurn'
    <3>1. CASE blind
      BY <1>2, <3>1 DEF InTurn
    <3>2. CASE ~blind
      BY <1>1, <1>5, <2>2, <3>2, ArrivedStart DEF Plain
    <3>. QED
      BY <3>1, <3>2
  <2>. QED
    BY <1>1, <1>2, <2>2, <2>3, StartKeeps
<1>7. ASSUME NEW ends \in BOOLEAN, plies' = plies + 1, ending' = IF ends THEN "other" ELSE "none",
             Has("w", EngineErrands(plies + 1, ends))
      PROVE  CastInv'
  <2>1. PICK n \in Nat : n = plies + 1
    BY <1>1
  <2>2. PICK list : list = EngineErrands(n, ends)
    OBVIOUS
  <2>3. MoveList(list, "w", n) /\ (ends => TellsAll(list, GameOver))
    BY <1>4, <2>2, EngineLists
  <2>4. Has("w", list)
    BY <1>7, <2>1, <2>2
  <2>5. Started("w", list) /\ Announced(list)
    BY <1>2, <1>7, <2>1, <2>3, <2>4 DEF Started, MoveList, Announced
  <2>6. InTurn'
    <3>1. CASE blind
      BY <1>2, <3>1 DEF InTurn
    <3>2. CASE ~blind
      <4>1. Mover' = "w"
        BY <1>2, <1>4 DEF Mover
      <4>. QED
        BY <1>1, <1>4, <1>5, <1>7, <2>1, <2>3, <2>5, <3>2, <4>1, MoveStart DEF MoveList
    <3>. QED
      BY <3>1, <3>2
  <2>7. plies' \in Nat /\ ending' \in {"none", "timeout", "other"}
    BY <1>1, <1>7
  <2>. QED
    BY <1>2, <2>5, <2>6, <2>7, StartKeeps
<1>8. ASSUME ending' = "timeout", plies' = plies, Has("w", <<Tell("w", GameOver), Fan(GameOver)>>) PROVE CastInv'
  <2>1. PICK list : list = <<Tell("w", GameOver), Fan(GameOver)>>
    OBVIOUS
  <2>2. Plain(list) /\ TellsAll(list, GameOver)
    BY <1>1, <1>4, <2>1, EngineLists
  <2>3. Has("w", list) /\ Announced(list)
    BY <1>8, <2>1, <2>2 DEF Announced
  <2>. QED
    BY <1>6, <1>8, <2>2, <2>3
<1>9. ASSUME UNCHANGED <<plies, ending>>, Has("w", <<>>) PROVE CastInv'
  <2>1. Plain(<<>>)
    BY ListsAre DEF Plain, Moveless
  <2>2. Announced(<<>>)
    BY <1>9 DEF Announced
  <2>. QED
    BY <1>1, <1>6, <1>9, <2>1, <2>2
<1>. QED
  BY <1>7, <1>8, <1>9 DEF trigger_ai_move

LEMMA AppendedList ==
    ASSUME NEW S, NEW s \in Seq(S), NEW x \in S
    PROVE  Append(s, x) \in Seq(S) /\ ToSet(Append(s, x)) = ToSet(s) \cup {x}
<1>1. /\ Append(s, x) \in Seq(S) /\ Len(s) \in Nat /\ DOMAIN s = 1..Len(s) /\ DOMAIN Append(s, x) = 1..(Len(s) + 1)
      /\ \A i \in 1..(Len(s) + 1) : Append(s, x)[i] = IF i = Len(s) + 1 THEN x ELSE s[i]
  OBVIOUS
<1>2. \A i \in 1..Len(s) : i \in 1..(Len(s) + 1) /\ i # Len(s) + 1
  BY <1>1
<1>3. \A i \in 1..(Len(s) + 1) : i = Len(s) + 1 \/ i \in 1..Len(s)
  BY <1>1
<1>4. Len(s) + 1 \in 1..(Len(s) + 1)
  BY <1>1
<1>. QED
  BY <1>1, <1>2, <1>3, <1>4 DEF ToSet

(* A frame that is delivered has arrived, and nothing that had is lost.    *)
LEMMA Delivery ==
    ASSUME CastTypes, NEW p \in People, NEW f \in CastFrames, Deliver(p, f)
    PROVE  /\ inbox' \in [People -> [moves : Seq(Nat), states : SUBSET Nat, over : BOOLEAN]]
           /\ \A q \in People : \A g \in Lasting : Arrived(q, g) \/ (q = p /\ g = f) => Arrived(q, g)'
           /\ \A q \in People : inbox'[q].moves = IF q = p /\ f.type = "move_made" THEN Append(inbox[q].moves, f.n)
                                                  ELSE inbox[q].moves
<1>. DEFINE Box == [moves : Seq(Nat), states : SUBSET Nat, over : BOOLEAN]
<1>1. inbox \in [People -> Box] /\ inbox[p] \in Box
  BY DEF CastTypes
<1>2. \A g \in Lasting : g.type \in {"move_made", "state", "game_over"} /\ (g.type = "game_over" => g = GameOver)
  BY DEF Lasting, GameOver
<1>3. CASE f.type = "move_made"
  <2>1. f.n \in Nat /\ inbox' = [inbox EXCEPT ![p].moves = Append(@, f.n)]
    BY <1>3, FramesAre DEF Deliver
  <2>2. PICK list \in Seq(Nat) : list = Append(inbox[p].moves, f.n) /\ ToSet(list) = ToSet(inbox[p].moves) \cup {f.n}
    <3>1. PICK old \in Seq(Nat) : old = inbox[p].moves
      BY <1>1
    <3>2. PICK n \in Nat : n = f.n
      BY <2>1
    <3>3. Append(old, n) \in Seq(Nat) /\ ToSet(Append(old, n)) = ToSet(old) \cup {n}
      BY AppendedList
    <3>. QED
      BY <3>1, <3>2, <3>3
  <2>3. inbox' = [inbox EXCEPT ![p].moves = list]
    BY <2>1, <2>2
  <2>4. inbox' \in [People -> Box]
    BY <1>1, <2>3
  <2>5. \A q \in People : /\ inbox'[q].moves = IF q = p THEN list ELSE inbox[q].moves
                          /\ inbox'[q].states = inbox[q].states /\ inbox'[q].over = inbox[q].over
    BY <1>1, <2>3
  <2>6. \A q \in People : ToSet(inbox[q].moves) \subseteq ToSet(inbox'[q].moves)
    BY <2>2, <2>5
  <2>7. \A q \in People : \A g \in Lasting : Arrived(q, g) \/ (q = p /\ g = f) => Arrived(q, g)'
    BY <1>3, <2>2, <2>5, <2>6 DEF Arrived
  <2>. QED
    BY <1>3, <2>2, <2>4, <2>5, <2>7
<1>4. CASE f.type = "state"
  <2>1. f.n \in Nat /\ inbox' = [inbox EXCEPT ![p].states = @ \cup {f.n}]
    BY <1>4, FramesAre DEF Deliver
  <2>2. inbox' \in [People -> Box]
    BY <1>1, <2>1
  <2>3. \A q \in People : /\ inbox'[q].moves = inbox[q].moves /\ inbox'[q].over = inbox[q].over
                          /\ inbox'[q].states = IF q = p THEN inbox[q].states \cup {f.n} ELSE inbox[q].states
    BY <1>1, <2>1
  <2>4. \A q \in People : \A g \in Lasting : Arrived(q, g) \/ (q = p /\ g = f) => Arrived(q, g)'
    BY <1>4, <2>3 DEF Arrived
  <2>. QED
    BY <1>4, <2>2, <2>3, <2>4
<1>5. CASE f.type = "game_over"
  <2>1. inbox' = [inbox EXCEPT ![p].over = TRUE]
    BY <1>5 DEF Deliver
  <2>2. inbox' \in [People -> Box]
    BY <1>1, <2>1
  <2>3. \A q \in People : /\ inbox'[q].moves = inbox[q].moves /\ inbox'[q].states = inbox[q].states
                          /\ inbox'[q].over = IF q = p THEN TRUE ELSE inbox[q].over
    BY <1>1, <2>1
  <2>4. \A q \in People : \A g \in Lasting : Arrived(q, g) \/ (q = p /\ g = f) => Arrived(q, g)'
    BY <1>5, <2>3 DEF Arrived
  <2>. QED
    BY <1>5, <2>2, <2>3, <2>4
<1>6. CASE f.type \notin {"move_made", "state", "game_over"}
  <2>1. inbox' = inbox /\ f \notin Lasting
    BY <1>2, <1>6 DEF Deliver
  <2>2. \A q \in People : \A g \in Lasting : Arrived(q, g) \/ (q = p /\ g = f) => Arrived(q, g)'
    BY <2>1 DEF Arrived
  <2>. QED
    BY <1>1, <1>6, <2>1, <2>2
<1>. QED
  BY <1>3, <1>4, <1>5, <1>6

(* An errand is taken off the list, and may leave another in its place.    *)
Took(h, more) ==
    /\ h \in Handlers /\ errands[h] # <<>> /\ more \in Seq(AllErrands)
    /\ errands' = [errands EXCEPT ![h] = more \o Tail(@)]
    /\ \A e \in ToSet(more) : e.do = "tell" /\ ~BringsMove(e)

LEMMA TookLists ==
    ASSUME CastTypes, NEW h, NEW more, Took(h, more)
    PROVE  /\ errands' \in [Handlers -> Seq(AllErrands)]
           /\ \A g \in Handlers : g # h => errands'[g] = errands[g]
           /\ ToSet(errands'[h]) = ToSet(more) \cup ToSet(Tail(errands[h]))
           /\ ToSet(errands[h]) = {Head(errands[h])} \cup ToSet(Tail(errands[h]))
           /\ Head(errands[h]) \in AllErrands
           /\ \A e : Pending(e) => Pending(e)' \/ e = Head(errands[h])
           /\ \A e \in ToSet(more) : Pending(e)'
<1>1. h \in Handlers /\ errands[h] \in Seq(AllErrands) /\ errands[h] # <<>> /\ more \in Seq(AllErrands)
  BY DEF CastTypes, Took
<1>2. /\ Head(errands[h]) \in AllErrands /\ Tail(errands[h]) \in Seq(AllErrands)
      /\ ToSet(errands[h]) = {Head(errands[h])} \cup ToSet(Tail(errands[h]))
  BY <1>1, ListsSplit
<1>3. /\ more \o Tail(errands[h]) \in Seq(AllErrands)
      /\ ToSet(more \o Tail(errands[h])) = ToSet(more) \cup ToSet(Tail(errands[h]))
  <2>1. PICK tail \in Seq(AllErrands) : tail = Tail(errands[h])
    BY <1>2
  <2>2. more \o tail \in Seq(AllErrands) /\ ToSet(more \o tail) = ToSet(more) \cup ToSet(tail)
    BY <1>1, JoinedLists
  <2>. QED
    BY <2>1, <2>2
<1>4. PICK list \in Seq(AllErrands) : list = more \o Tail(errands[h])
  BY <1>3
<1>5. errands' = [errands EXCEPT ![h] = list]
  BY <1>1, <1>4 DEF Took, CastTypes
<1>6. /\ errands' \in [Handlers -> Seq(AllErrands)] /\ errands'[h] = list
      /\ \A g \in Handlers : g # h => errands'[g] = errands[g]
  BY <1>1, <1>5 DEF CastTypes
<1>7. ToSet(errands'[h]) = ToSet(more) \cup ToSet(Tail(errands[h]))
  BY <1>3, <1>4, <1>6
<1>8. \A e : Pending(e) => Pending(e)' \/ e = Head(errands[h])
  BY <1>1, <1>2, <1>6, <1>7 DEF Pending
<1>9. \A e \in ToSet(more) : Pending(e)'
  BY <1>1, <1>7 DEF Pending
<1>. QED
  BY <1>2, <1>6, <1>7, <1>8, <1>9

LEMMA TookReaders ==
    ASSUME CastTypes, ReadersKnown, NEW h, NEW more, Took(h, more), engineGame' = engineGame,
           watching' = watching \/ Head(errands[h]) = Errand("join")
    PROVE  ReadersKnown'
<1>1. /\ \A g \in Handlers : g # h => errands'[g] = errands[g]
      /\ ToSet(errands'[h]) = ToSet(more) \cup ToSet(Tail(errands[h]))
      /\ ToSet(errands[h]) = {Head(errands[h])} \cup ToSet(Tail(errands[h]))
  BY TookLists
<1>2. \A k \in {"think", "join", "history"} : Errand(k) \notin ToSet(more)
  BY ErrandsDiffer DEF Took
<1>3. \A g \in Handlers : \A k \in {"think", "join", "history"} :
         Errand(k) \in ToSet(errands'[g]) => Errand(k) \in ToSet(errands[g])
  BY <1>1, <1>2
<1>4. \A g \in Handlers : Errand("think") \in ToSet(errands'[g]) => engineGame'
  BY <1>3 DEF ReadersKnown
<1>5. "upkeep" \in Handlers /\ "watcher" \in Handlers /\ h \in Handlers
  BY DEF Handlers, People, Took
<1>6. ~Reads("upkeep")' /\ \A g \in Handlers \ {"watcher"} : ~Joins(g)'
  BY <1>3, <1>5 DEF ReadersKnown, Reads, Joins
<1>7. Joins("watcher")' => errands'["watcher"] = Onboarding /\ ~watching'
  <2>1. SUFFICES ASSUME Joins("watcher")' PROVE errands'["watcher"] = Onboarding /\ ~watching'
    OBVIOUS
  <2>2. Joins("watcher") /\ errands["watcher"] = Onboarding /\ ~watching
    BY <1>3, <1>5, <2>1 DEF ReadersKnown, Joins
  <2>3. h # "watcher"
    <3>1. Onboarding = <<Errand("join"), Errand("history")>> /\ Tail(Onboarding) = <<Errand("history")>>
      BY ErrandsAre DEF Onboarding
    <3>2. ToSet(Tail(Onboarding)) = {Errand("history")} /\ Errand("join") # Errand("history")
      BY <3>1, ErrandsAre, ListsAre DEF Errand
    <3>. QED
      BY <1>1, <1>2, <2>1, <2>2, <3>2 DEF Joins
  <2>4. Head(errands[h]) # Errand("join")
    BY <1>1, <1>5, <2>3 DEF ReadersKnown, Joins
  <2>. QED
    BY <1>1, <1>5, <2>2, <2>3, <2>4
<1>8. Onboarding' = Onboarding
  BY DEF Onboarding, Errand
<1>. QED
  BY <1>4, <1>6, <1>7, <1>8 DEF ReadersKnown

(* Frames other than the moves on their way do not disturb these.          *)
LEMMA TookQuiet ==
    ASSUME CastTypes, InTurn, NEW h, NEW more, Took(h, more), Moveless(errands[h]),
           UNCHANGED <<engineGame, plies, blind>>, \A p \in Rivals : inbox'[p].moves = inbox[p].moves
    PROVE  InTurn'
<1>1. /\ \A g \in Handlers : g # h => errands'[g] = errands[g]
      /\ ToSet(errands'[h]) = ToSet(more) \cup ToSet(Tail(errands[h]))
      /\ ToSet(errands[h]) = {Head(errands[h])} \cup ToSet(Tail(errands[h]))
  BY TookLists
<1>2. Mover' = Mover /\ Mover \in Rivals /\ Mover \in Handlers /\ Seated' = Seated /\ Seated \subseteq Rivals
  BY DEF Mover, ToMove, Across, Seated, Handlers, People, Rivals
<1>3. Moveless(errands'[h])
  BY <1>1 DEF Moveless, Took
<1>4. \A g \in Handlers : Moveless(errands[g]) => Moveless(errands'[g])
  BY <1>1, <1>3
<1>5. ASSUME ToOpponent \/ ToAll PROVE errands'[Mover] = errands[Mover]
  <2>1. \A p \in Rivals : BringsMove(Tell(p, MoveMade(plies)))
    BY ErrandsDiffer, FramesAre DEF BringsMove, CastTypes
  <2>2. BringsMove(Head(errands[Mover])) /\ errands[Mover] # <<>>
    BY <1>2, <1>5, <2>1 DEF ToOpponent, ToAll, Across, Rivals
  <2>3. Head(errands[Mover]) \in ToSet(errands[Mover])
    BY <1>2, <2>2, ListsSplit DEF CastTypes
  <2>. QED
    BY <1>1, <1>2, <2>2, <2>3 DEF Moveless
<1>6. AllArrived => AllArrived'
  BY <1>2, <1>4 DEF AllArrived, Moveless, BringsMove, UpTo
<1>7. OthersMoveless => OthersMoveless'
  BY <1>2, <1>4 DEF OthersMoveless, Moveless, BringsMove
<1>8. Across(Mover) \in Rivals
  BY <1>2 DEF Across, Rivals
<1>9. ToOpponent => ToOpponent'
  BY <1>2, <1>5, <1>7, <1>8 DEF ToOpponent, Moveless, BringsMove, UpTo, Across, Tell, MoveMade
<1>10. ASSUME ToAll PROVE ToAll'
  <2>1. plies' > 0 /\ OthersMoveless' /\ errands'[Mover'] = errands[Mover] /\ errands[Mover] # <<>>
    BY <1>2, <1>5, <1>7, <1>10 DEF ToAll
  <2>2. (\A p \in Seated : inbox[p].moves = UpTo(plies - 1))'
    BY <1>2, <1>10 DEF ToAll, UpTo
  <2>3. (Head(errands[Mover]) = Tell(Mover, MoveMade(plies)))'
    BY <1>2, <1>10, <2>1 DEF ToAll, Tell, MoveMade
  <2>4. CASE engineGame
    <3>1. Moveless(Tail(errands[Mover]))'
      BY <1>10, <2>1, <2>4 DEF ToAll, Moveless, BringsMove
    <3>. QED
      BY <2>1, <2>2, <2>3, <2>4, <3>1 DEF ToAll
  <2>5. CASE ~engineGame
    <3>1. Moveless(Tail(Tail(errands[Mover])))'
      BY <1>10, <2>1, <2>5 DEF ToAll, Moveless, BringsMove
    <3>2. (Tail(errands[Mover]) # <<>> /\ Head(Tail(errands[Mover])) = Tell(Across(Mover), MoveMade(plies)))'
      BY <1>2, <1>10, <2>1, <2>5 DEF ToAll, Tell, MoveMade, Across
    <3>. QED
      BY <2>1, <2>2, <2>3, <2>5, <3>1, <3>2 DEF ToAll
  <2>. QED
    BY <2>4, <2>5
<1>. QED
  BY <1>6, <1>9, <1>10 DEF InTurn

(* The last move takes the next step of its way.                           *)
LEMMA TookMove ==
    ASSUME CastTypes, InTurn, ~blind, NEW h, Took(h, <<>>), ~Moveless(errands[h]),
           UNCHANGED <<engineGame, plies, blind>>,
           NEW p \in People, NEW f \in CastFrames, Head(errands[h]) = Tell(p, f), Deliver(p, f)
    PROVE  InTurn'
<1>1. /\ \A g \in Handlers : g # h => errands'[g] = errands[g]
      /\ h \in Handlers /\ errands[h] \in Seq(AllErrands)
  BY TookLists DEF Took, CastTypes
<1>2. errands'[h] = Tail(errands[h])
  <2>1. PICK tail \in Seq(AllErrands) : tail = Tail(errands[h])
    BY <1>1, ListsSplit DEF Took
  <2>2. <<>> \o tail = tail
    OBVIOUS
  <2>3. errands' = [errands EXCEPT ![h] = <<>> \o tail]
    BY <2>1 DEF Took
  <2>. QED
    BY <1>1, <2>1, <2>2, <2>3 DEF CastTypes
<1>3. Mover' = Mover /\ Mover \in Rivals /\ Mover \in Handlers /\ Seated' = Seated /\ Across(Mover) \in Rivals
  BY DEF Mover, ToMove, Across, Seated, Handlers, People, Rivals
<1>4. h = Mover /\ ~AllArrived /\ (ToOpponent \/ ToAll)
  BY <1>1 DEF AllArrived, InTurn, ToOpponent, ToAll, OthersMoveless
<1>5. OthersMoveless'
  <2>1. OthersMoveless
    BY <1>4 DEF ToOpponent, ToAll
  <2>. QED
    BY <1>1, <1>3, <1>4, <2>1 DEF OthersMoveless, Moveless, BringsMove
<1>6. plies \in Nat \ {0} /\ plies' = plies
  BY <1>4 DEF CastTypes, ToOpponent, ToAll
<1>7. f = MoveMade(plies) /\ f.type = "move_made" /\ f.n = plies /\ p \in Rivals
      /\ p = IF ToOpponent THEN Across(Mover) ELSE Mover
  <2>1. Tell(p, f) = Tell(IF ToOpponent THEN Across(Mover) ELSE Mover, MoveMade(plies))
    BY <1>4 DEF ToOpponent, ToAll
  <2>2. f = MoveMade(plies) /\ p = IF ToOpponent THEN Across(Mover) ELSE Mover
    BY <2>1, ErrandsDiffer
  <2>. QED
    BY <1>3, <1>6, <2>2, FramesAre
<1>8. \A q \in Rivals : inbox'[q].moves = IF q = p THEN Append(inbox[q].moves, plies) ELSE inbox[q].moves
  BY <1>7, Delivery DEF People
<1>9. Append(UpTo(plies - 1), plies) = UpTo(plies)
  <2>1. PICK n \in Nat : n = plies /\ n > 0
    BY <1>6
  <2>2. Append(UpTo(n - 1), n) = UpTo(n)
    BY <2>1, UpToSet
  <2>. QED
    BY <2>1, <2>2
<1>10. \A g \in Handlers : Moveless(errands'[g]) => Moveless(errands[g])'
  BY DEF Moveless, BringsMove
<1>11. CASE ToOpponent
  <2>1. \A q \in Rivals : inbox'[q].moves = UpTo(plies)
    <3>1. \A q \in Rivals : q = Mover \/ q = Across(Mover)
      BY <1>3 DEF Rivals, Across
    <3>. QED
      BY <1>7, <1>8, <1>9, <1>11, <3>1 DEF ToOpponent
  <2>2. Moveless(errands'[h])
    BY <1>2, <1>4, <1>11 DEF ToOpponent
  <2>3. \A g \in Handlers : Moveless(errands'[g])
    BY <1>1, <1>4, <1>11, <2>2 DEF ToOpponent, OthersMoveless
  <2>4. AllArrived'
    BY <1>3, <1>6, <2>1, <2>3 DEF AllArrived, Moveless, BringsMove, UpTo, Seated, Rivals
  <2>. QED
    BY <2>4 DEF InTurn
<1>12. CASE ~ToOpponent /\ engineGame
  <2>1. Seated = {"w"} /\ Mover = "w" /\ p = "w"
    BY <1>7, <1>12 DEF Seated, Mover
  <2>2. inbox'["w"].moves = UpTo(plies)
    BY <1>4, <1>7, <1>8, <1>9, <1>12, <2>1 DEF ToAll
  <2>3. Moveless(errands'[h])
    BY <1>2, <1>4, <1>12 DEF ToAll
  <2>4. \A g \in Handlers : Moveless(errands'[g])
    BY <1>1, <1>4, <1>12, <2>3 DEF ToAll, OthersMoveless
  <2>5. AllArrived'
    BY <1>3, <1>6, <2>1, <2>2, <2>4 DEF AllArrived, Moveless, BringsMove, UpTo
  <2>. QED
    BY <2>5 DEF InTurn
<1>13. CASE ~ToOpponent /\ ~engineGame
  <2>1. Seated = Rivals /\ p = Mover /\ Across(Mover) # Mover /\ Mover \in Seated /\ Across(Mover) \in Seated
    BY <1>3, <1>7, <1>13 DEF Seated, Rivals, Across
  <2>2. inbox'[Mover].moves = UpTo(plies) /\ inbox'[Across(Mover)].moves = UpTo(plies - 1)
    BY <1>3, <1>4, <1>7, <1>8, <1>9, <1>13, <2>1 DEF ToAll
  <2>3. /\ errands'[Mover] # <<>> /\ Head(errands'[Mover]) = Tell(Across(Mover), MoveMade(plies))
        /\ Moveless(Tail(errands'[Mover]))
    BY <1>2, <1>4, <1>13 DEF ToAll
  <2>4. ToOpponent'
    BY <1>3, <1>5, <1>6, <1>13, <2>2, <2>3 DEF ToOpponent, Moveless, BringsMove, UpTo, Across, Tell, MoveMade
  <2>. QED
    BY <2>4 DEF InTurn
<1>. QED
  BY <1>11, <1>12, <1>13

(* What is known when an errand other than a refused joining is done.      *)
LEMMA TookKeeps ==
    ASSUME CastInv, NEW h, NEW more, Took(h, more), Answers, InTurn',
           UNCHANGED <<engineGame, plies, ending, offeredBy, blind>>,
           watching' = watching \/ (watching' = TRUE /\ Head(errands[h]) = Errand("join")),
           inbox' \in [People -> [moves : Seq(Nat), states : SUBSET Nat, over : BOOLEAN]]
    PROVE  CastInv'
<1>1. CastTypes /\ ReadersKnown /\ PlayersServed /\ WatcherServed /\ EndTold
  BY DEF CastInv
<1>2. ReadersKnown' /\ errands' \in [Handlers -> Seq(AllErrands)]
  BY <1>1, TookReaders, TookLists
<1>3. CastTypes'
  BY <1>1, <1>2 DEF CastTypes
<1>4. PlayersServed' /\ WatcherServed' /\ EndTold'
  BY <1>1, AnsweredServe
<1>. QED
  BY <1>2, <1>3, <1>4 DEF CastInv

(* Only an errand that is done is no longer due.                           *)
LEMMA TookDue ==
    ASSUME CastTypes, NEW h, NEW more, Took(h, more),
           \A q \in People : \A g \in Lasting : Arrived(q, g) => Arrived(q, g)'
    PROVE  /\ \A q \in People : \A g \in Lasting : Due(q, g) => Due(q, g)' \/ Head(errands[h]) = Tell(q, g)
           /\ \A g \in Lasting : DueToWatcher(g) => \/ DueToWatcher(g)'
                                                    \/ Head(errands[h]) \in {Tell("watcher", g), Fan(g)}
           /\ \A q \in People : \A g \in Lasting : Arrived(q, g)' \/ Tell(q, g) \in ToSet(more) => Due(q, g)'
           /\ Reads("watcher") => Reads("watcher")' \/ (h = "watcher" /\ Head(errands[h]) = Errand("history"))
<1>1. /\ \A e : Pending(e) => Pending(e)' \/ e = Head(errands[h])
      /\ \A e \in ToSet(more) : Pending(e)'
      /\ \A g \in Handlers : g # h => errands'[g] = errands[g]
      /\ ToSet(errands'[h]) = ToSet(more) \cup ToSet(Tail(errands[h]))
      /\ ToSet(errands[h]) = {Head(errands[h])} \cup ToSet(Tail(errands[h]))
  BY TookLists
<1>2. \A q, g : Arrived(q, g)' \/ Pending(Tell(q, g))' => Due(q, g)'
  BY DEF Due
<1>3. \A g : Due("watcher", g)' \/ Pending(Fan(g))' => DueToWatcher(g)'
  BY DEF DueToWatcher
<1>4. \A q \in People : \A g \in Lasting : Due(q, g) => Due(q, g)' \/ Head(errands[h]) = Tell(q, g)
  BY <1>1, <1>2 DEF Due
<1>5. \A g \in Lasting : DueToWatcher(g) => \/ DueToWatcher(g)'
                                            \/ Head(errands[h]) \in {Tell("watcher", g), Fan(g)}
  BY <1>1, <1>3, <1>4 DEF DueToWatcher, People
<1>6. \A q \in People : \A g \in Lasting : Arrived(q, g)' \/ Tell(q, g) \in ToSet(more) => Due(q, g)'
  BY <1>1, <1>2
<1>7. Reads("watcher") => Reads("watcher")' \/ (h = "watcher" /\ Head(errands[h]) = Errand("history"))
  BY <1>1 DEF Reads, Handlers, People
<1>. QED
  BY <1>4, <1>5, <1>6, <1>7

LEMMA StaysArrived == inbox' = inbox => \A q \in People : \A g \in Lasting : Arrived(q, g) => Arrived(q, g)'
BY DEF Arrived

(* A frame joins its recipient's buffer.                                   *)
LEMMA TellStep ==
    ASSUME CastInv, NEW h, Took(h, <<>>), NEW p \in People, NEW f \in CastFrames,
           Head(errands[h]) = Tell(p, f), Deliver(p, f),
           UNCHANGED <<engineGame, plies, ending, offeredBy, watching, blind>>
    PROVE  CastInv'
<1>1. CastTypes /\ InTurn
  BY DEF CastInv
<1>2. /\ inbox' \in [People -> [moves : Seq(Nat), states : SUBSET Nat, over : BOOLEAN]]
      /\ \A q \in People : \A g \in Lasting : Arrived(q, g) \/ (q = p /\ g = f) => Arrived(q, g)'
      /\ \A q \in People : inbox'[q].moves = IF q = p /\ f.type = "move_made" THEN Append(inbox[q].moves, f.n)
                                             ELSE inbox[q].moves
  BY <1>1, Delivery
<1>3. \A q \in People : \A g \in Lasting : Arrived(q, g) => Arrived(q, g)'
  BY <1>2
<1>4. \A q, g : Tell(p, f) = Tell(q, g) => q = p /\ g = f
  BY DEF Tell
<1>5. /\ \A g : Tell(p, f) # Fan(g)
      /\ Tell(p, f) # Errand("history") /\ Tell(p, f) # Errand("join")
  <2>1. Tell(p, f).do = "tell" /\ (\A g : Fan(g).do = "fan") /\ \A k : Errand(k).do = k
    BY ErrandsDiffer
  <2>. QED
    BY <2>1
<1>6. /\ \A q \in People : \A g \in Lasting : Due(q, g) => Due(q, g)' \/ Tell(p, f) = Tell(q, g)
      /\ \A g \in Lasting : DueToWatcher(g) => DueToWatcher(g)' \/ Tell(p, f) \in {Tell("watcher", g), Fan(g)}
      /\ \A q \in People : \A g \in Lasting : Arrived(q, g)' => Due(q, g)'
      /\ Reads("watcher") => Reads("watcher")' \/ Tell(p, f) = Errand("history")
  BY <1>1, <1>3, TookDue
<1>7. \A q \in People : \A g \in Lasting : Due(q, g) => Due(q, g)'
  BY <1>2, <1>4, <1>6
<1>8. \A g \in Lasting : Due("watcher", g)' => DueToWatcher(g)'
  BY DEF DueToWatcher
<1>9. \A g \in Lasting : DueToWatcher(g) => DueToWatcher(g)'
  <2>. TAKE g \in Lasting
  <2>1. "watcher" \in People
    BY DEF People
  <2>2. CASE p = "watcher" /\ g = f
    BY <1>2, <1>6, <1>8, <2>1, <2>2
  <2>3. CASE ~(p = "watcher" /\ g = f)
    <3>1. Tell(p, f) \notin {Tell("watcher", g), Fan(g)}
      BY <1>4, <1>5, <2>3
    <3>. QED
      BY <1>6, <3>1
  <2>. QED
    BY <2>2, <2>3
<1>10. Answers
  BY <1>5, <1>6, <1>7, <1>9 DEF Answers
<1>11. InTurn'
  <2>1. CASE blind
    BY <2>1 DEF InTurn
  <2>2. CASE Moveless(errands[h])
    <3>1. ~BringsMove(Tell(p, f))
      BY <1>1, <2>2, TookLists DEF Moveless
    <3>2. ~(p \in Rivals /\ f.type = "move_made")
      BY <3>1, ErrandsDiffer DEF BringsMove
    <3>3. \A q \in Rivals : inbox'[q].moves = inbox[q].moves
      BY <1>2, <3>2 DEF People
    <3>. QED
      BY <1>1, <2>2, <3>3, TookQuiet
  <2>3. CASE ~blind /\ ~Moveless(errands[h])
    BY <1>1, <2>3, TookMove
  <2>. QED
    BY <2>1, <2>2, <2>3
<1>. QED
  BY <1>2, <1>10, <1>11, TookKeeps

(* Errands that leave the buffers alone bring no move to a player.         *)
LEMMA OwnErrandTurns ==
    ASSUME CastInv, NEW h, NEW more, Took(h, more), Head(errands[h]).do # "tell",
           UNCHANGED <<engineGame, plies, blind, inbox>>
    PROVE  InTurn'
<1>1. CastTypes /\ InTurn
  BY DEF CastInv
<1>2. CASE blind
  BY <1>2 DEF InTurn
<1>3. CASE ~blind
  <2>1. Moveless(errands[h])
    <3>1. h \in Handlers /\ \A q, f : Head(errands[h]) # Tell(q, f)
      BY ErrandsDiffer DEF Took
    <3>2. h # Mover \/ AllArrived
      BY <1>1, <1>3, <3>1 DEF InTurn, ToOpponent, ToAll
    <3>. QED
      BY <1>1, <1>3, <3>1, <3>2 DEF InTurn, AllArrived, ToOpponent, ToAll, OthersMoveless
  <2>. QED
    BY <1>1, <2>1, TookQuiet
<1>. QED
  BY <1>2, <1>3

LEMMA FanStep ==
    ASSUME CastInv, NEW h, NEW f \in CastFrames, Head(errands[h]) = Fan(f), NEW more,
           more = IF watching THEN <<Tell("watcher", f)>> ELSE <<>>, Took(h, more),
           UNCHANGED <<engineGame, plies, ending, offeredBy, watching, blind, inbox>>
    PROVE  CastInv'
<1>1. CastTypes /\ "watcher" \in People
  BY DEF CastInv, People
<1>2. \A q \in People : \A g \in Lasting : Arrived(q, g) => Arrived(q, g)'
  BY StaysArrived
<1>3. watching => Tell("watcher", f) \in ToSet(more)
  BY <1>1, ErrandsAre, ListsAre
<1>4. /\ \A q, g : Fan(f) # Tell(q, g)
      /\ \A g : Fan(f) = Fan(g) => g = f
      /\ Fan(f) # Errand("history") /\ Fan(f) # Errand("join") /\ Fan(f).do # "tell"
  <2>1. (\A q, g : Tell(q, g).do = "tell") /\ (\A g : Fan(g).do = "fan" /\ Fan(g).frame = g) /\ \A k : Errand(k).do = k
    BY ErrandsDiffer
  <2>. QED
    BY <2>1
<1>5. /\ \A q \in People : \A g \in Lasting : Due(q, g) => Due(q, g)' \/ Fan(f) = Tell(q, g)
      /\ \A g \in Lasting : DueToWatcher(g) => DueToWatcher(g)' \/ Fan(f) \in {Tell("watcher", g), Fan(g)}
      /\ \A q \in People : \A g \in Lasting : Tell(q, g) \in ToSet(more) => Due(q, g)'
      /\ Reads("watcher") => Reads("watcher")' \/ Fan(f) = Errand("history")
  BY <1>1, <1>2, TookDue
<1>6. \A g \in Lasting : Due("watcher", g)' => DueToWatcher(g)'
  BY DEF DueToWatcher
<1>7. watching => \A g \in Lasting : DueToWatcher(g) => DueToWatcher(g)'
  BY <1>1, <1>3, <1>4, <1>5, <1>6
<1>8. Answers
  BY <1>4, <1>5, <1>7 DEF Answers
<1>9. InTurn'
  BY <1>4, OwnErrandTurns
<1>. QED
  BY <1>1, <1>8, <1>9, TookKeeps DEF CastTypes

(* The watcher joins the list.                                             *)
LEMMA JoinStep ==
    ASSUME CastInv, NEW h, Took(h, <<>>), Head(errands[h]) = Errand("join"), Playing, watching' = TRUE,
           UNCHANGED <<engineGame, plies, ending, offeredBy, blind, inbox>>
    PROVE  CastInv'
<1>1. CastTypes /\ ReadersKnown
  BY DEF CastInv
<1>2. \A q \in People : \A g \in Lasting : Arrived(q, g) => Arrived(q, g)'
  BY StaysArrived
<1>3. /\ \A q, g : Errand("join") # Tell(q, g) /\ Errand("join") # Fan(g)
      /\ Errand("join").do # "tell" /\ Errand("join") # Errand("history")
  <2>1. (\A q, g : Tell(q, g).do = "tell") /\ (\A g : Fan(g).do = "fan") /\ \A k : Errand(k).do = k
    BY ErrandsDiffer
  <2>. QED
    BY <2>1
<1>4. h = "watcher" /\ errands["watcher"] = Onboarding /\ watching = FALSE
  <2>1. h \in Handlers /\ Joins(h)
    BY <1>1, TookLists DEF Joins, Took
  <2>. QED
    BY <1>1, <2>1 DEF ReadersKnown, CastTypes
<1>5. Reads("watcher")'
  <2>1. Tail(Onboarding) = <<Errand("history")>>
    BY ErrandsAre DEF Onboarding
  <2>2. ToSet(Tail(Onboarding)) = {Errand("history")}
    BY <2>1, ErrandsAre, ListsAre
  <2>. QED
    BY <1>1, <1>4, <2>2, TookLists DEF Reads
<1>6. \A q \in People : \A g \in Lasting : Due(q, g) => Due(q, g)'
  BY <1>1, <1>2, <1>3, TookDue
<1>7. Answers
  BY <1>4, <1>5, <1>6 DEF Answers, Playing
<1>8. InTurn'
  BY <1>3, OwnErrandTurns
<1>9. watching' = watching \/ (watching' = TRUE /\ Head(errands[h]) = Errand("join"))
  OBVIOUS
<1>. QED
  BY <1>1, <1>7, <1>8, <1>9, TookKeeps DEF CastTypes

(* Or is refused, the game being over: it is not on the list.              *)
LEMMA RefusedStep ==
    ASSUME CastInv, NEW h \in Handlers, errands[h] # <<>>, Head(errands[h]) = Errand("join"),
           errands' = [errands EXCEPT ![h] = <<>>],
           UNCHANGED <<engineGame, plies, ending, offeredBy, watching, blind, inbox>>
    PROVE  CastInv'
<1>1. CastTypes /\ ReadersKnown /\ PlayersServed /\ WatcherServed /\ EndTold /\ InTurn
  BY DEF CastInv
<1>2. h = "watcher" /\ errands["watcher"] = Onboarding /\ watching = FALSE
  <2>1. Joins(h)
    BY <1>1, ListsSplit DEF Joins, CastTypes
  <2>. QED
    BY <1>1, <2>1 DEF ReadersKnown, CastTypes
<1>3. /\ errands' \in [Handlers -> Seq(AllErrands)] /\ errands'[h] = <<>>
      /\ \A g \in Handlers : g # h => errands'[g] = errands[g]
  BY <1>1, ListsAre DEF CastTypes
<1>4. ToSet(errands[h]) = {Errand("join"), Errand("history")} /\ ToSet(errands'[h]) = {}
  BY <1>2, <1>3, ErrandsAre, ListsAre DEF Onboarding
<1>5. /\ \A q, g : Tell(q, g) \notin {Errand("join"), Errand("history")}
      /\ \A g : Fan(g) \notin {Errand("join"), Errand("history")}
      /\ \A k : ~BringsMove(Errand(k)) \/ k = "tell"
  <2>1. (\A q, g : Tell(q, g).do = "tell") /\ (\A g : Fan(g).do = "fan") /\ \A k : Errand(k).do = k
    BY ErrandsDiffer
  <2>. QED
    BY <2>1 DEF BringsMove
<1>6. \A q, g : Pending(Tell(q, g)) => Pending(Tell(q, g))'
  <2>1. \A e : Pending(e) /\ e \notin {Errand("join"), Errand("history")} => Pending(e)'
    BY <1>3, <1>4 DEF Pending
  <2>. QED
    BY <1>5, <2>1
<1>7. \A q \in People : \A g \in Lasting : Due(q, g) => Due(q, g)'
  <2>1. \A q, g : Arrived(q, g)' \/ Pending(Tell(q, g))' => Due(q, g)'
    BY DEF Due
  <2>. QED
    BY <1>6, <2>1, StaysArrived DEF Due
<1>8. Answers
  BY <1>2, <1>7 DEF Answers
<1>9. PlayersServed' /\ WatcherServed' /\ EndTold'
  BY <1>1, <1>8, AnsweredServe
<1>10. ReadersKnown'
  <2>1. \A g \in Handlers : ToSet(errands'[g]) \subseteq ToSet(errands[g])
    BY <1>3, <1>4
  <2>2. ~Joins("watcher")'
    BY <1>2, <1>4 DEF Joins
  <2>. QED
    BY <1>1, <2>1, <2>2 DEF ReadersKnown, Reads, Joins, Handlers, People
<1>11. CastTypes'
  BY <1>1, <1>3 DEF CastTypes
<1>12. InTurn'
  <2>1. Mover' = Mover /\ Mover \in Handlers /\ Mover # h /\ Seated' = Seated
    BY <1>2 DEF Mover, ToMove, Across, Seated, Handlers, People, Rivals
  <2>2. Moveless(errands'[h]) /\ errands'[Mover] = errands[Mover]
    BY <1>3, <1>4, <2>1 DEF Moveless
  <2>3. \A g \in Handlers : Moveless(errands[g]) => Moveless(errands'[g])
    BY <1>3, <2>2
  <2>4. AllArrived => AllArrived'
    BY <2>1, <2>3 DEF AllArrived, Moveless, BringsMove, UpTo
  <2>5. OthersMoveless => OthersMoveless'
    BY <2>1, <2>3 DEF OthersMoveless, Moveless, BringsMove
  <2>6. ToOpponent => ToOpponent'
    BY <2>1, <2>2, <2>5 DEF ToOpponent, Moveless, BringsMove, UpTo, Across, Tell, MoveMade
  <2>7. ToAll => ToAll'
    BY <2>1, <2>2, <2>5 DEF ToAll, Moveless, BringsMove, UpTo, Across, Tell, MoveMade
  <2>. QED
    BY <1>1, <2>4, <2>6, <2>7 DEF InTurn
<1>. QED
  BY <1>9, <1>10, <1>11, <1>12 DEF CastInv

(* A state is read after the reader has joined.                            *)
LEMMA HistoryStep ==
    ASSUME CastInv, NEW h, Head(errands[h]) = Errand("history"), Took(h, <<Tell(h, StateFrame(plies))>>),
           UNCHANGED <<engineGame, plies, ending, offeredBy, watching, blind, inbox>>
    PROVE  CastInv'
<1>1. CastTypes /\ ReadersKnown /\ plies \in Nat
  BY DEF CastInv, CastTypes
<1>2. \A q \in People : \A g \in Lasting : Arrived(q, g) => Arrived(q, g)'
  BY StaysArrived
<1>3. PICK more : more = <<Tell(h, StateFrame(plies))>>
  OBVIOUS
<1>4. Took(h, more)
  BY <1>3
<1>5. h \in People
  <2>1. h \in Handlers /\ Reads(h)
    BY <1>1, TookLists DEF Reads, Took
  <2>. QED
    BY <1>1, <2>1 DEF ReadersKnown, Handlers
<1>6. StateFrame(plies) \in Lasting /\ Tell(h, StateFrame(plies)) \in ToSet(more)
  BY <1>1, <1>3, <1>5, FramesAre, ErrandsAre, ListsAre
<1>7. /\ \A q, g : Errand("history") # Tell(q, g) /\ Errand("history") # Fan(g)
      /\ Errand("history").do # "tell"
  <2>1. (\A q, g : Tell(q, g).do = "tell") /\ (\A g : Fan(g).do = "fan") /\ \A k : Errand(k).do = k
    BY ErrandsDiffer
  <2>. QED
    BY <2>1
<1>8. /\ \A q \in People : \A g \in Lasting : Due(q, g) => Due(q, g)'
      /\ \A g \in Lasting : DueToWatcher(g) => DueToWatcher(g)'
      /\ \A q \in People : \A g \in Lasting : Tell(q, g) \in ToSet(more) => Due(q, g)'
      /\ Reads("watcher") => Reads("watcher")' \/ h = "watcher"
  BY <1>1, <1>2, <1>4, <1>7, TookDue
<1>9. h = "watcher" => \E s \in Nat : ServedFrom(s)'
  <2>1. PICK s \in Nat : s = plies
    BY <1>1
  <2>2. Due(h, StateFrame(s))'
    BY <1>5, <1>6, <1>8, <2>1
  <2>3. (s + 1)..plies' = {}
    BY <2>1
  <2>. QED
    BY <2>2, <2>3 DEF ServedFrom
<1>10. Answers
  BY <1>8, <1>9 DEF Answers
<1>11. InTurn'
  BY <1>4, <1>7, OwnErrandTurns
<1>. QED
  BY <1>1, <1>4, <1>10, <1>11, TookKeeps DEF CastTypes

LEMMA ProceedStep == ASSUME CastInv, NEW h \in Handlers, Proceed(h) PROVE CastInv'
<1>. DEFINE e == Head(errands[h])
<1>1. CastTypes /\ errands[h] # <<>> /\ <<>> \in Seq(AllErrands)
  BY ListsAre DEF CastInv, Proceed
<1>2. e \in AllErrands
  BY <1>1, ListsSplit DEF CastTypes
<1>3. \A more \in Seq(AllErrands) : /\ errands' = [errands EXCEPT ![h] = more \o Tail(@)]
                                    /\ \A x \in ToSet(more) : x.do = "tell" /\ ~BringsMove(x)
                                    => Took(h, more)
  BY <1>1 DEF Took
<1>4. ToSet(<<>>) = {}
  BY ListsAre
<1>5. errands' = [errands EXCEPT ![h] = <<>> \o Tail(@)] => Took(h, <<>>)
  BY <1>1, <1>4 DEF Took
<1>6. CASE /\ e.do = "tell" /\ Deliver(e.to, e.frame) /\ errands' = [errands EXCEPT ![h] = <<>> \o Tail(@)]
           /\ UNCHANGED roomVars /\ UNCHANGED <<asked, blind>>
  <2>1. e = Tell(e.to, e.frame) /\ e.to \in People /\ e.frame \in CastFrames
    BY <1>2, <1>6, ErrandsAre
  <2>2. UNCHANGED <<engineGame, plies, ending, offeredBy, watching, blind>>
    BY <1>6 DEF roomVars
  <2>. QED
    BY <1>5, <1>6, <2>1, <2>2, TellStep
<1>7. CASE /\ e.do = "fan"
           /\ errands' = [errands EXCEPT ![h] = (IF watching THEN <<Tell("watcher", e.frame)>> ELSE <<>>) \o Tail(@)]
           /\ UNCHANGED <<roomVars, inbox>> /\ UNCHANGED <<asked, blind>>
  <2>1. e = Fan(e.frame) /\ e.frame \in CastFrames
    BY <1>2, <1>7, ErrandsAre
  <2>2. UNCHANGED <<engineGame, plies, ending, offeredBy, watching, blind, inbox>>
    BY <1>7 DEF roomVars
  <2>3. PICK f \in CastFrames : f = e.frame
    BY <2>1
  <2>4. PICK more : more = IF watching THEN <<Tell("watcher", f)>> ELSE <<>>
    OBVIOUS
  <2>5. more \in Seq(AllErrands) /\ ToSet(more) \subseteq {Tell("watcher", f)}
    <3>1. Tell("watcher", f) \in AllErrands
      BY ErrandsAre DEF People
    <3>. QED
      BY <1>1, <1>4, <2>4, <3>1, ListsAre
  <2>6. Tell("watcher", f).do = "tell" /\ ~BringsMove(Tell("watcher", f))
    BY ErrandsDiffer DEF BringsMove, Rivals
  <2>7. errands' = [errands EXCEPT ![h] = more \o Tail(@)]
    BY <1>7, <2>3, <2>4
  <2>8. Took(h, more)
    BY <1>3, <2>5, <2>6, <2>7
  <2>9. Head(errands[h]) = Fan(f)
    BY <2>1, <2>3
  <2>. QED
    BY <2>2, <2>4, <2>8, <2>9, FanStep
<1>8. CASE /\ e.do = "join" /\ Playing /\ watching' = TRUE
           /\ errands' = [errands EXCEPT ![h] = <<>> \o Tail(@)]
           /\ UNCHANGED <<engineGame, plies, ending, offeredBy, inbox>> /\ UNCHANGED <<asked, blind>>
  <2>1. e = Errand("join")
    BY <1>2, <1>8, ErrandsAre
  <2>. QED
    BY <1>5, <1>8, <2>1, JoinStep
<1>9. CASE /\ e.do = "join" /\ ~Playing /\ errands' = [errands EXCEPT ![h] = <<>>]
           /\ UNCHANGED <<roomVars, inbox>> /\ UNCHANGED <<asked, blind>>
  <2>1. e = Errand("join")
    BY <1>2, <1>9, ErrandsAre
  <2>2. UNCHANGED <<engineGame, plies, ending, offeredBy, watching, blind, inbox>>
    BY <1>9 DEF roomVars
  <2>. QED
    BY <1>1, <1>9, <2>1, <2>2, RefusedStep
<1>10. CASE /\ e.do = "history"
            /\ errands' = [errands EXCEPT ![h] = <<Tell(h, StateFrame(plies))>> \o Tail(@)]
            /\ UNCHANGED <<roomVars, inbox>> /\ UNCHANGED <<asked, blind>>
  <2>1. e = Errand("history")
    BY <1>2, <1>10, ErrandsAre
  <2>2. UNCHANGED <<engineGame, plies, ending, offeredBy, watching, blind, inbox>>
    BY <1>10 DEF roomVars
  <2>3. h \in People /\ plies \in Nat
    <3>1. Reads(h)
      BY <1>1, <2>1, ListsSplit DEF CastTypes, Reads
    <3>. QED
      BY <1>1, <3>1 DEF CastInv, ReadersKnown, CastTypes, Handlers
  <2>4. PICK state \in AllErrands : state = Tell(h, StateFrame(plies)) /\ state.do = "tell" /\ ~BringsMove(state)
    BY <2>3, FramesAre, ErrandsAre, ErrandsDiffer DEF BringsMove
  <2>5. <<state>> \in Seq(AllErrands) /\ ToSet(<<state>>) = {state}
    BY ListsAre
  <2>6. PICK more \in Seq(AllErrands) : more = <<state>> /\ ToSet(more) = {state}
    BY <2>5
  <2>7. errands' = [errands EXCEPT ![h] = more \o Tail(@)]
    BY <1>10, <2>4, <2>6
  <2>8. Took(h, more)
    BY <1>3, <2>4, <2>6, <2>7
  <2>9. Took(h, <<Tell(h, StateFrame(plies))>>)
    BY <2>4, <2>6, <2>8
  <2>. QED
    BY <2>1, <2>2, <2>9, HistoryStep
<1>. QED
  BY <1>6, <1>7, <1>8, <1>9, <1>10 DEF Proceed

LEMMA CastStarts == CastInit => CastInv
<1>. SUFFICES ASSUME CastInit PROVE CastInv
  OBVIOUS
<1>. USE DEF CastInit
<1>1. DOMAIN errands = Handlers /\ \A h \in Handlers : errands[h] = <<>> /\ ToSet(errands[h]) = {}
  BY ListsAre DEF Handlers, People
<1>2. inbox \in [People -> [moves : Seq(Nat), states : SUBSET Nat, over : BOOLEAN]]
  <2>1. <<>> \in Seq(Nat)
    OBVIOUS
  <2>. QED
    BY <2>1 DEF People
<1>3. CastTypes
  <2>1. errands \in [Handlers -> Seq(AllErrands)]
    BY ListsAre DEF Handlers, People
  <2>. QED
    BY <1>2, <2>1 DEF CastTypes
<1>4. ReadersKnown
  BY <1>1 DEF ReadersKnown, Reads, Joins, Handlers, People
<1>5. PlayersServed /\ WatcherServed /\ EndTold
  BY DEF PlayersServed, WatcherServed, EndTold
<1>6. InTurn
  <2>1. UpTo(0) = <<>>
    BY DEF UpTo
  <2>2. \A p \in Seated : inbox[p].moves = UpTo(plies)
    BY <2>1 DEF Seated, Rivals
  <2>3. AllArrived
    BY <1>1, <2>2 DEF AllArrived, Moveless
  <2>. QED
    BY <2>3 DEF InTurn
<1>. QED
  BY <1>3, <1>4, <1>5, <1>6 DEF CastInv

LEMMA CastSteps == CastInv /\ [CastNext]_castVars => CastInv'
<1>. SUFFICES ASSUME CastInv, [CastNext]_castVars PROVE CastInv'
  OBVIOUS
<1>1. CASE UNCHANGED castVars
  <2>1. UNCHANGED <<engineGame, plies, ending, offeredBy, watching, errands, inbox, asked, blind>>
    BY <1>1 DEF castVars, roomVars
  <2>2. CastTypes' /\ ReadersKnown'
    BY <2>1 DEF CastInv, CastTypes, ReadersKnown, Reads, Joins, Onboarding, Errand
  <2>3. Seated' = Seated /\ Mover' = Mover
    BY <2>1 DEF Seated, Mover, ToMove, Across, Rivals
  <2>4. PlayersServed' /\ WatcherServed' /\ EndTold'
    BY <2>1, <2>3 DEF CastInv, PlayersServed, WatcherServed, EndTold, ServedFrom, DueToWatcher, Due, Arrived,
       Pending, Reads, Errand, Tell, Fan, MoveMade, StateFrame, GameOver
  <2>5. InTurn'
    BY <2>1, <2>3 DEF CastInv, InTurn, AllArrived, ToOpponent, ToAll, OthersMoveless, Moveless, BringsMove,
       UpTo, Across, Tell, MoveMade
  <2>. QED
    BY <2>2, <2>4, <2>5 DEF CastInv
<1>2. ASSUME NEW p \in Rivals, \/ make_move(p) \/ MoveTooLate(p) \/ resign(p)
                               \/ offer_draw(p) \/ respond_to_draw(p) \/ game_state(p)
      PROVE  CastInv'
  BY <1>2, MoveSteps, EndingSteps, OfferSteps, ReadingSteps
<1>3. CASE trigger_ai_move \/ expire_on_time \/ expire_draw_offer \/ spectate \/ stop_spectating
  BY <1>3, EngineSteps, EndingSteps, OfferSteps, ReadingSteps
<1>4. ASSUME NEW h \in DOMAIN errands, Proceed(h) PROVE CastInv'
  BY <1>4, ProceedStep DEF CastInv, CastTypes
<1>. QED
  BY <1>1, <1>2, <1>3, <1>4 DEF CastNext

(* When all handlers are done nothing is pending, so what was due has      *)
(* arrived.                                                                *)
LEMMA DoneIsTold == CastInv => EveryoneIsTold
<1>. SUFFICES ASSUME CastInv PROVE EveryoneIsTold
  OBVIOUS
<1>1. CastTypes /\ PlayersServed /\ WatcherServed /\ EndTold /\ InTurn
  BY DEF CastInv
<1>2. Quiet => \A e : ~Pending(e)
  BY <1>1, ListsAre DEF Quiet, Pending, CastTypes
<1>3. Quiet => ~Reads("watcher")
  BY <1>1, ListsAre DEF Quiet, Reads, CastTypes, Handlers, People
<1>4. Quiet => \A p, f : Due(p, f) => Arrived(p, f)
  BY <1>2 DEF Due
<1>5. Quiet => \A f : DueToWatcher(f) => Arrived("watcher", f)
  BY <1>2, <1>4 DEF DueToWatcher
<1>6. PlayersSeeMovesInOrder
  <2>1. SUFFICES ASSUME ~blind, NEW p \in Seated, NEW i \in DOMAIN inbox[p].moves PROVE inbox[p].moves[i] = i
    BY DEF PlayersSeeMovesInOrder
  <2>2. \A m \in Nat : \A k \in DOMAIN UpTo(m) : UpTo(m)[k] = k
    BY DEF UpTo
  <2>3. \E m \in Nat : inbox[p].moves = UpTo(m)
    <3>1. plies \in Nat
      BY <1>1 DEF CastTypes
    <3>2. CASE AllArrived
      BY <3>1, <3>2 DEF AllArrived
    <3>3. CASE ToOpponent
      <4>1. p = Mover \/ p = Across(Mover)
        BY <3>3 DEF ToOpponent, Mover, Across, ToMove, Seated, Rivals
      <4>2. plies - 1 \in Nat
        BY <3>1, <3>3 DEF ToOpponent
      <4>. QED
        BY <3>1, <3>3, <4>1, <4>2 DEF ToOpponent
    <3>4. CASE ToAll
      <4>1. plies - 1 \in Nat
        BY <3>1, <3>4 DEF ToAll
      <4>. QED
        BY <3>4, <4>1 DEF ToAll
    <3>. QED
      BY <1>1, <2>1, <3>2, <3>3, <3>4 DEF InTurn
  <2>. QED
    BY <2>1, <2>2, <2>3
<1>7. NobodyMissesAMove
  <2>1. SUFFICES ASSUME Quiet, NEW p \in Audience
        PROVE  \E n \in inbox[p].states \cup (IF p = "watcher" THEN {} ELSE {0}) :
                  (n + 1)..plies \subseteq ToSet(inbox[p].moves)
    BY DEF NobodyMissesAMove
  <2>2. plies \in Nat
    BY <1>1 DEF CastTypes
  <2>3. \A n \in Nat : \A q : Arrived(q, MoveMade(n)) => n \in ToSet(inbox[q].moves)
    BY FramesAre DEF Arrived
  <2>4. CASE p \in Seated
    <3>1. p # "watcher"
      BY <2>4 DEF Seated, Rivals
    <3>2. \A n \in 1..plies : n \in ToSet(inbox[p].moves)
      BY <1>1, <1>4, <2>1, <2>2, <2>3, <2>4 DEF PlayersServed
    <3>3. (0 + 1)..plies \subseteq ToSet(inbox[p].moves)
      BY <2>2, <3>2
    <3>. QED
      BY <3>1, <3>3
  <2>5. CASE p \notin Seated
    <3>1. p = "watcher" /\ watching
      BY <2>5 DEF Audience
    <3>2. PICK s \in Nat : ServedFrom(s)
      BY <1>1, <1>3, <2>1, <3>1 DEF WatcherServed
    <3>3. s \in inbox["watcher"].states
      <4>1. Arrived("watcher", StateFrame(s))
        BY <1>4, <2>1, <3>2 DEF ServedFrom
      <4>. QED
        BY <4>1, FramesAre DEF Arrived
    <3>4. \A n \in (s + 1)..plies : n \in ToSet(inbox["watcher"].moves)
      BY <1>5, <2>1, <2>2, <2>3, <3>2 DEF ServedFrom
    <3>. QED
      BY <3>1, <3>3, <3>4
  <2>. QED
    BY <2>4, <2>5
<1>8. EveryoneHearsTheEnd
  <2>1. SUFFICES ASSUME Quiet, ending # "none", NEW p \in Audience PROVE inbox[p].over
    BY DEF EveryoneHearsTheEnd, Playing
  <2>2. p \in Seated \/ (p = "watcher" /\ watching)
    BY DEF Audience
  <2>3. Arrived(p, GameOver)
    BY <1>1, <1>4, <1>5, <2>1, <2>2 DEF EndTold
  <2>. QED
    BY <2>3, FramesAre DEF Arrived
<1>. QED
  BY <1>6, <1>7, <1>8 DEF EveryoneIsTold

(* However the handlers of a game interleave after they have let go of the *)
(* room's lock, and whoever joins or leaves the watchers, every player and *)
(* every watcher is sent what they have not seen, players in order, and    *)
(* the end, for games of any length (GameplayService, GameQueryService).   *)
THEOREM EveryoneStaysTold == CastSpec => []EveryoneIsTold
<1>. QED
  BY CastStarts, CastSteps, DoneIsTold, PTL DEF CastSpec

=============================================================================

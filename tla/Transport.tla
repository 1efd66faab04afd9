----------------------------- MODULE Transport -----------------------------
(***************************************************************************)
(* Connections and the threads that serve them: src/net/tcp_server.cpp,    *)
(* src/net/connection.cpp and the worker pool as the server uses it.       *)
(*                                                                         *)
(* A connection is named by its generation.  The Connection object, and    *)
(* with it the descriptor, lives as long as the registry or a shared       *)
(* pointer holds it: a task in the pool, a worker, the heartbeat sweep, a  *)
(* foreign send.  Only then can accept hand out the descriptor again.  The *)
(* game layer knows players by descriptor alone (seat).                    *)
(*                                                                         *)
(* The event loop takes a batch of edge-triggered events, submits one task *)
(* for each, and sweeps; the workers run the tasks.  A data task reads     *)
(* everything the socket has under the connection's processing mutex, is   *)
(* busy with it for as long as the request takes, then flushes.  Frames    *)
(* are units here; Framing has their bytes.  Ages are counted in ticks and *)
(* stop counting at the limit they are compared with.                      *)
(***************************************************************************)
EXTENDS Integers, Sequences, SequencesExt, FiniteSets

CONSTANTS Descriptors,    \* descriptors accept can hand out
          Crew,           \* threads of the pool
          Interval,       \* HEARTBEAT_INTERVAL in ticks
          Timeout,        \* HEARTBEAT_TIMEOUT in ticks
          WriteCap,       \* MAX_WRITE_BUFFER_BYTES in frames
          Conditions,     \* what an instance exercises, see below
          MaxConnected,   \* bound: connections accepted in a run
          MaxBacklog      \* bound: tasks waiting in the pool

(* Peers that vanish, peers that stop reading, frames sent by others, time. *)
AllConditions == {"silence", "stall", "send", "time"}

ASSUME TransportAssumption ==
    /\ {Interval, Timeout, WriteCap, MaxConnected, MaxBacklog} \subseteq Nat \ {0}
    /\ Conditions \subseteq AllConditions

VARIABLES sockets,        \* generation -> Connection object and its peer
          registry,       \* connections_: descriptor -> generation, 0 for none
          ready,          \* edges the kernel holds: [g, kind]
          batch,          \* events epoll_wait has returned: [fd, kind]
          loop,           \* "wait", "batch", "sweep" or "off"
          stale,          \* stale_connections of the sweep
          backlog,        \* the pool's queue of tasks: [g, kind]
          worker,         \* thread -> [step, g]
          sender,         \* a foreign send: the generation it acquired, or 0
          seat,           \* game layer: descriptor -> generation, 0 for none
          called          \* generation -> disconnect callbacks run

tVars == <<sockets, registry, ready, batch, loop, stale, backlog, worker,
           sender, seat, called>>

Resting == [step |-> "idle", g |-> 0]
Generations == DOMAIN sockets
Server == 0               \* the listening socket in a batch

-----------------------------------------------------------------------------
(* Shared ownership: who keeps a Connection object, and its descriptor,    *)
(* from being destroyed.                                                   *)
HeldMutant(g) == \/ g \in {registry[d] : d \in Descriptors} \cup stale \cup {sender}
                 \/ \E i \in DOMAIN backlog : backlog[i].g = g
Held(g) == \/ g \in {registry[d] : d \in Descriptors} \cup stale \cup {sender}
           \/ \E i \in DOMAIN backlog : backlog[i].g = g
           \/ \E w \in Crew : worker[w].g = g

(* processing_mutex is held by a busy worker or one in the callback. *)
Locked(g) == \E w \in Crew : worker[w].g = g /\ worker[w].step \in {"busy", "close", "callback"}

acquire_connection(d) == registry[d]

(* append_to_write_buffer: past the cap the frame is dropped and the       *)
(* connection marked (gap is history: a frame went in after a dropped      *)
(* one); write_to_socket sends what there is or would block.               *)
Appended(c) == [c EXCEPT !.queued = @ + 1, !.gap = @ \/ c.overflowed]
append_to_write_bufferMutant(c) ==
    IF c.queued + 1 > WriteCap THEN [c EXCEPT !.overflowed = TRUE] ELSE Appended(c)
append_to_write_buffer(c) ==
    IF c.overflowed THEN c
    ELSE IF c.queued + 1 > WriteCap THEN [c EXCEPT !.overflowed = TRUE]
    ELSE Appended(c)
write_to_socket(c) == IF c.blocked \/ c.peer = "gone" THEN c ELSE [c EXCEPT !.queued = 0]
WriteFails(c) == c.peer = "gone" /\ c.queued > 0

heartbeat_due(c) == c.upgraded /\ ~c.awaiting /\ c.beat >= Interval
heartbeat_expired(c) == c.upgraded /\ c.awaiting /\ c.ping >= Timeout
mark_ping_sent(c) == [c EXCEPT !.awaiting = TRUE, !.ping = 0]
mark_activity_received(c) == [c EXCEPT !.awaiting = FALSE, !.beat = 0]
set_upgraded(c) == [c EXCEPT !.upgraded = TRUE, !.awaiting = FALSE, !.beat = 0, !.ping = 0]

NewConnection(d) ==
    [fd |-> d, upgraded |-> FALSE, awaiting |-> FALSE, beat |-> 0, ping |-> 0,
     retired |-> FALSE, queued |-> 0, overflowed |-> FALSE,
     gap |-> FALSE, unread |-> FALSE, heard |-> FALSE, peer |-> "talks",
     blocked |-> FALSE]

(* The loop has not been started, or it runs. *)
NoConnections(state) ==
    /\ sockets = <<>> /\ called = <<>>
    /\ registry = [d \in Descriptors |-> 0]
    /\ seat = [d \in Descriptors |-> 0]
    /\ ready = {} /\ batch = <<>> /\ stale = {} /\ backlog = <<>>
    /\ loop = state
    /\ worker = [w \in Crew |-> Resting]
    /\ sender = 0
TInitOff == NoConnections("off")
TInit == NoConnections("wait")

-----------------------------------------------------------------------------
(* The peers.  Data, the end of the stream and room in the socket buffer   *)
(* raise edges (EPOLLIN and EPOLLOUT are served alike, "io"), unless the   *)
(* descriptor has left the epoll set.                                      *)
Watched(g) == registry[sockets[g].fd] = g
Raise(g, kind) == ready' = IF Watched(g) THEN ready \cup {[g |-> g, kind |-> kind]} ELSE ready

PeerSends(g) ==
    /\ sockets[g].peer = "talks" /\ ~sockets[g].unread
    /\ sockets' = [sockets EXCEPT ![g].unread = TRUE]
    /\ Raise(g, "io")
    /\ UNCHANGED <<registry, batch, loop, stale, backlog, worker, sender, seat, called>>

PeerFallsSilent(g) ==
    /\ "silence" \in Conditions
    /\ sockets[g].peer = "talks"
    /\ sockets' = [sockets EXCEPT ![g].peer = "silent"]
    /\ UNCHANGED <<registry, ready, batch, loop, stale, backlog, worker, sender, seat, called>>

PeerHangsUp(g) ==
    /\ sockets[g].peer = "talks"
    /\ sockets' = [sockets EXCEPT ![g].peer = "gone"]
    /\ \E kind \in {"io", "hup"} : Raise(g, kind)
    /\ UNCHANGED <<registry, batch, loop, stale, backlog, worker, sender, seat, called>>

PeerStopsReading(g) ==
    /\ "stall" \in Conditions
    /\ sockets[g].peer # "gone" /\ ~sockets[g].blocked
    /\ sockets' = [sockets EXCEPT ![g].blocked = TRUE]
    /\ UNCHANGED <<registry, ready, batch, loop, stale, backlog, worker, sender, seat, called>>

PeerReads(g) ==
    /\ sockets[g].peer = "talks" /\ sockets[g].blocked
    /\ sockets' = [sockets EXCEPT ![g].blocked = FALSE]
    /\ Raise(g, "io")
    /\ UNCHANGED <<registry, batch, loop, stale, backlog, worker, sender, seat, called>>

-----------------------------------------------------------------------------
(* run: the event loop.  A connection attempt may be first in the batch.   *)
epoll_wait ==
    /\ loop = "wait"
    /\ \E events \in SetToSeqs({[fd |-> sockets[e.g].fd, kind |-> e.kind] : e \in ready}),
          knocks \in {<<>>, <<[fd |-> Server, kind |-> "io"]>>} :
          /\ knocks # <<>> => Len(sockets) < MaxConnected
          /\ batch' = knocks \o events
    /\ ready' = {}
    /\ loop' = "batch"
    /\ UNCHANGED <<sockets, registry, stale, backlog, worker, sender, seat, called>>

(* handle_new_connection: the lowest free descriptor, a new generation,    *)
(* then the descriptor joins the epoll set, which raises its first edge.   *)
handle_new_connection ==
    /\ loop = "batch" /\ batch # <<>> /\ Head(batch).fd = Server
    /\ batch' = Tail(batch)
    /\ LET free == {d \in Descriptors :
                       ~\E g \in Generations : Held(g) /\ sockets[g].fd = d}
           g == Len(sockets) + 1
       IN  \/ /\ free # {}
              /\ \E d \in free :
                    /\ \A e \in free : d <= e
                    /\ sockets' = Append(sockets, NewConnection(d))
                    /\ registry' = [registry EXCEPT ![d] = g]
              /\ called' = Append(called, 0)
              /\ ready' = ready \cup {[g |-> g, kind |-> "io"]}
           \/ /\ free = {}
              /\ UNCHANGED <<sockets, registry, called, ready>>
    /\ UNCHANGED <<loop, stale, backlog, worker, sender, seat>>

(* An event is matched with whatever connection has the descriptor now. *)
dispatch_eventMutant ==
    /\ loop = "batch" /\ batch # <<>> /\ Head(batch).fd # Server
    /\ batch' = Tail(batch)
    /\ LET g == acquire_connection(Head(batch).fd)
           kind == IF Head(batch).kind = "hup" THEN "hup" ELSE "data"
       IN  \/ (g = 0 \/ \E w \in Crew : worker[w].g = g) /\ UNCHANGED backlog
           \/ /\ g # 0 /\ ~(\E w \in Crew : worker[w].g = g) /\ Len(backlog) < MaxBacklog
              /\ backlog' = Append(backlog, [g |-> g, kind |-> kind])
    /\ UNCHANGED <<sockets, registry, ready, loop, stale, worker, sender, seat, called>>
dispatch_event ==
    /\ loop = "batch" /\ batch # <<>> /\ Head(batch).fd # Server
    /\ batch' = Tail(batch)
    /\ LET g == acquire_connection(Head(batch).fd)
           kind == IF Head(batch).kind = "hup" THEN "hup" ELSE "data"
       IN  \/ g = 0 /\ UNCHANGED backlog
           \/ /\ g # 0 /\ Len(backlog) < MaxBacklog
              /\ backlog' = Append(backlog, [g |-> g, kind |-> kind])
    /\ UNCHANGED <<sockets, registry, ready, loop, stale, worker, sender, seat, called>>

(* run_connection_maintenance: connections whose mutex is taken are passed *)
(* over; a due one is pinged and flushed; the expired, the broken and the  *)
(* overflowing are collected and closed after the sweep.                   *)
Swept(c) ==
    IF heartbeat_due(c) THEN write_to_socket(append_to_write_buffer(mark_ping_sent(c))) ELSE c
FoundStale(c) == \/ heartbeat_expired(c)
                 \/ heartbeat_due(c) /\ (WriteFails(Swept(c)) \/ Swept(c).overflowed)

run_connection_maintenance ==
    /\ loop = "batch" /\ batch = <<>>
    /\ LET open == {g \in Generations : Watched(g) /\ ~Locked(g) /\ ~sockets[g].retired}
       IN  /\ stale' = {g \in open : FoundStale(sockets[g])}
           /\ sockets' = [g \in Generations |->
                             IF g \in open THEN Swept(sockets[g]) ELSE sockets[g]]
    /\ loop' = "sweep"
    /\ UNCHANGED <<registry, ready, batch, backlog, worker, sender, seat, called>>

-----------------------------------------------------------------------------
(* close_connection up to its callback: the connection is retired, leaves  *)
(* the registry and the epoll set.                                         *)
Retire(g) ==
    /\ sockets' = [sockets EXCEPT ![g].retired = TRUE]
    /\ registry' = [registry EXCEPT ![sockets[g].fd] = 0]
    /\ ready' = {e \in ready : e.g # g}

(* on_player_disconnect, by descriptor. *)
disconnect_cb(g) ==
    /\ seat' = [seat EXCEPT ![sockets[g].fd] = 0]
    /\ called' = [called EXCEPT ![g] = @ + 1]

(* The sweep closes what it found, waiting for the mutex.  The decision is *)
(* not looked at again.                                                    *)
close_stale ==
    /\ loop = "sweep"
    /\ \/ /\ stale = {}
          /\ loop' = "wait"
          /\ UNCHANGED <<sockets, registry, ready, stale, seat, called>>
       \/ \E g \in stale :
             /\ ~Locked(g)
             /\ stale' = stale \ {g}
             /\ UNCHANGED loop
             /\ \/ ~sockets[g].retired /\ Retire(g) /\ disconnect_cb(g)
                \/ sockets[g].retired /\ UNCHANGED <<sockets, registry, ready, seat, called>>
    /\ UNCHANGED <<batch, backlog, worker, sender>>

(* A worker takes the oldest task. *)
take_task(w) ==
    /\ worker[w] = Resting /\ backlog # <<>>
    /\ worker' = [worker EXCEPT ![w] = [step |-> Head(backlog).kind, g |-> Head(backlog).g]]
    /\ backlog' = Tail(backlog)
    /\ UNCHANGED <<sockets, registry, ready, batch, loop, stale, sender, seat, called>>

(* handle_client_data, first half: nothing for a retired connection; the   *)
(* socket is read dry; the end of the stream closes; the first bytes are   *)
(* the handshake and later ones are frames, which are marked as heard.     *)
ReadDry(c) == IF ~c.unread THEN c
              ELSE LET heard == IF c.upgraded THEN mark_activity_received(c)
                                ELSE set_upgraded(c)
                   IN  [heard EXCEPT !.unread = FALSE, !.heard = c.upgraded]

Enters(c) == ~c.retired

Flushed(c) == write_to_socket(c)
MustClose(c) == WriteFails(c) \/ c.overflowed

handle_client_data(w) ==
    LET g == worker[w].g
        c == sockets[g]
        goto(step) == worker' = [worker EXCEPT ![w] =
                         IF step = "idle" THEN Resting ELSE [step |-> step, g |-> g]]
    IN  /\ worker[w].step = "data" /\ ~Locked(g)
        /\ \/ /\ ~Enters(c)
              /\ goto("idle") /\ UNCHANGED <<sockets, seat>>
           \/ /\ Enters(c) /\ c.peer = "gone"
              /\ goto("close") /\ UNCHANGED <<sockets, seat>>
           \/ /\ Enters(c) /\ c.peer # "gone" /\ c.unread
              /\ sockets' = [sockets EXCEPT ![g] = ReadDry(c)]
              /\ seat' = IF c.upgraded THEN [seat EXCEPT ![c.fd] = g] ELSE seat
              /\ goto("busy")
           \/ /\ Enters(c) /\ c.peer # "gone" /\ ~c.unread
              /\ IF c.upgraded
                 THEN /\ sockets' = [sockets EXCEPT ![g] = Flushed(c)]
                      /\ goto(IF MustClose(Flushed(c)) THEN "close" ELSE "idle")
                 ELSE goto("idle") /\ UNCHANGED sockets
              /\ UNCHANGED seat
        /\ UNCHANGED <<registry, ready, batch, loop, stale, backlog, sender, called>>

(* Second half: the answer is appended and the buffer flushed; a broken or *)
(* overflowing connection is closed.                                       *)
finish_request(w) ==
    LET g == worker[w].g
        c == write_to_socket(append_to_write_buffer(sockets[g]))
    IN  /\ worker[w].step = "busy"
        /\ sockets' = [sockets EXCEPT ![g] = c]
        /\ worker' = [worker EXCEPT ![w] =
                         IF MustClose(c) THEN [step |-> "close", g |-> g] ELSE Resting]
        /\ UNCHANGED <<registry, ready, batch, loop, stale, backlog, sender, seat, called>>

(* close_connection in a worker, from a task of its own or from the        *)
(* handler, which has the recursive mutex already.                         *)
close_connection(w) ==
    LET g == worker[w].g
    IN  /\ worker[w].step = "close" \/ (worker[w].step = "hup" /\ ~Locked(g))
        /\ \/ /\ sockets[g].retired
              /\ worker' = [worker EXCEPT ![w] = Resting]
              /\ UNCHANGED <<sockets, registry, ready>>
           \/ /\ ~sockets[g].retired
              /\ Retire(g)
              /\ worker' = [worker EXCEPT ![w] = [step |-> "callback", g |-> g]]
        /\ UNCHANGED <<batch, loop, stale, backlog, sender, seat, called>>

run_callback(w) ==
    /\ worker[w].step = "callback"
    /\ disconnect_cb(worker[w].g)
    /\ worker' = [worker EXCEPT ![w] = Resting]
    /\ UNCHANGED <<sockets, registry, ready, batch, loop, stale, backlog, sender>>

(* send_text from another connection's request or a background job: the    *)
(* reference first, then the frame, under the write lock alone.            *)
send_acquire ==
    /\ "send" \in Conditions
    /\ sender = 0
    /\ \E d \in Descriptors : acquire_connection(d) # 0 /\ sender' = acquire_connection(d)
    /\ sockets[sender'].upgraded
    /\ UNCHANGED <<sockets, registry, ready, batch, loop, stale, backlog, worker, seat, called>>

send_text ==
    /\ sender # 0
    /\ sockets' = [sockets EXCEPT ![sender] = write_to_socket(append_to_write_buffer(@))]
    /\ sender' = 0
    /\ UNCHANGED <<registry, ready, batch, loop, stale, backlog, worker, seat, called>>

(* Time passes for every open connection. *)
Older(age, limit) == IF age < limit THEN age + 1 ELSE age
tick ==
    /\ "time" \in Conditions
    /\ \E g \in Generations : Held(g)
    /\ sockets' = [g \in Generations |->
          IF ~Held(g) \/ ~sockets[g].upgraded THEN sockets[g]
          ELSE [sockets[g] EXCEPT
                   !.beat = IF sockets[g].awaiting THEN @ ELSE Older(@, Interval),
                   !.ping = IF sockets[g].awaiting THEN Older(@, Timeout) ELSE @]]
    /\ UNCHANGED <<registry, ready, batch, loop, stale, backlog, worker, sender, seat, called>>

Peers == \E g \in Generations : /\ Watched(g)
                                /\ \/ PeerSends(g) \/ PeerFallsSilent(g) \/ PeerHangsUp(g)
                                   \/ PeerStopsReading(g) \/ PeerReads(g)
EventLoop == \/ epoll_wait \/ handle_new_connection \/ dispatch_event
             \/ run_connection_maintenance \/ close_stale
Serve(w) == \/ take_task(w) \/ handle_client_data(w) \/ finish_request(w)
           \/ close_connection(w) \/ run_callback(w)
Send == send_acquire \/ send_text

TNext == Peers \/ EventLoop \/ (\E w \in Crew : Serve(w)) \/ Send \/ tick

(* The loop turns at least every 250 ms, the pool's threads run their      *)
(* tasks to the end, and a mutex contended for is obtained.  That time     *)
(* passes is left to the one property that needs it: the others must not   *)
(* lean on the heartbeat, which flushes and closes what was forgotten.     *)
TFairness == /\ WF_tVars(EventLoop)
             /\ \A w \in Crew : SF_tVars(Serve(w))
             /\ WF_tVars(send_text)
TimePasses == WF_tVars(tick)

(* What safety needs of it. *)
TransportSpec == TInit /\ [][TNext]_tVars

-----------------------------------------------------------------------------
(* The disconnect callback names the player by descriptor.  It is over     *)
(* before the descriptor can belong to somebody else: a connection in the  *)
(* registry that the game layer has heard of keeps its seat, whatever      *)
(* workers still do for earlier connections on the same descriptor.        *)
CallbackHitsItsOwn ==
    \A d \in Descriptors :
       registry[d] # 0 /\ sockets[registry[d]].heard => seat[d] = registry[d]

(* A handler that was waiting while its connection was closed does not     *)
(* seat the dead: no seat belongs to a connection whose callback has run.  *)
NoSeatAfterCallback == \A d \in Descriptors : seat[d] # 0 => called[seat[d]] = 0

(* A hang-up event, the end of the stream, an overflow and the sweep may   *)
(* all close one connection; the game layer hears of it exactly once.      *)
OneCallbackEach ==
    \A g \in Generations : /\ called[g] <= 1
                           /\ ~Held(g) => called[g] = 1

(* Once a frame has been dropped at the cap of the write buffer, no later  *)
(* frame follows, even if the client reads again before it is closed: its  *)
(* stream ends early but has no hole.                                      *)
StreamHasNoHole == \A g \in Generations : ~sockets[g].gap

Exists(g) == g \in Generations
(* An edge is never lost: what a peer sends, also while a worker is busy   *)
(* with its earlier request, is read, or the connection is closed.         *)
DataIsRead == \A g \in 1..MaxConnected :
    (Exists(g) /\ sockets[g].unread) ~> Exists(g) /\ (~sockets[g].unread \/ sockets[g].retired)

(* Frames left over by a full socket leave once the peer reads again,      *)
(* although nobody sends to it any more and no ping falls due.             *)
QueuedFramesLeave == \A g \in 1..MaxConnected :
    (Exists(g) /\ sockets[g].queued > 0) ~>
       /\ Exists(g)
       /\ \/ sockets[g].queued = 0 \/ sockets[g].retired
          \/ sockets[g].blocked \/ sockets[g].peer # "talks"

(* The heartbeat finds every upgraded connection whose peer has vanished   *)
(* without a word, and closes it, as time passes.                          *)
SilentPeerDropped == TimePasses => \A g \in 1..MaxConnected :
    (Exists(g) /\ sockets[g].upgraded /\ sockets[g].peer = "silent")
       ~> (Exists(g) /\ sockets[g].retired)

(* The game layer hears once of every connection that is gone, before the  *)
(* descriptor has a new owner and with nothing seated after.               *)
CallbackIsExact == CallbackHitsItsOwn /\ NoSeatAfterCallback /\ OneCallbackEach

(* No edge is lost and no connection forgotten: data is read, frames       *)
(* leave, and a vanished peer is dropped.                                  *)
ConnectionsServed ==
    /\ DataIsRead
    /\ QueuedFramesLeave
    /\ SilentPeerDropped

=============================================================================

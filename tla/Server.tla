------------------------------- MODULE Server -------------------------------
(***************************************************************************)
(* One server process from start to exit: the requests and connections it  *)
(* serves, its background tasks, and the shutdown sequence of main() with  *)
(* GracefulShutdown, or a crash.                                           *)
(*                                                                         *)
(* A slot of Req holds an API request, an SSE stream or a WebSocket. The   *)
(* RedisSubscriber is the subject of RedisClient: main waits for it for at *)
(* most SHUTDOWN_TIMEOUT_SECS. What is told to the clients, and the queue  *)
(* statistics the drain phase waits for, are left out: each phase ends by  *)
(* its own timeout at the latest.                                          *)
(***************************************************************************)
EXTENDS HttpApi

VARIABLES
    phase,   \* where main() stands
    routed,  \* the RoutedMessageSubscriber
    beat,    \* the HeartbeatTask
    initial  \* connections at the beginning of the wait for them

server == <<phase, routed, beat, initial>>
vars == <<api, server>>

ConnLabel == {"streaming", "leaving", "upgrading", "open"}

TypeOK ==
    /\ ApiTypeOK /\ pc \in [Req -> ApiLabel \cup ConnLabel]
    /\ phase \in {"serving", "closing", "notify", "drain", "wait", "join", "exited"}
    /\ routed \in {"connecting", "listening", "retry", "stopped"}
    /\ beat \in {"running", "stuck", "stopped"}
    /\ initial \in 0..Cardinality(Req)

ServerInit == phase = "serving" /\ routed = "connecting" /\ beat = "running" /\ initial = 0

Init == ApiInit /\ ServerInit

Signalled == phase # "serving"
Alive == phase # "exited"

----------------------------------------------------------------------------
(* Connections                                                             *)

\* What total_connections counts.
Registered == {r \in Req : pc[r] \in {"streaming", "leaving", "open"}}

Step(r, l, m) ==
    /\ Alive /\ pc[r] = l /\ Goto(r, m)
    /\ UNCHANGED <<store, ask, from, batch, server>>

OpenStream(r) == phase = "serving" /\ Step(r, "idle", "streaming")

\* The client leaves; the stream is dropped and its unregister is spawned.
EndStream(r) == Step(r, "streaming", "leaving")
Unregister(r) == Step(r, "leaving", "idle")

\* The request is answered at once, and on_upgrade registers the connection later.
Upgrade(r) == phase = "serving" /\ Step(r, "idle", "upgrading")
HandleSocket(r) == Step(r, "upgrading", "open")
UpgradeFails(r) == Step(r, "upgrading", "idle")
CloseSocket(r) == Step(r, "open", "idle")

----------------------------------------------------------------------------
(* RoutedMessageSubscriber and HeartbeatTask; both hold their receiver of  *)
(* the shutdown signal from the start.                                     *)

Task(l, m) == Alive /\ routed = l /\ routed' = m /\ UNCHANGED <<api, phase, beat, initial>>

Subscribe == Task("connecting", "listening") \/ Task("connecting", "retry")
StreamEnds == Task("listening", "retry")
Retry == Task("retry", "connecting")

\* Fault: no receiver exists during the delay.
HearSignalListening == Signalled /\ Task("listening", "stopped")

\* The subscription loop looks at the signal first, the delay at whichever is ready.
HearSignal == Signalled /\ (Task("listening", "stopped") \/ Task("retry", "stopped"))

Beat(l, m) == Alive /\ beat = l /\ beat' = m /\ UNCHANGED <<api, phase, routed, initial>>

HeartbeatStops == Signalled /\ Beat("running", "stopped")

\* refresh_sessions meets an expired session and waits for its own lock (SessionStore).
HeartbeatSticks == Beat("running", "stuck")

----------------------------------------------------------------------------
(* main() and GracefulShutdown::execute                                    *)

Phase(l, m) == phase = l /\ phase' = m /\ UNCHANGED <<api, routed, beat>>

Signal == Phase("serving", "closing") /\ UNCHANGED initial

\* What axum waits for: requests, also those whose clients have not sent all of them,
\* and streams until their clients leave. An upgraded connection is none of them.
InFlight == {r \in Req : pc[r] \in (ApiLabel \ {"idle"}) \cup {"streaming"}}

\* Fault: axum waits for WebSockets too.
ServeEndsAll == Registered = {} /\ Phase("closing", "notify") /\ UNCHANGED initial

ServeEnds == InFlight = {} /\ Phase("closing", "notify") /\ UNCHANGED initial

\* Clients are told, the signal is sent again, the queues may empty.
NotifyClients == Phase("notify", "drain") /\ UNCHANGED initial

DrainQueues == Phase("drain", "wait") /\ initial' = Cardinality(Registered)

\* All connections are gone, or the time is up. initial - current wraps silently.
WaitForConnections == Phase("wait", "join") /\ initial' = 0

Lost ==
    /\ store' = [id \in Id |-> NoTenant]
    /\ pc' = [r \in Req |-> "idle"]
    /\ ask' = [r \in Req |-> NoAsk]
    /\ from' = [r \in Req |-> NoTenant]
    /\ batch' = [r \in Req |-> NoBatch]
    /\ phase' = "exited" /\ routed' = "stopped" /\ beat' = "stopped" /\ initial' = 0

\* A build with overflow checks panics when a connection came late.
Underflow == phase = "wait" /\ initial > 0 /\ Cardinality(Registered) > initial
             /\ beat # "stuck" /\ Lost

\* The join ends or times out and the runtime is dropped, which waits for a worker
\* that blocks.
Exit == phase = "join" /\ beat # "stuck" /\ Lost

Crash == Alive /\ Lost

Restart ==
    /\ phase = "exited"
    /\ phase' = "serving" /\ routed' = "connecting" /\ beat' = "running" /\ initial' = 0
    /\ UNCHANGED api

ShutdownStep == ServeEnds \/ NotifyClients \/ DrainQueues \/ WaitForConnections \/ Exit

----------------------------------------------------------------------------
\* Requests arrive while the process serves and run, or wait for their bodies, while
\* it lives.
Handle(r) == Alive /\ RequestStep(r) /\ UNCHANGED server

Next ==
    \/ \E r \in Req :
        \/ phase = "serving" /\ Arrive(r) /\ UNCHANGED server
        \/ Alive /\ (ReadBody(r) \/ ReadBatch(r)) /\ UNCHANGED server
        \/ Handle(r)
        \/ Alive /\ Cancel(r) /\ UNCHANGED server
        \/ OpenStream(r) \/ EndStream(r) \/ Unregister(r)
        \/ Upgrade(r) \/ HandleSocket(r) \/ UpgradeFails(r) \/ CloseSocket(r)
    \/ Subscribe \/ StreamEnds \/ Retry \/ HearSignal
    \/ HeartbeatStops \/ HeartbeatSticks
    \/ Signal \/ ShutdownStep \/ Underflow \/ Crash \/ Restart

\* Tasks are scheduled, connecting and dispatching end (SEND_TIMEOUT), delays end.
\* select! picks among ready branches at random. Clients and operators owe nothing.
Fairness ==
    /\ \A r \in Req : WF_vars(Handle(r)) /\ WF_vars(Unregister(r))
    /\ WF_vars(Subscribe) /\ WF_vars(Retry) /\ SF_vars(HearSignal)
    /\ WF_vars(HeartbeatStops) /\ WF_vars(ShutdownStep)

Spec == Init /\ [][Next]_vars /\ Fairness

----------------------------------------------------------------------------
\* The signal stops both background tasks wherever they stand, unless the heartbeat
\* is deadlocked (RoutedMessageSubscriber::run, HeartbeatTask::run).
TasksStop == Signalled ~> (routed = "stopped" /\ beat \in {"stopped", "stuck"})

\* A signalled server exits, with WebSocket clients still connected, batches running
\* or Redis away, unless an SSE client stays, a client does not finish its request or
\* the heartbeat is deadlocked: nothing in main limits these waits. The panic of
\* Underflow counts as an exit.
Exits == Signalled ~> (\/ ~ Alive
                       \/ \E r \in Req : pc[r] \in {"streaming", "body"}
                       \/ beat = "stuck")
=============================================================================

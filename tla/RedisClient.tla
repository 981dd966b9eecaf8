----------------------------- MODULE RedisClient -----------------------------
(***************************************************************************)
(* Who uses the circuit breaker: the tasks that run commands through       *)
(* RedisPool, with its one cached connection behind a read-write lock, and *)
(* the RedisSubscriber with its own pub/sub connection. Both report to one *)
(* health status and one breaker.                                          *)
(*                                                                         *)
(* The counters of RedisHealth and the length of the backoff delays are    *)
(* left out: nothing but reports depends on them.                          *)
(***************************************************************************)
EXTENDS CircuitBreaker

CONSTANTS
    Task,      \* tasks that use the pool
    Sub,       \* the subscriber
    NoTask

ASSUME ClientConstants ==
    /\ Caller = Task \cup {Sub} /\ Sub \notin Task /\ NoTask \notin Caller

VARIABLES
    redisUp,     \* Redis accepts connections
    cached,      \* RedisPool.connection
    opened,      \* history: connections the pool established
    writer,      \* the task that holds the pool's write lock
    tpc,         \* tpc[t]: where task t stands in get_connection or a command
    status,      \* RedisHealth.status
    spc,         \* where the subscriber stands in start or run_subscription_loop
    heard        \* its current receiver holds a shutdown signal

pool == <<cached, opened, writer, tpc>>
subscriber == <<spc, heard>>
client == <<redisUp, pool, status, subscriber>>

TypeOK ==
    /\ BreakerTypeOK
    /\ redisUp \in BOOLEAN
    /\ cached \in {"none", "live", "dropped"}
    /\ opened \in Nat
    /\ writer \in Task \cup {NoTask}
    /\ tpc \in [Task -> {"idle", "allow", "write", "connecting", "connected", "failed", "exec"}]
    /\ status \in {"healthy", "reconnecting", "circuit_open"}
    /\ spc \in {"check", "decide", "wait_open", "connecting", "connected", "subscribed", "failed",
                "retry", "backoff", "stopped"}
    /\ heard \in BOOLEAN

Init ==
    /\ BreakerInit
    /\ redisUp \in BOOLEAN
    /\ cached = "none" /\ opened = 0 /\ writer = NoTask
    /\ tpc = [t \in Task |-> "idle"]
    /\ status = "reconnecting"
    /\ spc = "check" /\ heard = FALSE

\* t calls the breaker and goes on at p when it has returned.
CallBreaker(t, op, p) ==
    /\ Begin(t, op)
    /\ tpc' = [tpc EXCEPT ![t] = p]
    /\ UNCHANGED <<state, failure_count, success_count, elapsed>>

\* t acts on what allow_request returned.
Returned(t, result, p) ==
    /\ tpc[t] = "allow" /\ Use(t, result)
    /\ tpc' = [tpc EXCEPT ![t] = p]
    /\ UNCHANGED <<state, failure_count, success_count, elapsed>>

At(t, p) == tpc[t] = p /\ bpc[t] = "idle"
GoOn(t, p) == tpc' = [tpc EXCEPT ![t] = p] /\ UNCHANGED breaker

----------------------------------------------------------------------------
(* RedisHealth                                                             *)

SetConnected    == status' = "healthy"
SetReconnecting == status' = "reconnecting"
SetCircuitOpen  == status' = "circuit_open"

----------------------------------------------------------------------------
(* RedisPool                                                               *)

AllowRequest(t) ==
    /\ tpc[t] = "idle" /\ CallBreaker(t, "check", "allow")
    /\ UNCHANGED <<redisUp, cached, opened, writer, status, subscriber>>

Refuse(t) ==
    /\ Returned(t, "is_open", "idle")
    /\ SetCircuitOpen
    /\ UNCHANGED <<redisUp, cached, opened, writer, subscriber>>

\* The read guard waits for a writer.
ReadCached(t) ==
    /\ writer = NoTask
    /\ Returned(t, "not_open", IF cached = "none" THEN "write" ELSE "exec")
    /\ UNCHANGED <<redisUp, cached, opened, writer, status, subscriber>>

LockWrite(t) ==
    /\ At(t, "write") /\ writer = NoTask
    /\ \/ /\ cached # "none"
          /\ GoOn(t, "exec")
          /\ UNCHANGED <<writer, status>>
       \/ /\ cached = "none"
          /\ writer' = t
          /\ SetReconnecting
          /\ GoOn(t, "connecting")
    /\ UNCHANGED <<redisUp, cached, opened, subscriber>>

Connect(t) ==
    /\ At(t, "connecting")
    /\ \/ /\ redisUp
          /\ cached' = "live" /\ opened' = opened + 1
          /\ CallBreaker(t, "success", "connected")
       \/ CallBreaker(t, "failure", "failed") /\ UNCHANGED <<cached, opened>>
    /\ UNCHANGED <<redisUp, writer, status, subscriber>>

\* The guard goes out of scope when connect() returns.
ConnectReturns(t) ==
    /\ \/ At(t, "connected") /\ SetConnected /\ GoOn(t, "exec")
       \/ At(t, "failed") /\ GoOn(t, "idle") /\ UNCHANGED status
    /\ writer' = NoTask
    /\ UNCHANGED <<redisUp, cached, opened, subscriber>>

\* A typed command records its outcome.
CommandSucceeds(t) ==
    /\ At(t, "exec")
    /\ cached = "live" /\ CallBreaker(t, "success", "idle")
    /\ UNCHANGED <<redisUp, cached, opened, writer, status, subscriber>>

\* It keeps the connection, whatever happened to it.
CommandFails(t) ==
    /\ At(t, "exec")
    /\ CallBreaker(t, "failure", "idle")
    /\ UNCHANGED <<redisUp, cached, opened, writer, status, subscriber>>

\* The session store uses the connection directly and records nothing.
RawCommand(t) ==
    /\ At(t, "exec") /\ GoOn(t, "idle")
    /\ UNCHANGED <<redisUp, cached, opened, writer, status, subscriber>>

\* The request that awaits a lock, the connection or a command is dropped.
Cancel(t) ==
    /\ \/ Returned(t, "not_open", "idle")
       \/ (\E p \in {"write", "connecting", "exec"} : At(t, p)) /\ GoOn(t, "idle")
    /\ writer' = IF writer = t THEN NoTask ELSE writer
    /\ UNCHANGED <<redisUp, cached, opened, status, subscriber>>

----------------------------------------------------------------------------
(* RedisSubscriber                                                         *)

SubBreaker(from, op, to) ==
    /\ spc = from /\ spc' = to
    /\ Begin(Sub, op)
    /\ UNCHANGED <<state, failure_count, success_count, elapsed>>

SubReturned(result, from, to) ==
    /\ spc = from /\ spc' = to
    /\ Use(Sub, result)
    /\ UNCHANGED <<state, failure_count, success_count, elapsed>>

SubGoto(from, to) ==
    /\ spc = from /\ bpc[Sub] = "idle" /\ spc' = to
    /\ UNCHANGED breaker

\* The top of the loop in start().
CheckCircuit ==
    /\ SubBreaker("check", "check", "decide")
    /\ UNCHANGED <<redisUp, pool, status, heard>>

\* The circuit is open: sleep, without a receiver for the shutdown signal.
WaitOpen ==
    /\ SubReturned("is_open", "decide", "wait_open")
    /\ SetCircuitOpen
    /\ UNCHANGED <<redisUp, pool, heard>>

WakeUp ==
    /\ SubGoto("wait_open", "check")
    /\ UNCHANGED <<redisUp, pool, status, heard>>

Proceed ==
    /\ SubReturned("not_open", "decide", "connecting")
    /\ SetReconnecting
    /\ UNCHANGED <<redisUp, pool, heard>>

\* run_subscription_loop connects and subscribes; any of it may fail.
OpenPubSub ==
    /\ \/ redisUp /\ SubBreaker("connecting", "success", "connected")
       \/ SubBreaker("connecting", "failure", "failed")
    /\ UNCHANGED <<redisUp, pool, status, heard>>

\* set_connected, and a receiver that sees what is sent from now on.
Subscribed ==
    /\ SubGoto("connected", "subscribed")
    /\ SetConnected /\ heard' = FALSE
    /\ UNCHANGED <<redisUp, pool>>

\* Fault: the receiver is made anew for every message.
MessageResubscribes ==
    /\ redisUp
    /\ SubBreaker("subscribed", "success", "subscribed")
    /\ heard' = FALSE
    /\ UNCHANGED <<redisUp, pool, status>>

Message ==
    /\ redisUp
    /\ SubBreaker("subscribed", "success", "subscribed")
    /\ UNCHANGED <<redisUp, pool, status, heard>>

\* The stream ends: run_subscription_loop returns Ok and start() stops.
StreamEnds ==
    /\ SubGoto("subscribed", "stopped")
    /\ heard' = FALSE
    /\ UNCHANGED <<redisUp, pool, status>>

\* The log line after a failure calls state(), which may go to HalfOpen.
LogFailure ==
    /\ SubBreaker("failed", "check", "retry")
    /\ UNCHANGED <<redisUp, pool, status, heard>>

Backoff ==
    /\ \E result \in {"is_open", "not_open"} : SubReturned(result, "retry", "backoff")
    /\ heard' = FALSE
    /\ UNCHANGED <<redisUp, pool, status>>

\* The delay is over; a signal that came meanwhile is lost when select takes
\* this branch.
BackoffOver ==
    /\ SubGoto("backoff", "check")
    /\ heard' = FALSE
    /\ UNCHANGED <<redisUp, pool, status>>

StopSubscriber ==
    /\ heard
    /\ SubGoto("subscribed", "stopped") \/ SubGoto("backoff", "stopped")
    /\ heard' = FALSE
    /\ UNCHANGED <<redisUp, pool, status>>

\* shutdown_tx.send: only a receiver that exists gets it.
Shutdown ==
    /\ spc \in {"subscribed", "backoff"}
    /\ heard' = TRUE
    /\ UNCHANGED <<breaker, redisUp, pool, status, spc>>

----------------------------------------------------------------------------

RedisUp ==
    /\ ~redisUp /\ redisUp' = TRUE
    /\ UNCHANGED <<breaker, pool, status, subscriber>>

\* Redis goes away, and with it the pool's connection.
RedisDown ==
    /\ redisUp /\ redisUp' = FALSE
    /\ cached' = IF cached = "live" THEN "dropped" ELSE cached
    /\ UNCHANGED <<breaker, opened, writer, tpc, status, subscriber>>

PoolStep(t) ==
    \/ AllowRequest(t) \/ Refuse(t) \/ ReadCached(t) \/ LockWrite(t) \/ Connect(t)
    \/ ConnectReturns(t) \/ CommandSucceeds(t) \/ CommandFails(t)
    \/ RawCommand(t) \/ Cancel(t)

SubscriberStep ==
    \/ CheckCircuit \/ WaitOpen \/ WakeUp \/ Proceed \/ OpenPubSub \/ Subscribed
    \/ LogFailure \/ Backoff \/ BackoffOver \/ StopSubscriber

BreakerStep(c) == Atomic(c) /\ UNCHANGED client

Next ==
    \/ \E t \in Task : PoolStep(t)
    \/ SubscriberStep \/ Message \/ StreamEnds \/ Shutdown
    \/ \E c \in Caller : BreakerStep(c)
    \/ ResetTimeout /\ UNCHANGED client
    \/ RedisUp \/ RedisDown

vars == <<breaker, client>>

\* The subscriber is a spawned task, its sleeps and connection attempts end, time
\* passes, and select! picks a ready branch at random, so not always the other one.
\* An operation on the breaker has no await and runs to its end.
Fairness ==
    /\ WF_vars(SubscriberStep) /\ SF_vars(StopSubscriber)
    /\ \A c \in Caller : WF_vars(BreakerStep(c))
    /\ WF_vars(ResetTimeout /\ UNCHANGED client)

Spec == Init /\ [][Next]_vars /\ Fairness

----------------------------------------------------------------------------

\* The pool establishes at most one connection: tasks that wait for the write lock
\* together use the one the first of them made, and a connection that was dropped
\* is never replaced, since only execute(), which nobody calls, clears it.
OneConnection == opened <= 1

\* While the subscriber is not connected, an open circuit is tested again: its loop
\* takes the breaker out of Open after reset_timeout, although late failures of
\* pool commands push the timestamp forward.
OpenIsTested == state = "open" ~> (state # "open" \/ spc \in {"subscribed", "stopped"})

\* A subscriber that got the shutdown signal stops, however many messages arrive.
HeardStops == (spc = "subscribed" /\ heard) ~> (spc = "stopped")
=============================================================================

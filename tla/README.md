# Ara notification service: formal models

TLA+ models of the notification service in `src/src/`, the TLC configurations
that check them on small instances, and TLAPS proofs of the properties that
matter most.

Run everything inside this directory: `tlc -config ConnectionManager.cfg
MCConnectionManager` checks a run of section 3, `tlapm
ConnectionManager_proofs.tla` the proofs of a component. `PROJECT.json` lists the
runs, the source lines behind each definition, the mutants that show that each
property can fail, and the hazards of the code. An operator whose comment begins
with "Fault:" is such a mutant; no specification uses it.

## 1. The system

A Rust service (axum, tokio) that delivers notifications to clients over
WebSocket and SSE. Requests to send arrive over HTTP and over Redis pub/sub.

| Component | State | Operations | What makes it correct | Module |
|---|---|---|---|---|
| Connection registry (`domain/connection`) | `connections` and the user, tenant and channel indexes (DashMaps), `subscriptions` and `last_activity` of each handle | `register_with_limits`, `unregister`, `subscribe_to_channel`, `unsubscribe_from_channel`, `cleanup_stale_connections`, lookups | the indexes hold live connections, under their own keys, and forget the others | ConnectionManager |
| Dispatcher (`notification/dispatcher.rs`) | none of its own | `dispatch_for_tenant` for a user, users, a channel, channels, everybody | no message reaches a stranger, or a device more often than its user is listed | Delivery |
| Connection handlers (`domain/realtime`) | an mpsc channel of 32 per connection, send and receive tasks | register, replay the queue, forward, answer, unregister | what was drained arrives, who has gone is unregistered | Delivery |
| Offline queue (`domain/queue`: memory, Redis, PostgreSQL) | a bounded queue per tenant and user | `enqueue`, `drain` | order and bound; nothing lost except by overflow, TTL or a gap that is known | MessageQueue, Delivery, QueueBackends |
| Acknowledgements (`domain/ack`: memory, Redis, PostgreSQL) | one pending entry per notification | `track`, `acknowledge` | only an addressee can acknowledge, once | AckTracker |
| Redis client (`infrastructure/redis`) | circuit breaker (four atomics), cached connection, health | `state`, `record_success`, `record_failure`, `get_connection`, commands | it opens when it must and is tested again | CircuitBreaker, RedisClient |
| Redis trigger (`triggers/redis.rs`) | subscription, backoff, shutdown receiver | `start`, `run_subscription_loop` | it reconnects, it stops on shutdown | RedisClient |
| Rate limiter (`domain/ratelimit`, `api/middleware`) | token buckets per key and per address | `check_ip`, `check_key` | no more than capacity plus refill is granted, and a refused client gets in later | RateLimiter, Admission |
| Cluster (`domain/cluster`) | sessions in Redis, `local_connections`, routed messages | `register_session`, `unregister_session`, `update_session_channels`, `refresh_sessions`, `handle_routed_message` | a live connection has a session, a dead one loses it | SessionStore, Delivery, Server |
| HTTP triggers, batch, templates (`triggers/http`, `domain/template`, `api/template.rs`) | the template map, the counters of a batch | the five sends, `batch_send`, create, update, delete, render | a tenant uses its own templates, every item is accounted for | HttpApi |
| Heartbeat task, graceful shutdown (`tasks`, `shutdown`, `main.rs`) | timers, a broadcast signal, phases | sweep, refresh, notify, drain, wait, join | the tasks stop and the process ends | Server (with Delivery, SessionStore) |
| Authentication, reporting API, metrics, telemetry, configuration, errors | start-up values, counters | | | section 7 |

How they interact: a request passes the rate limiter and authentication; an HTTP
handler, the Redis trigger or a message routed from another server calls the
dispatcher; the dispatcher looks users and channels up in the registry, sends into
the mpsc channels of the connections it found, tracks acknowledgements, and enqueues
for users it found offline. A handler registers its connection, writes its session
to Redis, drains the queue of its user into its own mpsc channel, and then spawns the
send task that reads this channel and the receive task that subscribes, acknowledges
and notes activity. The heartbeat task sends frames, unregisters silent connections
behind the handlers' backs and refreshes the sessions. `main` waits for all of them.

What is hard: every component is shared between tokio tasks without a global
lock. A DashMap access is atomic, two of them are not; neither are two atomics, two
Redis commands or two SQL statements. `subscribe_to_channel` and `refresh_sessions`
hold a shard guard across `.await`; a lookup is stale when its result is used;
bounded channels block; clients vanish at any await; commands fail in the middle of
a sequence, after or before they took effect; the clock is set back; the process
crashes; a shutdown signal reaches only the receivers that exist.

## 2. The modules

What composes what: Admission extends ConnectionManager and RateLimiter; RedisClient
extends CircuitBreaker; Server extends HttpApi; Delivery refines MessageQueue.
`MC...` modules give the constants of a run their values.

### ConnectionManager
The registry at the granularity of its DashMap accesses. Task `c` is the handler
of connection `c`; `rpc[c]` is its receive task; `Cleaner` is the heartbeat task.
`pc` says which access comes next, so that every other task can run in between.

| Model | Code (`manager.rs`) |
|---|---|
| `CheckTotal`, `CheckUser`, `Insert`, `PushUser`, `PushTenant` | `register_with_limits` |
| `Remove`, `LeaveUser`, `LeaveTenant`, `ReadSubscriptions`, `LeaveChannel`, `DropEntry`, `Unregistered` | `unregister` |
| `Subscribe` to `IndexSubscription`, `Unsubscribe` to `DropChannel` | the two channel operations |
| `FindStale`, `NextStale` | `cleanup_stale_connections` |
| `keys`, `index` | `user_index`, `tenant_index`, `channel_index`, as one map over disjoint keys |
| `idle[c]` | `last_activity` is older than the timeout |
| `GuardFree` | the shard guard of `connections.get`, held by subscribe and unsubscribe, keeps `connections.remove` waiting |

`drop[t]` is the window between `drop(guard)` and `remove(key)` in which an entry
found empty can be filled again. A connection id stands for a fresh uuid each time
it is registered, once nothing refers to the old one. Abstractions: `len()` of the
connections map is one step although DashMap sums its shards; two connections that
share a shard do not block each other.

### RateLimiter and Admission
`RateLimiter` is the two maps of token buckets. A check holds its map entry from
beginning to end and is one step; `TryConsume` and `Deny` are its outcomes. The
clock may be set back (`SetBack`). `ideal` is a history variable, an exact bucket of
the same capacity and rate that loses nothing to rounding: `Conforms` says that the
code never grants what this bucket would refuse. `Admission` puts both middlewares in
front of the registry: `Pass` or `Refuse`, then `Enter`, which is the registry's own
`CheckTotal`, or `Reject`.

### MessageQueue
The abstract specification of an offline queue: `Put` appends and pushes the oldest
message out when the queue is full, `Take` empties it, and what left it does not come
back. It is what `MessageQueueBackend` documents and the sequential
`UserMessageQueue` does.

### Delivery
Dispatcher, memory queue, mpsc channels, handlers, heartbeat frames and routed
messages. The registry is the set `registered`; every message has a dispatch task
(`dpc`), every connection a handler (`hpc`). The users of a target are a list that
nobody deduplicates: a copy `<<m, i>>` is message `m` for the i-th user listed, and each
copy is looked up, sent and queued by itself. `ScopedKey` is `tenant_scoped_key`: the
keys of the default tenant have no prefix and are elements of `QueueKey` like the
prefixed ones (`Join`), so that two tenants may share a queue. `Lookup` fixes the
connections and the offline copies, `Enqueue` (in the order of the list) and `Send` act
on them later; `Route` is a copy that came from another server. `Send` takes the channel's room, or fails when the receiver is
gone or the channel stays full for the send timeout. `Drain` takes the queue and
drops a prefix of it (TTL). `Replay` waits for room without a timeout, before `Open`
spawns the reader. `Heartbeat`, `Reply` and `Subscribe` put frames into the same
channels. `Abandon` is the SSE request that is dropped before its cleanup guard
exists; `StreamEnds` the stream of an SSE connection that was swept. `taken` remembers
which connection drained a copy. `Queues` is the refinement mapping to MessageQueue: a queue is itself, and
`left` is what was enqueued and is not there any more. Abstractions: the lookup of
all the users of a list is one step (the code looks up and sends chunk by chunk,
`USER_BATCH_SIZE` users at a time); channels are already namespaced by tenant; the
frames are all alike.

### QueueBackends
The queue of one user on each of the three backends, whose calls are not atomic and
may fail before or after they took effect. Redis: XADD with approximate trimming,
then a drain of two commands, XRANGE and DEL. PostgreSQL: an enqueue whose snapshot
(`StartPostgres`) picks the row to drop before it commits, and a drain of two
statements. `late`, `rivals`, `overlap` and `before` record the overlaps in which
each backend may lose, repeat or exceed; the properties say that it happens there
and nowhere else.

### AckTracker
The three acknowledgement backends behind the dispatcher and the handlers; the
backend is picked in `Init` as `create_ack_backend` does. In memory, `AckMemory`
removes the entry and `Restore` puts another user's back; PostgreSQL deletes in one
statement, whose answer may be lost after it was committed; Redis reads, deletes and
answers in separate commands. Every command to Redis and PostgreSQL may fail. `owed`
remembers for whom entries were written and `lost` how an entry ended that its user did
not acknowledge: `GivesWay` records an entry that another user's replaced
(`"overwritten"`, also by the re-insert of `Restore`), that the DEL of another user's Ack
took (`"deleted"`), that its TTL ended or whose DELETE went unanswered. `Replay` is a queued notification, which nobody tracks.

### CircuitBreaker and RedisClient
`CircuitBreaker` is the four atomics with every load, store, addition and exchange as
a step of its own: `bpc[c]` names the access that caller `c` does next. `elapsed` is
the comparison of the clock with the timestamp. `BreakerSpec` is the breaker under
arbitrary callers. `RedisClient` adds the two kinds of callers the program has: tasks
that use the pool (`tpc`), with its cached connection behind a read-write lock, and
the subscriber (`spc`), whose receiver for the shutdown signal exists only while it is
subscribed or backs off. Redis comes and goes (`RedisUp`, `RedisDown`). Left out: the
health counters and the length of a delay.

### SessionStore
The sessions of one server in Redis. `hpc[c]` follows the handler of `c` from
`register_session` to `unregister_session`, `upd[c]` its receive task through
`update_session_channels`, `hb` the heartbeat task through `refresh_sessions` shard by
shard: `Guarded` is the shard guard its iterator holds while it awaits Redis. Time is
counted in heartbeat periods; `missed` counts the periods in a row without a complete
refresh. Every call may fail, executed or not; the process may crash. Abstraction: a
pipeline is one step; the user and channel indices are left out because nothing that
runs reads them.

### HttpApi and Server
`HttpApi` has a slot per concurrent request. A request with a body waits at `"body"`
until its client has sent all of it (the `Json` extractor; `src/server` sets no
timeout), for ever if the client does not. Every access of the template map is a
step, as is every item of a batch. `store[id]` remembers who wrote the template under
an id; `Join` is the tenant prefix, and the id of the default tenant may look like a
prefixed one. `Server` is the process around it: connections, the routed message
subscriber, the heartbeat task, `main` with its phases, crash and restart. What the
phases tell the clients and how long they take is left out.

## 3. The runs

| Run | Instance | What it shows |
|---|---|---|
| `registry` | two connections of one user, two channels, limits 2, 1 and 1 | `NoLeak`, `NoForeignEntry`, `NoGhostEntry`, `SingleUnregister`, `SubscriptionLimit`, `OnlyLiveIndexed` in every interleaving of the handlers, receive tasks and the sweep |
| `registry_user_lost` (violation) | two connections of one user | `UserReachable` fails: a register that pushes its id between the emptiness check and the removal of the user's entry is lost |
| `admission` | one client, one address with a token per minute, one key with a burst of two, two ticks to the second, the clock set back once | `Conforms`, `Refills`; behind the limiter `Forgotten` and `StaleRemoved`: a removed id leaves every index, a silent connection is removed, although subscribes keep taking the guard |
| `delivery` | a WebSocket device of the default tenant's user `acme:bob`, an SSE device of acme's `bob` (one queue key for both); an unscoped message that lists `acme:bob` twice, one of acme that lists `bob` and `acme:bob`; channel of one, queue of two | `NoDuplicate`, `NoStranger`, `NoSilentLoss`, `ReplayInOrder`, and the refinement `QueuePromise` |
| `delivery_live` | the same devices, a message to `acme:bob`, one to a channel, a frame, channel of two | `DrainedArrives`, `GoneUnregistered` |
| `delivery_replay_hangs` (violation) | two queued messages, channel of one | `DrainedArrives` fails: the replay waits for room in a channel that has no reader yet |
| `ack` | two devices of one user, one of another, two Acks each, all backends | `OnlyAddressee`, `AcceptedOnce`, `StaysPending` |
| `ack_refused` (violation) | two users, memory backend | `ValidAckConfirmed` fails: an addressee's first Ack is refused |
| `queues` | three messages, two drains, queue of one, each backend, restarts | `TwiceOnlyOverlapping`, `LossExplained`, `SizeBound` |
| `redis` | one task on the pool and the subscriber, thresholds of two | `Settled`; `OpenIsTested`; `HeardStops` |
| `cluster` | a WebSocket and an SSE stream, two shards, sessions of two periods | `Located`, `StuckByExpiry`, `GhostsExpire` |
| `server` | two slots, three tenants (one whose ids make no valid prefix), ids `x` and `acme:x`, batches of two | `Isolated`, `Accounted`, `TasksStop`, `Exits` |

Each of the modules has its type invariant in one of the runs; the limiter's is
proved instead (`BucketsBounded`).

Bounds. Two connections are what the races of the registry need: one task in a
window, another that walks through it; the heartbeat task is the third actor. A
limit of one makes every limit both reachable and exceeded by a race. In
`admission` two ticks to the second leave room for the fraction of a token that a
refill drops, and setting the clock back once makes an elapsed time negative. In
`delivery` a capacity of one makes full channels common, and four copies overflow the
queue of two; the repeated user is found offline by one copy, or by both, and each of
two devices may drain what was queued for the other, because their keys coincide.
Frames and subscriptions are in `delivery_live`; a broadcast is in no run and in the
proofs only. In `delivery_replay_hangs` 1
and 2 stand for the code's 32 and 100. `MaxFrames` bounds the frames in a channel at
a time. In `ack` the second user provides mismatches, the second device of the first
one concurrent acceptance. In `queues` three messages overflow a queue of one by one
and by two, and two drains overlap. In `redis` the two callers are the two kinds
there are and a threshold of two separates the first failure from the last; the
proof covers any number. In `cluster` two shards let entries share the guard or not,
and a lifetime of two periods survives one failed refresh and not two. In `server`
two slots race on one template; `Batching` and `BatchAsk` let one of them run batches.

Symmetry is used in `registry` and `queues`, where connections of one user, channels,
messages and drains are interchangeable and only safety is checked. The Delivery,
AckTracker and QueueBackends runs allow deadlock: all messages delivered and all
clients gone is a legitimate end. The others check it.

Fairness. Weak fairness of every step a spawned task takes (tokio runs tasks that
are ready); none of what clients and operators do. Beyond that:

- `Remove` (registry) has strong fairness: it waits for a shard lock that is free
  again and again, and DashMap's lock parks a waiting writer and wakes it.
- In Delivery a live client reads its socket (`Forward`) and a started dispatch goes on;
  nothing is assumed of the sweep.
- Time passes (`Tick`, `ResetTimeout`): sleeps and timeouts end.
- `StopSubscriber` (Redis) and `HearSignal` (router) have strong fairness: they are
  branches of a `select!` that picks among the ready ones at random, and are ready
  again each time round.
- In SessionStore a receive task whose socket has gone ends in the end
  (`ReceiveEnds`), strong because an update may be under way each time; every Redis
  call returns, with an error or without.
- In Server a dispatch ends (its sends have a timeout) and so does every phase of the
  shutdown; SSE clients need not leave and clients need not finish their requests,
  which is why `Exits` excepts both.

## 4. The proofs

All are for every value of the constants under the named assumptions of the modules
(typed constants, disjoint keys, positive sizes). HttpApi also assumes that the slots
of concurrent requests are finitely many, as the tasks of a process are: the number of
connections `main` counts is a natural number only then.

`ConnectionManager_proofs` proves `TypeCorrect`, `NothingLeaks`, `NothingForeign`,
`OneUnregister`, `OnlyLiveAdded`, `WithinSubscriptionLimit`, `NothingGhostly`.
`NoLeak` alone is not inductive: that unregister finds all entries depends on what
the receive task may do at the same time. `IInv` adds `Stages` (a connection is
registered by its handler before anybody can sweep it, only one task unregisters
it, and an unregistered id is out of `connections`), `Guards` (a receive task
between two steps works for a live connection: the guard keeps unregister out) and
`Entries` (an index holds an id only under its own user, tenant and subscriptions).
`NoGhostEntry` needs `Drops`, `SubscriptionLimit` needs `Room` on top. Each action
has its step in the proof; `OnlyLiveIndexed` follows from `Stages` and `Guards`.

`AckTracker_proofs` proves `AckTypeCorrect` and `AckedOnlyAddressee` for every
backend; the invariant is `Entitled`: every entry, also one that a handler holds
between removing and re-inserting it, names a user the notification was sent to.
`AckStaysPending` needs `Kept` for the time between the two: an entry that was written
for a user is pending for that user, held by a handler that will answer or put it back
(`Holds`), accepted, or on record with an ending of its backend; `OneBackend` says which
steps belong to which backend. Whoever replaces or removes an entry records whose it was
(`WayGiven`). `AckAcceptedOnce` counts: with the memory and
PostgreSQL backends the handlers that took an entry out (`Claims`), the entry in the
map and the accepted Acks are together no more than what was stored (`Counted`).

`Delivery_proofs` proves `DeliveryTypes`, `DeliveryNoStranger` and
`DeliveryKeepsQueues`. `NoStranger` speaks of what has reached a connection; `Fits`
adds what may still reach it: the connections a dispatch has yet to send to are those
the copy is addressed to, and what is in a queue is there under the key of the user it
lists (`Owns`). That two users of one key are the same user of the same tenant, or
clash, is what the keys grant and no more. That the queues implement MessageQueue rests
on `Once`: a copy is under the key of its listed user only after its dispatch has queued
it there, once, so that a `Put` never puts back what was taken or pushed out; a user
listed twice has two copies, which the queue holds as two messages. `Enqueue` maps to
`Put`, `Drain` to `Take`, every other step to a stutter.

`DeliveryNoDuplicate`, `DeliveryInOrder` and `DeliveryNoLoss` rest on `Standing`, which
is `Once` and three more invariants. `Placed` says where the dispatches and handlers
stand: a connection that has not connected is unknown to them, one that has not drained
holds only what was sent to it, a dispatch that has not looked up its targets has done
nothing, a target has not got the message yet, and no dispatch both queues for a user
and sends to a connection of that user. `Held` says that a replayed message has left
the queue and is with one connection. `InOrder` says that nothing comes twice on the
way to a client and that the replayed messages come in the order of `enqueued`; it is
stated part by part (`Follows`: in `received`, in the channel, in `pending`, or across
them), because a step moves a message from one part to the next. Most steps of a
connection are `Quiet`: they move messages on, or lose them once the client has gone,
and bring no new one; the proofs treat them as one case. `NoSilentLoss` needs
`Carries`: what a connection has taken from a queue it still carries while its client is
there. A drain hands out everything it does not discard, to the connection that `taken`
names, and a connection that carries a queued copy is not sent the same copy, which
would make it count as sent. The lemmas on `Precedes` (what comes before what in a sequence
after `Append`, `Tail`, `SubSeq` and `\o`) come first.

`QueueBackends_proofs` proves `QueueTypes`, `ReturnedTwice`, `LossesExplained` and
`QueueBounded` for each backend. `Known` says what the place of an enqueue means for
its message: an open PostgreSQL statement has not inserted, and the row it is about to
drop has `MaxQueue` younger ones after it. `Disjoint` says that where reading takes,
nothing is in two hands, and that Redis drains that hold the same message overlapped.
`LossExplained` needs `Reading`: what a Redis drain is going to delete it has in hand,
or it came late or expired. `SizeBound` is not inductive, because a commit may both
drop and insert: `Weighed` bounds what the queue will hold once all open statements
have committed, the rows that are not doomed plus the open statements. That the
oldest message of a finite queue exists is an induction over numbers, which the proof
takes from the least element of a set (`WFMin`), a fact without an operator parameter.

`Server_proofs` proves `ServerTypeCorrect`, `TemplatesIsolated` and
`BatchesAccounted`. The invariant `ApiInv` speaks of each slot by itself (`SlotOK`) and
of each template by itself (`StoreOK`), so that a step of one request has to be
followed through one slot only; a slot that still waits for its body holds nothing. `Accounted` speaks of the finished summary; `Underway`
is the partial sum: after each item the counters add up to the items done, and with
deduplication an item being dispatched has its target among the ones seen.

`Admission_proofs` proves `BucketsBounded`, `LimiterConforms`, `AdmissionLimits`
(Admission implements `LimiterSpec`) and from them `AdmissionConforms`. `Conforms` is
not inductive; `NeverBehind` is: what the exact bucket has is at least the code's
tokens plus what the time since the last refill will be worth, or the exact bucket is
full. A refill keeps it because the quotient times the divisor is at most the
dividend, and a clock that is set back only takes from the code's side. The lemmas
about products and quotients are stated once, for all natural numbers.

`RedisClient_proofs` proves `BreakerSettles` for arbitrary callers of the breaker,
`ClientImplementsBreaker` (every step of the pool and of the subscriber is a call of
the breaker or leaves it alone) and from both `ClientSettles`. `Settled` is inductive
together with the types: the access that brings a counter to its threshold goes on to
the change of state, and the last access of a change takes the counter back.
`PoolConnectsOnce` uses `PoolInv`: whoever connects holds the write lock and found no
connection. `ClientTypes` puts the types of the breaker, of the pool and of the
subscriber together.

`SessionStore_proofs` proves `StoreTypes`, `ConnectionsLocated` and
`HeartbeatSticksByExpiry`. `Located` alone does not survive the end of a round, which
sets `missed` to zero: `Visited` says that the round has refreshed every entry in the
shards behind it, `Visiting` that the guard keeps the rest of the shard in the map,
`Fresh` that an entry made meanwhile belongs to a session just written, `Owed` that a
round that runs is still due, and `Tracked` that a handler with an entry does not
delete its session.

Every invariant and action property of the runs, and the refinement `QueuePromise`, is
stated by a theorem. Only model-checked is liveness (`Forgotten`, `StaleRemoved`,
`Refills`, `DrainedArrives`, `GoneUnregistered`, `OpenIsTested`, `HeardStops`,
`GhostsExpire`, `TasksStop`, `Exits`): it rests on fairness and ENABLED, which are out of
the prover's reach.

## 5. Deviations from what the documentation says, and other observations

Besides the three violations of section 3, the models show, without a run of their
own:

Registry. Concurrent registrations exceed the connection limits (`CheckUser` and
`Insert` are separate steps); a subscriber is lost from a channel's entry as a device
is from a user's; a connection that becomes active after the stale list was collected
is removed all the same.

Delivery. A user who connects between `Lookup` and `Enqueue` is online with a message
left in the queue; a message sent without a tenant is queued under the default tenant,
where a user of another tenant never looks; routed messages are never queued. A send
that fails, because the connection found by the lookup has gone or its channel stays
full, is counted and not queued. A user who is listed twice gets the message twice
(`dispatcher.rs:297`), also in part from the queue: `NoDuplicate` counts per occurrence.
The default tenant's user `acme:bob` and acme's `bob` have one queue key
(`claims.rs:9`), and each is replayed what was queued for the other: `NoStranger` excepts
keys that coincide. A handler that hangs in the replay and an SSE request that is dropped
before its guard exists unregister nothing and are left to the sweep (`GoneUnregistered`
excepts them).
Heartbeats take room in the channel during the replay, so that 32 queued messages and
one heartbeat suffice for the hang of `delivery_replay_hangs`. They reach SSE clients
as an event named "notification" (`sse/handler.rs:249`).

Acknowledgements. The entry of a notification sent to two users is overwritten by the
second track, and in memory also by the re-insert after a refused Ack
(`ack_memory_backend.rs:100`): the user whose entry is gone is refused. In PostgreSQL a
DELETE that was committed and whose answer was lost is taken for a missing row
(`ack_postgres_backend.rs:136`): the client is refused, and its entry is gone.

Queues. The comment at `postgres_backend.rs:75` says that the single statement
"prevents race conditions"; two statements that overlap at the limit both insert, and
`SizeBound` states by how much the queue exceeds it. A Redis drain of two commands
loses what is enqueued between them and returns messages twice when two drains
overlap.

Redis. A connection the pool has cached is never replaced: after Redis dropped it
every command fails and reopens the breaker the subscriber shares, so that the circuit
need not close again although Redis is back. The subscriber takes the end of its
stream for a shutdown (`triggers/redis.rs:249`) and stops. A shutdown signal sent
while it waits for an open circuit or connects is lost. Its backoff is never reset by
a success.

Cluster. `refresh_sessions` removes from the map it iterates over
(`redis_store.rs:316`) and waits for itself once a session expired under it. An update
that read a session before it was deleted writes it again; the sessions of swept
connections and of abandoned SSE requests stay in `local_connections` and are
refreshed as long as the server runs. The set entries of users and channels are
removed without a look at the user's other connections (`redis_store.rs:264`).

Admission. `ws_connections_per_minute` (`ratelimit/config.rs:17`) becomes tokens per
second, rounded up: the default of 10 admits about 70 connections in the first minute.
The API's limiter counts keys before they are validated. A clock that is set forward
counts as time that has passed and refills the buckets; the model's clock only passes or
is set back, so that `Conforms` says nothing about it. The sum in `token_bucket.rs:60`
is of 32 bits; a bucket left alone for more than a year would exceed it.

Templates and batch. The default tenant's ids may contain a colon and name another
tenant's template; `Isolated` excepts it. A tenant whose id contains a dot can create no
template. `create` reads back what it inserted and panics if it was deleted meanwhile;
`update` writes a template that was deleted meanwhile. With `stop_on_error` a failed
dispatch counts the remaining items as skipped (`batch.rs:309`) and a content error
does not (`batch.rs:242`). A client that disconnects ends a batch midway.

Shutdown. `main` waits for the SSE streams before it tells the clients to leave
(`main.rs:102`): one that stays keeps the process alive, and so does a client that does
not finish its request, because no timeout ends the wait for its body. A heartbeat that
is deadlocked does, too. `initial - current` (`shutdown/mod.rs:247`) underflows when a
connection came late; a build with overflow checks then panics, which `Exits` counts as
an exit.

## 6. Plan

Done: ConnectionManager, RateLimiter, Admission, MessageQueue, Delivery,
QueueBackends, AckTracker, CircuitBreaker, RedisClient, SessionStore, HttpApi, Server.
Their invariants, their action properties and the refinements are proved. What is left
is to extend what the proofs say beyond the runs:

1. QueueBackends: that the memory backend's enqueue and drain, at the granularity of
   its calls and across restarts, implement MessageQueue between two restarts.
2. The safety halves of the liveness properties: what a waiting task waits for is held
   by a task that is not itself waiting (`GoneUnregistered`, `TasksStop`).

## 7. Not modelled

- Authentication: the validation of a token is a library call without state. The
  claims of a connection are constants of the models.
- The reporting API, metrics, telemetry and all statistics: they read what other
  components keep, and nothing reads what they count.
- Configuration, error conversion and the PostgreSQL pool: start-up values are
  constants of the models, the rest is pure or a library's.
- The distributed rate limiter, the legacy `AckTracker`, `RedisPool::execute`,
  `route_to_user` and the cluster's lookups, `cleanup_stale` of the rate limiter,
  `cleanup_expired` and `clear_user_queue` of the backends: nothing but their tests
  calls them.
- A system clock that is set forward (`token_bucket.rs:52`); see section 5.
- The worker threads of the runtime: a task that blocks a thread (a shard lock held
  across `.await`) delays nobody else in the models, except the heartbeat that waits
  for itself, which keeps the process from exiting.
- The wording and encoding of messages, and the text a template renders to.

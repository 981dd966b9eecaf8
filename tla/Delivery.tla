------------------------------ MODULE Delivery ------------------------------
(***************************************************************************)
(* From dispatch to the client: the NotificationDispatcher, the per-user   *)
(* offline queue (memory backend), the bounded mpsc channel of every       *)
(* connection and the WebSocket and SSE handlers that replay the queue and *)
(* then forward the channel to the socket.                                 *)
(*                                                                         *)
(* The registry is abstracted to the set of registered connections (its    *)
(* own races are the subject of ConnectionManager). Every message is       *)
(* dispatched by a task of its own (an HTTP request or a Redis message).   *)
(*                                                                         *)
(* The users of a target are a list, in which a user may occur repeatedly: *)
(* each occurrence is looked up, sent to and queued for by itself. A copy  *)
(* <<m, i>> is message m as it is sent for the i-th user listed, or for    *)
(* the whole of any other target (i = 1). The events of two copies of m    *)
(* are equal; the index only tells the copies apart.                       *)
(***************************************************************************)
EXTENDS Integers, Sequences, SequencesExt, Functions

CONSTANTS
    Conn, Sse,         \* connections; the ones over SSE
    Msg, User, Tenant, Channel,
    UserOf, TenantOf,  \* claims of a connection
    Target,            \* Target[m]: [kind, to], the NotificationTarget
    Scope,             \* Scope[m]: the tenant_id of the request, or NoTenant
    QueueKey, Join,    \* keys of the offline queues; Join[<<t, u>>]: "t:u"
    DefaultTenant, NoTenant,
    Capacity,          \* CHANNEL_BUFFER_SIZE
    MaxQueue,          \* max_queue_size_per_user
    Frame,             \* a heartbeat, or the answer to a client's message
    MaxFrames          \* bound: MaxFrames[c], the frames in the channel of c

ASSUME ConstantsOK ==
    /\ Sse \subseteq Conn
    /\ UserOf \in [Conn -> User] /\ TenantOf \in [Conn -> Tenant]
    /\ Target \in [Msg -> [kind : {"users"}, to : Seq(User)]
                          \cup [kind : {"channels"}, to : SUBSET Channel]
                          \cup [kind : {"broadcast"}, to : {{}}]]
    /\ NoTenant \notin Tenant /\ DefaultTenant \in Tenant
    /\ Scope \in [Msg -> Tenant \cup {NoTenant}]
    /\ User \subseteq QueueKey /\ Join \in [(Tenant \ {DefaultTenant}) \X User -> QueueKey]
    /\ \A t \in Tenant \ {DefaultTenant}, u, v \in User :
          Join[<<t, u>>] = Join[<<t, v>>] => u = v
    /\ Capacity \in Nat \ {0} /\ MaxQueue \in Nat \ {0}
    /\ MaxFrames \in [Conn -> Nat]

\* The copies of m, one for every user listed.
Copies(m) == {m} \X (IF Target[m].kind = "users" THEN DOMAIN Target[m].to ELSE {1})
Copy == UNION {Copies(m) : m \in Msg}

ASSUME FrameOK == Frame \notin Copy

VARIABLES
    registered,  \* the connections the registry finds
    subs,        \* subs[c]: channels of c
    online,      \* the clients whose socket is alive
    hpc,         \* hpc[c]: where the handler of c stands
    pending,     \* pending[c]: drained messages the handler has yet to replay
    chan, rx,    \* the mpsc buffers; the connections whose receiver exists
    received,    \* received[c]: what the client of c got, in order
    queue,       \* queue[k]: the offline queues
    dpc,         \* dpc[m]: where the dispatch of m stands
    offline,     \* the copies whose user the dispatch found offline, still to queue
    targets,     \* targets[x]: connections the dispatch has yet to send copy x to
    accepted,    \* accepted[x]: connections whose channel took x from the dispatch
    enqueued,    \* history: enqueued[k], all copies ever queued under k, in order
    discarded,   \* history: the copies evicted or expired
    taken        \* history: taken[c], the copies the handler of c drained

handler  == <<hpc, pending>>
channel  == <<chan, rx, received>>
dispatch == <<dpc, offline, targets, accepted>>
history  == <<enqueued, discarded, taken>>
vars == <<registered, subs, online, hpc, pending, chan, rx, received, queue,
          dpc, offline, targets, accepted, enqueued, discarded, taken>>

TypeOK ==
    /\ registered \subseteq Conn /\ online \subseteq Conn /\ rx \subseteq Conn
    /\ subs \in [Conn -> SUBSET Channel]
    /\ hpc \in [Conn -> {"new", "drain", "replay", "open", "unregister", "closed"}]
    /\ pending \in [Conn -> Seq(Copy)]
    /\ chan \in [Conn -> Seq(Copy \cup {Frame})]
    /\ \A c \in Conn : Len(chan[c]) <= Capacity
    /\ received \in [Conn -> Seq(Copy)]
    /\ queue \in [QueueKey -> Seq(Copy)]
    /\ \A k \in QueueKey : Len(queue[k]) <= MaxQueue
    /\ dpc \in [Msg -> {"new", "queue", "send", "done"}]
    /\ offline \subseteq {x \in Copy : Target[x[1]].kind = "users"}
    /\ targets \in [Copy -> SUBSET Conn]
    /\ accepted \in [Copy -> SUBSET Conn]
    /\ enqueued \in [QueueKey -> Seq(Copy)]
    /\ discarded \subseteq Copy
    /\ taken \in [Conn -> SUBSET Copy]

Init ==
    /\ registered = {} /\ online = {} /\ rx = {} /\ offline = {} /\ discarded = {}
    /\ subs = [c \in Conn |-> {}]
    /\ hpc = [c \in Conn |-> "new"]
    /\ pending = [c \in Conn |-> <<>>]
    /\ chan = [c \in Conn |-> <<>>]
    /\ received = [c \in Conn |-> <<>>]
    /\ queue = [k \in QueueKey |-> <<>>]
    /\ dpc = [m \in Msg |-> "new"]
    /\ targets = [x \in Copy |-> {}]
    /\ accepted = [x \in Copy |-> {}]
    /\ enqueued = [k \in QueueKey |-> <<>>]
    /\ taken = [c \in Conn |-> {}]

----------------------------------------------------------------------------
(* The dispatcher                                                          *)

\* The registry as the request sees it: an unscoped one sees every tenant.
ScopedConnections(m) == {c \in registered : Scope[m] \in {NoTenant, TenantOf[c]}}

\* get_user_connections_filtered
UserConnections(m, u) == {c \in ScopedConnections(m) : UserOf[c] = u}

ChannelConnections(ch) == {c \in registered : ch \in subs[c]}

\* Whom copy x means. A connection of several channels is found once, a user who
\* is listed repeatedly once for every copy.
Recipients(x) ==
    LET to == Target[x[1]].to
    IN  CASE Target[x[1]].kind = "users" -> UserConnections(x[1], to[x[2]])
          [] Target[x[1]].kind = "channels" -> UNION {ChannelConnections(ch) : ch \in to}
          [] OTHER -> ScopedConnections(x[1])

\* dispatch_for_tenant up to the first send or enqueue. The event may have
\* expired, which ends the dispatch.
Lookup(m) ==
    LET absent == {x \in Copies(m) : Target[m].kind = "users" /\ Recipients(x) = {}}
    IN  /\ dpc[m] = "new"
        /\ \/ /\ dpc' = [dpc EXCEPT ![m] = IF absent # {} THEN "queue" ELSE "send"]
              /\ offline' = offline \cup absent
              /\ targets' = [x \in Copy |-> IF x \in Copies(m) THEN Recipients(x)
                                                                ELSE targets[x]]
           \/ /\ dpc' = [dpc EXCEPT ![m] = "done"]
              /\ UNCHANGED <<offline, targets>>
        /\ UNCHANGED <<registered, subs, online, handler, channel, queue, accepted, history>>

\* handle_routed_message: x came from another server, for one of its users. It is
\* delivered to who is connected here and never queued.
Route(m, x) ==
    /\ dpc[m] = "new" /\ Scope[m] # NoTenant
    /\ Target[m].kind = "users" /\ x \in Copies(m)
    /\ dpc' = [dpc EXCEPT ![m] = "send"]
    /\ targets' = [targets EXCEPT ![x] = Recipients(x)]
    /\ UNCHANGED <<registered, subs, online, handler, channel, queue, offline, accepted,
                   history>>

\* Fault: the tenant is left out of the key.
BareKey(t, u) == u

\* tenant_scoped_key: the default tenant's ids stand for themselves, and may be the
\* prefixed id of another tenant's user.
ScopedKey(t, u) == IF t = DefaultTenant THEN u ELSE Join[<<t, u>>]

\* tenant_queue_key: an unscoped request queues under the default tenant.
TenantFor(m) == IF Scope[m] = NoTenant THEN DefaultTenant ELSE Scope[m]
Listed(x) == Target[x[1]].to[x[2]]
KeyOf(x) == ScopedKey(TenantFor(x[1]), Listed(x))

\* Fault: the message is pushed to the front of the queue.
EnqueueFront(m, x) ==
    LET k == KeyOf(x)
        full == Len(queue[k]) >= MaxQueue
    IN  /\ dpc[m] = "queue" /\ x \in offline \cap Copies(m)
        /\ \A y \in offline \cap Copies(m) : x[2] <= y[2]
        /\ queue' = [queue EXCEPT ![k] = <<x>> \o (IF full THEN Tail(@) ELSE @)]
        /\ discarded' = IF full THEN discarded \cup {Head(queue[k])} ELSE discarded
        /\ enqueued' = [enqueued EXCEPT ![k] = Append(@, x)]
        /\ offline' = offline \ {x}
        /\ dpc' = [dpc EXCEPT ![m] = IF offline' \cap Copies(m) = {} THEN "send" ELSE "queue"]
        /\ UNCHANGED <<registered, subs, online, handler, channel, targets, accepted, taken>>

\* The absent users are queued for in the order of the list.
\* MemoryQueueBackend::enqueue: a full queue loses its oldest message.
Enqueue(m, x) ==
    LET k == KeyOf(x)
        full == Len(queue[k]) >= MaxQueue
    IN  /\ dpc[m] = "queue" /\ x \in offline \cap Copies(m)
        /\ \A y \in offline \cap Copies(m) : x[2] <= y[2]
        /\ queue' = [queue EXCEPT ![k] = Append(IF full THEN Tail(@) ELSE @, x)]
        /\ discarded' = IF full THEN discarded \cup {Head(queue[k])} ELSE discarded
        /\ enqueued' = [enqueued EXCEPT ![k] = Append(@, x)]
        /\ offline' = offline \ {x}
        /\ dpc' = [dpc EXCEPT ![m] = IF offline' \cap Copies(m) = {} THEN "send" ELSE "queue"]
        /\ UNCHANGED <<registered, subs, online, handler, channel, targets, accepted, taken>>

\* ConnectionHandle::send, send_preserialized: the channel takes the message, or it
\* is closed, or it stays full for SEND_TIMEOUT.
Accepts(c) == c \in rx /\ Len(chan[c]) < Capacity

\* Fault: an unbounded channel.
SendUnbounded(m, x, c) ==
    /\ dpc[m] = "send" /\ x \in Copies(m) /\ c \in targets[x] /\ c \in rx
    /\ targets' = [targets EXCEPT ![x] = @ \ {c}]
    /\ chan' = [chan EXCEPT ![c] = Append(@, x)]
    /\ accepted' = [accepted EXCEPT ![x] = @ \cup {c}]
    /\ UNCHANGED <<registered, subs, online, handler, rx, received, queue, dpc, offline,
                   history>>

\* A failed send is only counted.
Send(m, x, c) ==
    /\ dpc[m] = "send" /\ x \in Copies(m) /\ c \in targets[x]
    /\ targets' = [targets EXCEPT ![x] = @ \ {c}]
    /\ \/ /\ Accepts(c)
          /\ chan' = [chan EXCEPT ![c] = Append(@, x)]
          /\ accepted' = [accepted EXCEPT ![x] = @ \cup {c}]
       \/ ~ Accepts(c) /\ UNCHANGED <<chan, accepted>>
    /\ UNCHANGED <<registered, subs, online, handler, rx, received, queue, dpc, offline,
                   history>>

Finish(m) ==
    /\ dpc[m] = "send" /\ \A x \in Copies(m) : targets[x] = {}
    /\ dpc' = [dpc EXCEPT ![m] = "done"]
    /\ UNCHANGED <<registered, subs, online, handler, channel, queue, offline, targets,
                   accepted, history>>

----------------------------------------------------------------------------
(* The connection handlers                                                 *)

Connect(c) ==
    /\ hpc[c] = "new"
    /\ hpc' = [hpc EXCEPT ![c] = "drain"]
    /\ registered' = registered \cup {c}
    /\ online' = online \cup {c}
    /\ rx' = rx \cup {c}
    /\ UNCHANGED <<subs, pending, chan, received, queue, dispatch, history>>

KeyFor(c) == ScopedKey(TenantOf[c], UserOf[c])

\* Fault: the queue is read and left in place.
DrainByReading(c) ==
    /\ hpc[c] = "drain"
    /\ pending' = [pending EXCEPT ![c] = queue[KeyFor(c)]]
    /\ hpc' = [hpc EXCEPT ![c] = "replay"]
    /\ UNCHANGED <<registered, subs, online, channel, queue, dispatch, history>>

\* queue_backend.drain takes the queue; the messages older than the TTL, which
\* are the oldest ones, are dropped.
Drain(c) ==
    LET k == KeyFor(c)
    IN  /\ hpc[c] = "drain"
        /\ \E n \in 0..Len(queue[k]) :
              /\ pending' = [pending EXCEPT ![c] = SubSeq(queue[k], n + 1, Len(queue[k]))]
              /\ discarded' = discarded \cup {queue[k][i] : i \in 1..n}
              /\ taken' = [taken EXCEPT ![c] = {queue[k][i] : i \in n + 1..Len(queue[k])}]
        /\ queue' = [queue EXCEPT ![k] = <<>>]
        /\ hpc' = [hpc EXCEPT ![c] = "replay"]
        /\ UNCHANGED <<registered, subs, online, channel, dispatch, enqueued>>

\* handle.sender.send(msg).await: waits, without a timeout, for room in the
\* channel that nobody reads before the handler is "open".
Replay(c) ==
    /\ hpc[c] = "replay" /\ pending[c] # <<>>
    /\ Len(chan[c]) < Capacity
    /\ chan' = [chan EXCEPT ![c] = Append(@, Head(pending[c]))]
    /\ pending' = [pending EXCEPT ![c] = Tail(@)]
    /\ UNCHANGED <<registered, subs, online, hpc, rx, received, queue, dispatch, history>>

\* Fault: the tasks are spawned and the rest of the drained messages is dropped.
OpenEarly(c) ==
    /\ hpc[c] = "replay"
    /\ hpc' = [hpc EXCEPT ![c] = "open"]
    /\ pending' = [pending EXCEPT ![c] = <<>>]
    /\ UNCHANGED <<registered, subs, online, channel, queue, dispatch, history>>

\* The send and receive tasks are spawned, the SSE stream is returned.
Open(c) ==
    /\ hpc[c] = "replay" /\ pending[c] = <<>>
    /\ hpc' = [hpc EXCEPT ![c] = "open"]
    /\ UNCHANGED <<registered, subs, online, pending, channel, queue, dispatch, history>>

Spawned(c) == hpc[c] \in {"open", "unregister", "closed"} /\ c \in rx

\* The send task writes the next message to the socket. Written to a socket whose
\* peer is gone, it may still be lost without an error.
Forward(c) ==
    /\ Spawned(c) /\ chan[c] # <<>>
    /\ chan' = [chan EXCEPT ![c] = Tail(@)]
    /\ received' = IF c \in online /\ Head(chan[c]) # Frame
                   THEN [received EXCEPT ![c] = Append(@, Head(chan[c]))] ELSE received
    /\ UNCHANGED <<registered, subs, online, handler, rx, queue, dispatch, history>>

\* The write fails, or the SSE stream is dropped: the receiver goes with all it holds.
DropReceiver(c) ==
    /\ Spawned(c) /\ c \notin online
    /\ rx' = rx \ {c}
    /\ chan' = [chan EXCEPT ![c] = <<>>]
    /\ UNCHANGED <<registered, subs, online, handler, received, queue, dispatch, history>>

Frames(c) == SelectSeq(chan[c], LAMBDA x : x = Frame)

\* A frame enters the channel of c, or is dropped like a message.
SendFrame(c) ==
    /\ Len(Frames(c)) < MaxFrames[c]
    /\ chan' = IF Accepts(c) THEN [chan EXCEPT ![c] = Append(@, Frame)] ELSE chan

\* send_heartbeats: one frame for every connection that was registered when the round
\* began; c may have been unregistered since.
Heartbeat(c) ==
    /\ hpc[c] # "new" /\ SendFrame(c)
    /\ UNCHANGED <<registered, subs, online, handler, rx, received, queue, dispatch, history>>

\* process_message: a ping, an Ack or a message that cannot be read is answered.
Reply(c) ==
    /\ hpc[c] = "open" /\ c \in online \ Sse
    /\ SendFrame(c)
    /\ UNCHANGED <<registered, subs, online, handler, rx, received, queue, dispatch, history>>

\* handle_subscribe; the confirmation is a frame. A channel is one of the client's own
\* tenant (namespace_channel).
Subscribe(c, ch) ==
    /\ hpc[c] = "open" /\ c \in online \cap registered /\ c \notin Sse
    /\ subs' = [subs EXCEPT ![c] = @ \cup {ch}]
    /\ SendFrame(c)
    /\ UNCHANGED <<registered, online, handler, rx, received, queue, dispatch, history>>

\* The client closes the socket or its network fails.
ClientGone(c) ==
    /\ c \in online
    /\ online' = online \ {c}
    /\ UNCHANGED <<registered, subs, handler, channel, queue, dispatch, history>>

\* The registry held the last handle of an SSE connection: once it is unregistered,
\* nobody sends to it any more and the channel is empty, its stream ends.
StreamEnds(c) ==
    /\ c \in Sse \ registered /\ hpc[c] = "open" /\ c \in rx
    /\ chan[c] = <<>> /\ \A x \in Copy : c \notin targets[x]
    /\ rx' = rx \ {c}
    /\ online' = online \ {c}
    /\ UNCHANGED <<registered, subs, handler, chan, received, queue, dispatch, history>>

\* Fault: join! for select!.
BothEnded(c) ==
    /\ hpc[c] = "open" /\ c \notin online /\ c \notin rx
    /\ hpc' = [hpc EXCEPT ![c] = "unregister"]
    /\ UNCHANGED <<registered, subs, online, pending, channel, queue, dispatch, history>>

\* The receive task saw the close or the send task ended: select! returns. The guard
\* of an SSE stream is dropped with it.
TaskEnded(c) ==
    /\ hpc[c] = "open" /\ (c \notin online \/ c \notin rx)
    /\ hpc' = [hpc EXCEPT ![c] = "unregister"]
    /\ UNCHANGED <<registered, subs, online, pending, channel, queue, dispatch, history>>

Unregister(c) ==
    /\ hpc[c] = "unregister"
    /\ hpc' = [hpc EXCEPT ![c] = "closed"]
    /\ registered' = registered \ {c}
    /\ subs' = [subs EXCEPT ![c] = {}]
    /\ UNCHANGED <<online, pending, channel, queue, dispatch, history>>

\* Fault: what was not replayed is queued again.
AbandonRequeues(c) ==
    /\ c \in Sse /\ c \notin online /\ hpc[c] \in {"drain", "replay"}
    /\ hpc' = [hpc EXCEPT ![c] = "closed"]
    /\ queue' = IF pending[c] = <<>> THEN queue ELSE [queue EXCEPT ![KeyFor(c)] = pending[c]]
    /\ pending' = [pending EXCEPT ![c] = <<>>]
    /\ rx' = rx \ {c}
    /\ chan' = [chan EXCEPT ![c] = <<>>]
    /\ UNCHANGED <<registered, subs, online, received, dispatch, history>>

\* An SSE request that is dropped before its stream exists has no CleanupGuard:
\* nothing unregisters the connection.
Abandon(c) ==
    /\ c \in Sse /\ c \notin online /\ hpc[c] \in {"drain", "replay"}
    /\ hpc' = [hpc EXCEPT ![c] = "closed"]
    /\ pending' = [pending EXCEPT ![c] = <<>>]
    /\ rx' = rx \ {c}
    /\ chan' = [chan EXCEPT ![c] = <<>>]
    /\ UNCHANGED <<registered, subs, online, received, queue, dispatch, history>>

\* The heartbeat task unregisters a connection that was silent for
\* connection_timeout; an SSE connection is always silent.
Sweep(c) ==
    /\ c \in registered
    /\ registered' = registered \ {c}
    /\ subs' = [subs EXCEPT ![c] = {}]
    /\ UNCHANGED <<online, handler, channel, queue, dispatch, history>>

----------------------------------------------------------------------------
Handle(c) == Drain(c) \/ Replay(c) \/ Open(c) \/ StreamEnds(c) \/ TaskEnded(c)
             \/ Unregister(c) \/ Abandon(c)
Dispatch(m) == \/ Lookup(m) \/ Finish(m)
               \/ \E x \in Copy : \/ Route(m, x) \/ Enqueue(m, x)
                                 \/ \E c \in Conn : Send(m, x, c)

Next ==
    \/ \E m \in Msg : Dispatch(m)
    \/ \E c \in Conn : \/ Connect(c) \/ Handle(c) \/ Forward(c) \/ DropReceiver(c)
                       \/ ClientGone(c) \/ Sweep(c) \/ Heartbeat(c) \/ Reply(c)
                       \/ \E ch \in Channel : Subscribe(c, ch)

Spec == Init /\ [][Next]_vars

\* Tasks run on and a live client reads its socket. Nobody has to connect, send or
\* disconnect, and nothing is assumed of the sweep.
Fairness ==
    /\ \A c \in Conn : WF_vars(Handle(c)) /\ WF_vars(Forward(c))
    /\ \A m \in Msg : WF_vars(dpc[m] # "new" /\ Dispatch(m))

FairSpec == Spec /\ Fairness
----------------------------------------------------------------------------
(* Properties                                                              *)

\* What has reached connection c or is on its way to it, in delivery order.
Stream(c) == received[c] \o chan[c] \o pending[c]

\* The copies among it.
Reached(c) == Range(received[c]) \cup (Range(chan[c]) \ {Frame}) \cup Range(pending[c])

Replayed(c, x) == x \in Reached(c) /\ c \notin accepted[x]

\* x comes before y in s.
Precedes(s, x, y) == \E i, j \in DOMAIN s : i < j /\ s[i] = x /\ s[j] = y

\* A client gets a message no more often than the target lists its user (once, of a
\* channel or a broadcast): no copy reaches it twice, neither by two routes (a direct
\* send and a replay) nor through two connections that drain one queue concurrently.
\* A queued copy is in the queue or with one connection (drain removes the queue).
NoDuplicate ==
    /\ \A c \in Conn : \A x \in Reached(c) : ~ Precedes(Stream(c), x, x)
    /\ \A k \in QueueKey, x \in Copy, c, d \in Conn :
          Replayed(c, x) => x \notin Range(queue[k]) /\ (Replayed(d, x) => c = d)

\* A client gets the replayed messages in the order they were queued, whatever
\* live messages come in between.
ReplayInOrder ==
    \A c \in Conn : \A x, y \in Reached(c) :
        Replayed(c, x) /\ Replayed(c, y) /\ Precedes(Stream(c), x, y)
            => Precedes(enqueued[KeyFor(c)], x, y)

\* The request meant c: its user is listed and its tenant is the request's.
Addressed(x, c) ==
    /\ Target[x[1]].kind = "users" => UserOf[c] = Listed(x)
    /\ Target[x[1]].kind # "channels" => Scope[x[1]] \in {NoTenant, TenantOf[c]}

\* User u of tenant t and user v of tenant s have the same queue key: the default
\* tenant's "acme:bob" and the bob of acme, or "b:c" of a and "c" of "a:b".
Clash(t, u, s, v) ==
    /\ s # t
    /\ \/ t = DefaultTenant /\ u = Join[<<s, v>>]
       \/ s = DefaultTenant /\ v = Join[<<t, u>>]
       \/ DefaultTenant \notin {s, t} /\ Join[<<t, u>>] = Join[<<s, v>>]

\* What is sent to a connection directly is addressed to it. What is replayed to it was
\* queued for its own user in its own tenant, unless the keys of two tenants clash.
NoStranger ==
    \A c \in Conn : \A x \in Reached(c) :
        IF Replayed(c, x)
        THEN /\ Target[x[1]].kind = "users"
             /\ \/ TenantFor(x[1]) = TenantOf[c] /\ Listed(x) = UserOf[c]
                \/ Clash(TenantFor(x[1]), Listed(x), TenantOf[c], UserOf[c])
        ELSE Addressed(x, c)

\* A copy that was queued only gets lost when the queue overflowed, its TTL passed or
\* the client of the very connection that drained it has gone; one that a channel took
\* only when the client of that connection has gone.
NoSilentLoss ==
    /\ \A k \in QueueKey : \A x \in Range(enqueued[k]) :
          \/ x \in Range(queue[k]) \cup discarded
          \/ \E c \in Conn : x \in taken[c] /\ (x \in Reached(c) \/ c \notin online)
    /\ \A x \in Copy : \A c \in accepted[x] : x \in Reached(c) \/ c \notin online

\* The replay waits for room in a channel that has no reader yet.
Hung(c) == hpc[c] = "replay" /\ pending[c] # <<>> /\ Len(chan[c]) = Capacity

\* The SSE request was dropped before its stream, and with it the guard, existed.
Abandoned(c) == c \in Sse /\ hpc[c] = "closed" /\ c \in registered

\* The handler itself unregisters a client that has gone, at whatever point of the
\* connection it went, unless it hangs in the replay or was an SSE request dropped
\* before its guard existed: those two are left to the sweep.
GoneUnregistered ==
    \A c \in Conn : (c \in registered \ online)
                        ~> (c \notin registered \/ Hung(c) \/ Abandoned(c))

\* "automatically replayed when the user reconnects": what the handler drained
\* reaches the client, unless the client goes away.
DrainedArrives ==
    \A c \in Conn : \A x \in Copy :
        x \in Range(pending[c]) ~> (x \in Range(received[c]) \/ c \notin online)

Queues == INSTANCE MessageQueue WITH
    Key <- QueueKey, Message <- Copy, Limit <- MaxQueue,
    items <- queue, left <- [k \in QueueKey |-> Range(enqueued[k]) \ Range(queue[k])]

\* Whatever the dispatches and handlers around them do, the queues behave as
\* MessageQueue promises: each keeps its limit and its order, and what a handler
\* took or the limit pushed out never comes back.
QueuePromise == Queues!QueueSpec
=============================================================================

------------------------- MODULE ConnectionManager -------------------------
(***************************************************************************)
(* The connection registry of src/domain/connection/manager.rs, at the     *)
(* granularity of its DashMap operations: every access of a map is atomic, *)
(* nothing between two accesses is.                                        *)
(*                                                                         *)
(* Three kinds of task share the registry:                                 *)
(*   - the handler of connection c (WebSocket or SSE), task c: it registers*)
(*     the connection and unregisters it when the socket is over;          *)
(*   - the receive task of c: it executes the client's subscribe and       *)
(*     unsubscribe messages one after the other, and it outlives the       *)
(*     handler's select! when the send task ended first;                   *)
(*   - the heartbeat task, Cleaner: it unregisters stale connections.      *)
(*                                                                         *)
(* user_index, tenant_index and channel_index are one map here, keyed by   *)
(* the disjoint union of users, tenants and channels: "keys" are the keys  *)
(* that have an entry and index[k] the connection ids in it.               *)
(***************************************************************************)
EXTENDS Integers, FiniteSets

CONSTANTS
    Conn,              \* connection ids (a slot is reused for a fresh uuid)
    User, Tenant, Channel,
    UserOf, TenantOf,  \* the claims a connection authenticated with
    Cleaner,           \* the heartbeat task
    NoConn, NoChannel,
    MaxConnections, MaxConnectionsPerUser, MaxSubscriptions  \* 0: no limit

Key == User \cup Tenant \cup Channel
Task == Conn \cup {Cleaner}

ASSUME ConstantsOK ==
    /\ Cleaner \notin Conn /\ NoConn \notin Conn /\ NoChannel \notin Channel
    /\ UserOf \in [Conn -> User] /\ TenantOf \in [Conn -> Tenant]
    /\ User \cap Tenant = {} /\ User \cap Channel = {} /\ Tenant \cap Channel = {}
    /\ MaxConnections \in Nat /\ MaxConnectionsPerUser \in Nat
    /\ MaxSubscriptions \in Nat
    /\ IsFiniteSet(Conn) /\ IsFiniteSet(Channel)

VARIABLES
    connections,  \* the ids in the connections map
    keys, index,  \* the three indexes
    subs,         \* subs[c]: the subscriptions set of c's handle
    idle,         \* idle[c]: now - last_activity exceeds the timeout
    pc,           \* pc[t]: where handler c or the heartbeat task stands
    todo,         \* todo[t]: the cloned subscriptions t still has to leave
    drop,         \* drop[t]: the key t found empty and is about to remove
    stale, victim,\* the heartbeat task's stale list, the id it unregisters
    rpc, rch      \* the receive tasks: where they stand, on which channel

indexes  == <<keys, index>>
sweep    == <<stale, victim>>
receiver == <<rpc, rch>>
vars == <<connections, keys, index, subs, idle, pc, todo, drop, stale, victim,
          rpc, rch>>

Registering == {"new", "user_limit", "insert", "user_index", "tenant_index"}
Unregistering == {"user", "tenant", "subscriptions", "channels"}
Label == Registering \cup Unregistering \cup {"open", "remove", "closed", "sweep"}
Receiving == {"recv", "sub_limit", "sub_insert", "sub_index",
              "unsub_remove", "unsub_index", "unsub_drop"}

TypeOK ==
    /\ connections \subseteq Conn
    /\ keys \subseteq Key
    /\ index \in [Key -> SUBSET Conn]
    /\ subs \in [Conn -> SUBSET Channel]
    /\ idle \in [Conn -> BOOLEAN]
    /\ pc \in [Task -> Label]
    /\ todo \in [Task -> SUBSET Channel]
    /\ drop \in [Task -> SUBSET Key]
    /\ stale \subseteq Conn
    /\ victim \in Conn \cup {NoConn}
    /\ rpc \in [Conn -> Receiving]
    /\ rch \in [Conn -> Channel \cup {NoChannel}]

Init ==
    /\ connections = {}
    /\ keys = {}
    /\ index = [k \in Key |-> {}]
    /\ subs = [c \in Conn |-> {}]
    /\ idle = [c \in Conn |-> FALSE]
    /\ pc = [t \in Task |-> IF t = Cleaner THEN "sweep" ELSE "new"]
    /\ todo = [t \in Task |-> {}]
    /\ drop = [t \in Task |-> {}]
    /\ stale = {}
    /\ victim = NoConn
    /\ rpc = [c \in Conn |-> "recv"]
    /\ rch = [c \in Conn |-> NoChannel]

Goto(t, label) == pc' = [pc EXCEPT ![t] = label]

----------------------------------------------------------------------------
(* register_with_limits, executed by the handler of c                      *)

\* Fault: the limit is compared with > instead of >=.
AtLimitOffByOne(count, max) == max > 0 /\ count > max

AtLimit(count, max) == max > 0 /\ count >= max

\* A slot stands for a fresh uuid: it is free once nothing refers to the old one.
FreshId(c) ==
    /\ pc[c] \in {"new", "closed"}
    /\ rpc[c] = "recv"
    /\ c \notin stale /\ victim # c
    /\ \A k \in Key : c \notin index[k]

CheckTotal(c) ==
    /\ FreshId(c)
    /\ Goto(c, IF AtLimit(Cardinality(connections), MaxConnections)
               THEN "closed" ELSE "user_limit")
    /\ UNCHANGED <<connections, indexes, subs, idle, todo, drop, sweep, receiver>>

CheckUser(c) ==
    /\ pc[c] = "user_limit"
    /\ Goto(c, IF AtLimit(Cardinality(index[UserOf[c]]), MaxConnectionsPerUser)
               THEN "closed" ELSE "insert")
    /\ UNCHANGED <<connections, indexes, subs, idle, todo, drop, sweep, receiver>>

\* ConnectionHandle::new (empty subscriptions, activity now), then the insert.
Insert(c) ==
    /\ pc[c] = "insert"
    /\ connections' = connections \cup {c}
    /\ subs' = [subs EXCEPT ![c] = {}]
    /\ idle' = [idle EXCEPT ![c] = FALSE]
    /\ Goto(c, "user_index")
    /\ UNCHANGED <<indexes, todo, drop, sweep, receiver>>

\* Fault: the key is pushed instead of the connection id.
AddKeyToEntry(k, c) ==
    /\ keys' = keys \cup {k}
    /\ index' = [index EXCEPT ![k] = @ \cup {k}]

\* entry(k).or_default().insert(c)
AddToEntry(k, c) ==
    /\ keys' = keys \cup {k}
    /\ index' = [index EXCEPT ![k] = @ \cup {c}]

PushUser(c) ==
    /\ pc[c] = "user_index"
    /\ AddToEntry(UserOf[c], c)
    /\ Goto(c, "tenant_index")
    /\ UNCHANGED <<connections, subs, idle, todo, drop, sweep, receiver>>

PushTenant(c) ==
    /\ pc[c] = "tenant_index"
    /\ AddToEntry(TenantOf[c], c)
    /\ Goto(c, "open")
    /\ UNCHANGED <<connections, subs, idle, todo, drop, sweep, receiver>>

----------------------------------------------------------------------------
(* unregister, executed by the handler of c or by the heartbeat task       *)

Target(t) == IF t = Cleaner THEN victim ELSE t
Return(t) == IF t = Cleaner THEN "sweep" ELSE "closed"

\* The socket is over: the select! returns and the handler calls unregister.
Disconnect(c) ==
    /\ pc[c] = "open"
    /\ Goto(c, "remove")
    /\ UNCHANGED <<connections, indexes, subs, idle, todo, drop, sweep, receiver>>

\* Fault: subscribe clones the handle and lets go of the guard.
GuardNotHeld(c) == rpc[c] \in Receiving

\* connections.remove waits for the guards subscribe and unsubscribe hold.
GuardFree(c) == rpc[c] = "recv"

\* Fault: unregister goes on although the id had been removed by somebody else.
RemoveUnchecked(t) ==
    /\ pc[t] = "remove"
    /\ GuardFree(Target(t))
    /\ connections' = connections \ {Target(t)}
    /\ Goto(t, "user")
    /\ UNCHANGED <<indexes, subs, idle, todo, drop, sweep, receiver>>

Remove(t) ==
    /\ pc[t] = "remove"
    /\ GuardFree(Target(t))
    /\ connections' = connections \ {Target(t)}
    /\ Goto(t, IF Target(t) \in connections THEN "user" ELSE Return(t))
    /\ victim' = IF t = Cleaner /\ victim \notin connections THEN NoConn ELSE victim
    /\ UNCHANGED <<indexes, subs, idle, todo, drop, stale, receiver>>

\* Fault: an entry that became empty is not removed.
LeaveEntryEmpty(t, k) ==
    /\ index' = [index EXCEPT ![k] = @ \ {Target(t)}]
    /\ UNCHANGED drop

\* get_mut(k), remove the id, and note whether the entry is now empty.
LeaveEntry(t, k) ==
    /\ drop[t] = {}
    /\ index' = [index EXCEPT ![k] = @ \ {Target(t)}]
    /\ drop' = [drop EXCEPT ![t] = IF k \in keys /\ index'[k] = {} THEN {k} ELSE {}]

LeaveUser(t) ==
    /\ pc[t] = "user"
    /\ LeaveEntry(t, UserOf[Target(t)])
    /\ Goto(t, "tenant")
    /\ UNCHANGED <<connections, keys, subs, idle, todo, sweep, receiver>>

LeaveTenant(t) ==
    /\ pc[t] = "tenant"
    /\ LeaveEntry(t, TenantOf[Target(t)])
    /\ Goto(t, "subscriptions")
    /\ UNCHANGED <<connections, keys, subs, idle, todo, sweep, receiver>>

\* Fault: unregister does not look at the handle's subscriptions.
ReadNoSubscriptions(t) ==
    /\ pc[t] = "subscriptions"
    /\ drop[t] = {}
    /\ Goto(t, "channels")
    /\ UNCHANGED <<connections, indexes, subs, idle, todo, drop, sweep, receiver>>

ReadSubscriptions(t) ==
    /\ pc[t] = "subscriptions"
    /\ drop[t] = {}
    /\ todo' = [todo EXCEPT ![t] = subs[Target(t)]]
    /\ Goto(t, "channels")
    /\ UNCHANGED <<connections, indexes, subs, idle, drop, sweep, receiver>>

LeaveChannel(t) ==
    /\ pc[t] = "channels"
    /\ \E ch \in todo[t] :
          /\ LeaveEntry(t, ch)
          /\ todo' = [todo EXCEPT ![t] = @ \ {ch}]
    /\ UNCHANGED <<connections, keys, subs, idle, pc, sweep, receiver>>

\* The guard was dropped above; remove(k) takes whatever the entry holds now.
RemoveEntry(k) ==
    /\ keys' = keys \ {k}
    /\ index' = [index EXCEPT ![k] = {}]

DropEntry(t) ==
    /\ \E k \in drop[t] : RemoveEntry(k)
    /\ drop' = [drop EXCEPT ![t] = {}]
    /\ UNCHANGED <<connections, subs, idle, pc, todo, sweep, receiver>>

Unregistered(t) ==
    /\ pc[t] = "channels"
    /\ drop[t] = {} /\ todo[t] = {}
    /\ Goto(t, Return(t))
    /\ victim' = IF t = Cleaner THEN NoConn ELSE victim
    /\ UNCHANGED <<connections, indexes, subs, idle, todo, drop, stale, receiver>>

----------------------------------------------------------------------------
(* Subscriptions and activity, executed by the receive task of c           *)

Running(c) == pc[c] \in {"open", "remove"} \cup Unregistering

\* connections.get: the guard is held until the receive task is back at "recv".
\* A connection that is gone gets "Connection not found" and nothing changes.
Begin(c, label) ==
    /\ Running(c) /\ rpc[c] = "recv"
    /\ idle' = [idle EXCEPT ![c] = FALSE]
    /\ IF c \in connections
       THEN /\ \E ch \in Channel : rch' = [rch EXCEPT ![c] = ch]
            /\ rpc' = [rpc EXCEPT ![c] = label]
       ELSE UNCHANGED receiver
    /\ UNCHANGED <<connections, indexes, subs, pc, todo, drop, sweep>>

Subscribe(c) == Begin(c, "sub_limit")
Unsubscribe(c) == Begin(c, "unsub_remove")

RecvStep(c, from, to) ==
    /\ rpc[c] = from
    /\ rpc' = [rpc EXCEPT ![c] = to]
    /\ rch' = [rch EXCEPT ![c] = IF to = "recv" THEN NoChannel ELSE @]

CheckSubscriptions(c) ==
    /\ RecvStep(c, "sub_limit", IF AtLimit(Cardinality(subs[c]), MaxSubscriptions)
                                THEN "recv" ELSE "sub_insert")
    /\ UNCHANGED <<connections, indexes, subs, idle, pc, todo, drop, sweep>>

InsertSubscription(c) ==
    /\ RecvStep(c, "sub_insert", "sub_index")
    /\ subs' = [subs EXCEPT ![c] = @ \cup {rch[c]}]
    /\ UNCHANGED <<connections, indexes, idle, pc, todo, drop, sweep>>

IndexSubscription(c) ==
    /\ RecvStep(c, "sub_index", "recv")
    /\ AddToEntry(rch[c], c)
    /\ UNCHANGED <<connections, subs, idle, pc, todo, drop, sweep>>

RemoveSubscription(c) ==
    /\ RecvStep(c, "unsub_remove", "unsub_index")
    /\ subs' = [subs EXCEPT ![c] = @ \ {rch[c]}]
    /\ UNCHANGED <<connections, indexes, idle, pc, todo, drop, sweep>>

\* Fault: unsubscribe forgets the channel index.
UnindexNothing(c) ==
    /\ RecvStep(c, "unsub_index", "recv")
    /\ UNCHANGED <<connections, indexes, subs, idle, pc, todo, drop, sweep>>

UnindexSubscription(c) ==
    /\ rpc[c] = "unsub_index"
    /\ index' = [index EXCEPT ![rch[c]] = @ \ {c}]
    /\ RecvStep(c, "unsub_index", IF rch[c] \in keys /\ index'[rch[c]] = {}
                                  THEN "unsub_drop" ELSE "recv")
    /\ UNCHANGED <<connections, keys, subs, idle, pc, todo, drop, sweep>>

DropChannel(c) ==
    /\ RecvStep(c, "unsub_drop", "recv")
    /\ RemoveEntry(rch[c])
    /\ UNCHANGED <<connections, subs, idle, pc, todo, drop, sweep>>

\* Any other client frame: update_activity.
Activity(c) ==
    /\ Running(c) /\ rpc[c] = "recv"
    /\ idle' = [idle EXCEPT ![c] = FALSE]
    /\ UNCHANGED <<connections, indexes, subs, pc, todo, drop, sweep, receiver>>

\* connection_timeout seconds pass without a frame of c. Registering is
\* straight-line code, so no timeout elapses inside it.
TimePasses(c) ==
    /\ c \in connections /\ pc[c] \notin Registering
    /\ idle' = [idle EXCEPT ![c] = TRUE]
    /\ UNCHANGED <<connections, indexes, subs, pc, todo, drop, sweep, receiver>>

----------------------------------------------------------------------------
(* cleanup_stale_connections, executed by the heartbeat task               *)

\* Fault: the comparison with the timeout is inverted.
FindActive ==
    /\ pc[Cleaner] = "sweep" /\ stale = {}
    /\ stale' = {c \in connections : ~idle[c]}
    /\ UNCHANGED <<connections, indexes, subs, idle, pc, todo, drop, victim, receiver>>

FindStale ==
    /\ pc[Cleaner] = "sweep" /\ stale = {}
    /\ stale' = {c \in connections : idle[c]}
    /\ UNCHANGED <<connections, indexes, subs, idle, pc, todo, drop, victim, receiver>>

NextStale ==
    /\ pc[Cleaner] = "sweep"
    /\ \E c \in stale : stale' = stale \ {c} /\ victim' = c
    /\ Goto(Cleaner, "remove")
    /\ UNCHANGED <<connections, indexes, subs, idle, todo, drop, receiver>>

----------------------------------------------------------------------------
Register(c) == CheckTotal(c) \/ CheckUser(c) \/ Insert(c) \/ PushUser(c) \/ PushTenant(c)
Unindex(t) == LeaveUser(t) \/ LeaveTenant(t) \/ ReadSubscriptions(t)
              \/ LeaveChannel(t) \/ DropEntry(t) \/ Unregistered(t)
Serve(c) == CheckSubscriptions(c) \/ InsertSubscription(c) \/ IndexSubscription(c)
            \/ RemoveSubscription(c) \/ UnindexSubscription(c) \/ DropChannel(c)

Next ==
    \/ \E c \in Conn : \/ Register(c) \/ Disconnect(c)
                       \/ Subscribe(c) \/ Unsubscribe(c) \/ Serve(c)
                       \/ Activity(c) \/ TimePasses(c)
    \/ \E t \in Task : Remove(t) \/ Unindex(t)
    \/ FindStale \/ NextStale

Spec == Init /\ [][Next]_vars

\* Tasks that were started run on; the writer of a shard lock that is free
\* again and again gets it. Clients owe nothing.
Fairness ==
    /\ \A c \in Conn : WF_vars(Serve(c))
    /\ \A t \in Task : WF_vars(Unindex(t)) /\ SF_vars(Remove(t))
    /\ WF_vars(FindStale) /\ WF_vars(NextStale)

FairSpec == Spec /\ Fairness
----------------------------------------------------------------------------
(* Properties                                                              *)

Unregisters(t, c) == pc[t] \in Unregistering /\ Target(t) = c

\* The entries the unregister that t executes has not left yet.
Ahead(t) ==
    LET c == Target(t)
    IN  (IF pc[t] = "user" THEN {UserOf[c]} ELSE {})
        \cup (IF pc[t] \in {"user", "tenant"} THEN {TenantOf[c]} ELSE {})
        \cup (IF pc[t] = "channels" THEN todo[t] ELSE subs[c])

\* An id that is in some index but no longer in connections is on its way out:
\* an unregister of it is running that still has this entry ahead. So once
\* unregister returned, no index holds the id, whatever subscribes, unsubscribes
\* and second unregisters ran beside it (unregister, manager.rs:138-177).
NoLeak ==
    \A k \in Key : \A c \in index[k] :
        c \in connections \/ \E t \in Task : Unregisters(t, c) /\ k \in Ahead(t)

\* A live connection is found under a channel only while it is subscribed to it
\* or its unsubscribe is still running, and under a user or tenant only if it is
\* its own: nobody receives what he left or what is another's.
NoForeignEntry ==
    \A k \in Key : \A c \in index[k] \cap connections :
        \/ k \in {UserOf[c], TenantOf[c]} \cup subs[c]
        \/ rpc[c] = "unsub_index" /\ rch[c] = k

\* An entry without ids is about to be removed by the task that emptied it, so no
\* ghost user, tenant or channel stays listed (list_channels, channel_exists).
NoGhostEntry ==
    \A k \in keys : index[k] = {} =>
        \/ \E t \in Task : k \in drop[t]
        \/ \E c \in Conn : rpc[c] = "unsub_drop" /\ rch[c] = k

\* The handler and the heartbeat task never both unregister one connection:
\* connections.remove hands the handle to one of them.
SingleUnregister ==
    \A t, u \in Task : \A c \in Conn :
        Unregisters(t, c) /\ Unregisters(u, c) => t = u

\* max_subscriptions_per_connection holds although the check and the insert are
\* separate steps: only c's own receive task touches its subscriptions.
SubscriptionLimit ==
    MaxSubscriptions > 0 => \A c \in Conn : Cardinality(subs[c]) <= MaxSubscriptions

\* No step puts an id that has left connections into an index: the guard that
\* subscribe holds keeps unregister out until the index is written.
OnlyLiveIndexed ==
    [][\A k \in Key : \A c \in index'[k] \ index[k] : c \in connections]_vars

\* An id that left connections leaves every index it is in.
Forgotten ==
    \A c \in Conn : \A k \in Key :
        (c \in index[k] /\ c \notin connections) ~> c \notin index[k]

\* A connection that stays inactive is removed by the heartbeat task (or by its
\* own handler), although the sweep's remove has to wait for the guard that the
\* connection's subscribes take again and again.
StaleRemoved ==
    \A c \in Conn : (c \in connections /\ idle[c]) ~> (c \notin connections \/ ~idle[c])

----------------------------------------------------------------------------
(* The inductive invariant behind the properties above                     *)

\* Where the tasks can stand: a connection is registered once, by its handler,
\* before anybody can sweep it, and unregistered once.
Stages ==
    /\ pc[Cleaner] \in {"sweep", "remove"} \cup Unregistering
    /\ pc[Cleaner] # "sweep" => victim \in Conn
    /\ pc[Cleaner] \in Unregistering => victim \notin connections
    /\ \A c \in Conn :
          /\ pc[c] # "sweep"
          /\ c \in connections => pc[c] \in {"user_index", "tenant_index", "open", "remove"}
          /\ pc[c] \in {"user_index", "tenant_index"} => c \in connections /\ ~idle[c]
          /\ c \in stale \/ victim = c => pc[c] \notin Registering
          /\ pc[c] \in Unregistering => ~ Unregisters(Cleaner, c)

\* A receive task between two of its steps holds the guard of a live connection.
Guards ==
    \A c \in Conn : rpc[c] # "recv" =>
        /\ c \in connections
        /\ rch[c] \in Channel
        /\ rpc[c] = "sub_index" => rch[c] \in subs[c]

\* Every entry belongs to the handle of the id it holds.
Entries ==
    \A c \in Conn :
        /\ \A u \in User : c \in index[u] => u = UserOf[c]
        /\ \A t \in Tenant : c \in index[t] => t = TenantOf[c]
        /\ \A ch \in Channel : c \in index[ch] =>
              ch \in subs[c] \/ (rpc[c] = "unsub_index" /\ rch[c] = ch)

Drops == \A t \in Task : drop[t] = {} \/ \E k \in Key : drop[t] = {k}

Room == MaxSubscriptions > 0 =>
    \A c \in Conn : rpc[c] = "sub_insert" => Cardinality(subs[c]) < MaxSubscriptions

IInv == TypeOK /\ Stages /\ Guards /\ Entries /\ NoLeak

----------------------------------------------------------------------------
(* What the documentation says and a concurrent register refutes           *)

\* "Get all connections for a user": a live, fully registered connection is found
\* under its user.
UserReachable ==
    \A c \in connections : pc[c] = "open" => c \in index[UserOf[c]]
=============================================================================

----------------------------- MODULE SessionStore -----------------------------
(***************************************************************************)
(* The sessions one server keeps in Redis for its connections: how the     *)
(* WebSocket and SSE handlers register, update and unregister them, and    *)
(* how the heartbeat task keeps them from expiring. All connections belong *)
(* to one user. Time is counted in heartbeat periods.                      *)
(*                                                                         *)
(* Commands of one server travel over one connection, so that a pipeline   *)
(* is one step. A call that fails may or may not have been executed. The   *)
(* contents of a session are left out, and so are the user and channel     *)
(* indices and the counters the store keeps beside the sessions: nothing   *)
(* the program runs reads them.                                            *)
(***************************************************************************)
EXTENDS Integers, FiniteSets

CONSTANTS
    Ws, Sse,       \* connections, by handler
    SessionTtl,    \* session_ttl_seconds, in heartbeat periods
    Shards         \* shards of local_connections

ASSUME StoreConstants ==
    /\ Ws \cap Sse = {}
    /\ SessionTtl \in Nat \ {0}
    /\ Shards \in Nat \ {0}

Conn == Ws \cup Sse

VARIABLES
    hpc,       \* hpc[c]: where the handler of c stands
    upd,       \* upd[c]: where the receive task of c stands in update_session_channels
    local,     \* local_connections
    shard,     \* shard[c]: the shard of local_connections c hashes to
    ttl,       \* ttl[c]: periods until the session of c expires, 0 when it is not there
    hb,        \* the heartbeat task
    cur,       \* the shard whose guard its iterator holds
    todo,      \* what is left of that shard
    due,       \* this period's refresh has not ended
    missed     \* history: periods in a row whose refresh failed or did not run

handlers == <<hpc, upd>>
refresh == <<hb, cur, todo, due, missed>>
vars == <<handlers, local, shard, ttl, refresh>>

HandlerStates ==
    {"none", "registering", "insert", "replay", "open", "closing", "lookup",
     "delete", "gone", "abandoned"}

TypeOK ==
    /\ hpc \in [Conn -> HandlerStates]
    /\ upd \in [Conn -> {"idle", "get", "set", "ended"}]
    /\ local \subseteq Conn
    /\ shard \in [Conn -> 1..Shards]
    /\ ttl \in [Conn -> 0..SessionTtl]
    /\ hb \in {"idle", "scan", "stopped", "stuck"}
    /\ cur \in 1..Shards
    /\ todo \subseteq Conn
    /\ due \in BOOLEAN
    /\ missed \in 0..SessionTtl

Init ==
    /\ hpc = [c \in Conn |-> "none"]
    /\ upd = [c \in Conn |-> "ended"]
    /\ local = {}
    /\ shard \in [Conn -> 1..Shards]
    /\ ttl = [c \in Conn |-> 0]
    /\ hb = "idle" /\ cur = 1 /\ todo = {} /\ due = FALSE /\ missed = 0

Step(c, from, to) == hpc[c] = from /\ hpc' = [hpc EXCEPT ![c] = to]

\* The iterator of refresh_sessions keeps its guard while it awaits Redis, and
\* for good once it waits for itself.
Guarded(c) == hb \in {"scan", "stuck"} /\ shard[c] = cur

----------------------------------------------------------------------------
(* The handlers                                                            *)

\* The connection is in the ConnectionManager and its session about to be written.
Arrive(c) ==
    /\ Step(c, "none", "registering")
    /\ UNCHANGED <<upd, local, shard, ttl, refresh>>

\* Fault: the session gets the TTL of the set of all users.
SetSessionTwice(c) == ttl' = [ttl EXCEPT ![c] = 2 * SessionTtl]

\* The pipeline of register_session.
SetSession(c) == ttl' = [ttl EXCEPT ![c] = SessionTtl]

RegisterSession(c) ==
    /\ \/ SetSession(c) /\ Step(c, "registering", "insert")
       \/ (SetSession(c) \/ UNCHANGED ttl) /\ Step(c, "registering", "replay")
    /\ UNCHANGED <<upd, local, shard, refresh>>

LocalInsert(c) ==
    /\ ~Guarded(c)
    /\ Step(c, "insert", "replay")
    /\ local' = local \cup {c}
    /\ UNCHANGED <<upd, shard, ttl, refresh>>

\* The queue is replayed; then a WebSocket gets its two tasks, an SSE stream its
\* cleanup guard.
Opened(c) ==
    /\ Step(c, "replay", "open")
    /\ upd' = [upd EXCEPT ![c] = IF c \in Ws THEN "idle" ELSE "ended"]
    /\ UNCHANGED <<local, shard, ttl, refresh>>

\* The client of an SSE request leaves before the guard exists: the handler is
\* dropped at an await and nothing cleans up after it.
Abandon(c) ==
    /\ c \in Sse
    /\ \/ Step(c, "registering", "abandoned") /\ (SetSession(c) \/ UNCHANGED ttl)
       \/ Step(c, "replay", "abandoned") /\ UNCHANGED ttl
    /\ UNCHANGED <<upd, local, shard, refresh>>

\* One of the two tasks ended, or the SSE stream was dropped.
Close(c) ==
    /\ Step(c, "open", "closing")
    /\ UNCHANGED <<upd, local, shard, ttl, refresh>>

\* Fault: the connection to Redis is fetched before the entry is removed, and the
\* call returns when that fails.
LocalRemoveLate(c) ==
    /\ ~Guarded(c)
    /\ \/ Step(c, "closing", "gone") /\ UNCHANGED local
       \/ Step(c, "closing", "lookup") /\ local' = local \ {c}
    /\ UNCHANGED <<upd, shard, ttl, refresh>>

LocalRemove(c) ==
    /\ ~Guarded(c)
    /\ Step(c, "closing", "lookup")
    /\ local' = local \ {c}
    /\ UNCHANGED <<upd, shard, ttl, refresh>>

\* The session is read; it may be gone, or Redis away.
Lookup(c) ==
    /\ \/ Step(c, "lookup", "gone")
       \/ ttl[c] > 0 /\ Step(c, "lookup", "delete")
    /\ UNCHANGED <<upd, local, shard, ttl, refresh>>

Delete(c) ==
    /\ Step(c, "delete", "gone")
    /\ ttl' = [ttl EXCEPT ![c] = 0] \/ UNCHANGED ttl
    /\ UNCHANGED <<upd, local, shard, refresh>>

\* A Subscribe or Unsubscribe of the client: the receive task is not stopped when
\* the handler closes. Subscribing fails once the manager forgot the connection,
\* unsubscribing updates the session all the same.
Update(c) ==
    /\ upd[c] = "idle"
    /\ upd' = [upd EXCEPT ![c] = "get"]
    /\ UNCHANGED <<hpc, local, shard, ttl, refresh>>

ReadSession(c) ==
    /\ upd[c] = "get"
    /\ \/ upd' = [upd EXCEPT ![c] = "idle"]
       \/ ttl[c] > 0 /\ upd' = [upd EXCEPT ![c] = "set"]
    /\ UNCHANGED <<hpc, local, shard, ttl, refresh>>

\* SET with the full TTL, whatever became of the session since it was read.
WriteSession(c) ==
    /\ upd[c] = "set"
    /\ upd' = [upd EXCEPT ![c] = "idle"]
    /\ ttl' = [ttl EXCEPT ![c] = SessionTtl] \/ UNCHANGED ttl
    /\ UNCHANGED <<hpc, local, shard, refresh>>

ReceiveEnds(c) ==
    /\ upd[c] = "idle"
    /\ upd' = [upd EXCEPT ![c] = "ended"]
    /\ UNCHANGED <<hpc, local, shard, ttl, refresh>>

----------------------------------------------------------------------------
(* refresh_sessions                                                        *)

InShard(k) == {c \in local : shard[c] = k}
AnotherMiss == IF missed < SessionTtl THEN missed + 1 ELSE missed

\* The call returns with an error: the next attempt is a period away.
GiveUp ==
    /\ hb' = "idle" /\ todo' = {} /\ due' = FALSE /\ missed' = AnotherMiss
    /\ UNCHANGED cur

BeginRefresh ==
    /\ hb = "idle" /\ due
    /\ \/ GiveUp
       \/ hb' = "scan" /\ cur' = 1 /\ todo' = InShard(1) /\ UNCHANGED <<due, missed>>
    /\ UNCHANGED <<handlers, local, shard, ttl>>

\* Fault: an error is taken for a missing session.
RefreshMistakes(c) ==
    /\ hb = "scan" /\ c \in todo
    /\ \/ /\ ttl[c] > 0
          /\ ttl' = [ttl EXCEPT ![c] = SessionTtl]
          /\ todo' = todo \ {c}
          /\ UNCHANGED hb
       \/ hb' = "stuck" /\ UNCHANGED <<ttl, todo>>
    /\ UNCHANGED <<handlers, local, shard, cur, due, missed>>

\* EXPIRE. When the session is not there any more, the loop removes the entry from
\* the map whose shard it has locked, and waits for itself.
RefreshOne(c) ==
    /\ hb = "scan" /\ c \in todo
    /\ \/ /\ ttl[c] > 0
          /\ ttl' = [ttl EXCEPT ![c] = SessionTtl]
          /\ todo' = todo \ {c}
          /\ UNCHANGED <<hb, cur, due, missed>>
       \/ /\ ttl[c] = 0
          /\ hb' = "stuck"
          /\ UNCHANGED <<ttl, cur, todo, due, missed>>
       \/ /\ ttl' = ttl \/ (ttl[c] > 0 /\ ttl' = [ttl EXCEPT ![c] = SessionTtl])
          /\ GiveUp
    /\ UNCHANGED <<handlers, local, shard>>

\* Fault: the iterator stops at the first shard.
RefreshEndsEarly ==
    /\ hb = "scan" /\ todo = {}
    /\ hb' = "idle" /\ due' = FALSE /\ missed' = 0 /\ UNCHANGED <<cur, todo>>
    /\ UNCHANGED <<handlers, local, shard, ttl>>

\* The iterator goes on to the next shard, or the counter is refreshed and the
\* call returns.
NextShard ==
    /\ hb = "scan" /\ todo = {}
    /\ IF cur < Shards
       THEN cur' = cur + 1 /\ todo' = InShard(cur + 1) /\ UNCHANGED <<hb, due, missed>>
       ELSE hb' = "idle" /\ due' = FALSE /\ missed' = 0 /\ UNCHANGED <<cur, todo>>
    /\ UNCHANGED <<handlers, local, shard, ttl>>

\* A heartbeat period passes. Nothing is awaited between the pipeline's reply and
\* the insertion, and a refresh takes less than a period.
Tick ==
    /\ \A c \in Conn : hpc[c] # "insert" \/ Guarded(c)
    /\ due => hb \in {"stopped", "stuck"}
    /\ due' = TRUE
    /\ missed' = IF due THEN AnotherMiss ELSE missed
    /\ ttl' = [c \in Conn |-> IF ttl[c] > 0 THEN ttl[c] - 1 ELSE 0]
    /\ UNCHANGED <<handlers, local, shard, hb, cur, todo>>

StopHeartbeat ==
    /\ hb = "idle" /\ hb' = "stopped"
    /\ UNCHANGED <<handlers, local, shard, ttl, cur, todo, due, missed>>

\* The process is gone, and with it all further refreshes; what it left in Redis is not.
Crash ==
    /\ hpc' = [c \in Conn |-> IF hpc[c] = "none" THEN "none" ELSE "gone"]
    /\ upd' = [c \in Conn |-> "ended"]
    /\ local' = {}
    /\ hb' = "stopped" /\ todo' = {} /\ due' = TRUE /\ missed' = SessionTtl
    /\ UNCHANGED <<shard, ttl, cur>>

HandlerStep(c) ==
    \/ RegisterSession(c) \/ LocalInsert(c) \/ Opened(c)
    \/ LocalRemove(c) \/ Lookup(c) \/ Delete(c) \/ ReadSession(c) \/ WriteSession(c)

ClientStep(c) == Arrive(c) \/ Abandon(c) \/ Close(c) \/ Update(c) \/ ReceiveEnds(c)

RefreshStep == BeginRefresh \/ NextShard \/ \E c \in Conn : RefreshOne(c)

Next ==
    \/ \E c \in Conn : HandlerStep(c) \/ ClientStep(c)
    \/ RefreshStep \/ StopHeartbeat \/ Tick \/ Crash

\* Tasks are scheduled, Redis answers or a call fails, and time passes. Clients
\* owe nothing, except that a socket that failed does not deliver for ever, and
\* the heartbeat task stops only when the server is told to.
Fairness ==
    /\ \A c \in Conn : WF_vars(HandlerStep(c)) /\ SF_vars(hpc[c] = "gone" /\ ReceiveEnds(c))
    /\ WF_vars(RefreshStep) /\ WF_vars(Tick)

Spec == Init /\ [][Next]_vars /\ Fairness

----------------------------------------------------------------------------

\* Every connection the server tracks can be located in the cluster: its session
\* lives at least as long as the refreshes that failed or did not run allow. The
\* entry is made after the session and removed before it, each round visits every
\* entry, and one that ends early counts as missed.
Located ==
    \A c \in local : ttl[c] + missed + (IF due THEN 1 ELSE 0) >= SessionTtl

\* The heartbeat task deadlocks with itself (refresh_sessions removes from the map
\* it is iterating over) only after refreshes failed for the life of a session: a
\* connection that closes during a round never makes it happen.
StuckByExpiry == hb = "stuck" => missed + 1 >= SessionTtl

\* The session of a connection that ended is gone after a while, although the
\* deletion may fail, the process may die, and a late update may write it again.
GhostsExpire == \A c \in Conn : hpc[c] = "gone" ~> ttl[c] = 0
=============================================================================

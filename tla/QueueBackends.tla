----------------------------- MODULE QueueBackends -----------------------------
(***************************************************************************)
(* The offline queue of one user on the three MessageQueueBackends, under  *)
(* concurrent enqueues and drains, failing calls and a restart of the      *)
(* server. Each message is enqueued by one dispatch, each drain is that of *)
(* one connecting client. A call that fails may or may not have been       *)
(* executed.                                                               *)
(*                                                                         *)
(* Messages are ordered by queued_at, that is by their position in log.    *)
(***************************************************************************)
EXTENDS Naturals, Sequences, FiniteSets, SequencesExt

CONSTANTS
    Msg, Drain,
    MaxQueue,      \* max_queue_size_per_user
    NoMsg

ASSUME QueueConstants == MaxQueue \in Nat \ {0} /\ NoMsg \notin Msg

VARIABLES
    backend,     \* what create_queue_backend returned
    stored,      \* the user's queue: a VecDeque, a stream or rows
    log,         \* history: messages by queued_at
    expired,     \* messages older than message_ttl_seconds
    epc,         \* epc[m]: where the enqueue of m stands
    victim,      \* victim[m]: the row the snapshot of m's enqueue chose to drop
    dpc,         \* dpc[d]: where drain d stands
    hand,        \* hand[d]: what it read, or removed without knowing
    got,         \* got[d]: what it returned
    late,        \* history: enqueued between the two commands of a Redis drain
    rivals,      \* history: PostgreSQL enqueues whose snapshots overlapped
    overlap,     \* history: pairs of Redis drains that overlapped
    before       \* history: enqueued before a restart

queueVars == <<stored, log, late, rivals>>
enqueueVars == <<epc, victim>>
drainVars == <<dpc, hand, got, overlap>>
vars == <<backend, queueVars, expired, enqueueVars, drainVars, before>>

TypeOK ==
    /\ backend \in {"memory", "redis", "postgres"}
    /\ stored \subseteq Range(log) /\ expired \subseteq Range(log)
    /\ log \in Seq(Msg) /\ IsInjective(log)
    /\ epc \in [Msg -> {"new", "snapshot", "ok", "failed"}]
    /\ victim \in [Msg -> Msg \cup {NoMsg}]
    /\ dpc \in [Drain -> {"new", "read", "second", "ok", "failed"}]
    /\ hand \in [Drain -> SUBSET Range(log)]
    /\ got \in [Drain -> SUBSET Range(log)]
    /\ late \subseteq Msg /\ rivals \subseteq Msg /\ before \subseteq Msg
    /\ overlap \subseteq Drain \X Drain

Init ==
    /\ backend \in {"memory", "redis", "postgres"}
    /\ stored = {} /\ log = <<>> /\ expired = {}
    /\ epc = [m \in Msg |-> "new"] /\ victim = [m \in Msg |-> NoMsg]
    /\ dpc = [d \in Drain |-> "new"]
    /\ hand = [d \in Drain |-> {}] /\ got = [d \in Drain |-> {}]
    /\ late = {} /\ rivals = {} /\ overlap = {} /\ before = {}

\* n was queued before m.
Older(n, m) == \E i, j \in DOMAIN log : i < j /\ log[i] = n /\ log[j] = m

\* The k oldest messages of the queue.
Oldest(k) == {m \in stored : Cardinality({n \in stored : Older(n, m)}) < k}

Size == Cardinality(stored)

EnqueueEnds(m, r) == epc' = [epc EXCEPT ![m] = r]

----------------------------------------------------------------------------
(* enqueue                                                                 *)

\* Fault: the queue is full only when it is over its limit.
EnqueueOverMemory(m) ==
    /\ backend = "memory" /\ epc[m] = "new"
    /\ log' = Append(log, m)
    /\ stored' = (IF Size > MaxQueue THEN stored \ Oldest(1) ELSE stored) \cup {m}
    /\ EnqueueEnds(m, "ok")
    /\ UNCHANGED <<backend, expired, victim, drainVars, late, rivals, before>>

\* Under the entry's lock.
EnqueueMemory(m) ==
    /\ backend = "memory" /\ epc[m] = "new"
    /\ log' = Append(log, m)
    /\ stored' = (IF Size >= MaxQueue THEN stored \ Oldest(1) ELSE stored) \cup {m}
    /\ EnqueueEnds(m, "ok")
    /\ UNCHANGED <<backend, expired, victim, drainVars, late, rivals, before>>

\* XADD MAXLEN ~: Redis trims when it suits it, and never below the limit.
Trim(m) ==
    \E k \in 0..Size :
        /\ k > 0 => Size + 1 - k >= MaxQueue
        /\ stored' = (stored \ Oldest(k)) \cup {m}

\* Fault: a command whose reply was lost is sent again.
EnqueueRedisAgain(m) ==
    /\ backend = "redis" /\ epc[m] = "new"
    /\ log' \in {Append(log, m), log \o <<m, m>>} /\ Trim(m)
    /\ EnqueueEnds(m, "ok")
    /\ UNCHANGED <<backend, expired, victim, drainVars, late, rivals, before>>

EnqueueRedis(m) ==
    /\ backend = "redis" /\ epc[m] = "new"
    /\ \/ /\ log' = Append(log, m) /\ Trim(m)
          /\ late' = IF \E d \in Drain : dpc[d] = "read" THEN late \cup {m} ELSE late
          /\ EnqueueEnds(m, "ok") \/ EnqueueEnds(m, "failed")
       \/ EnqueueEnds(m, "failed") /\ UNCHANGED <<log, stored, late>>
    /\ UNCHANGED <<backend, expired, victim, drainVars, rivals, before>>

\* The statement starts: NOW() and its snapshot, with the row to drop, are fixed.
StartPostgres(m) ==
    /\ backend = "postgres" /\ epc[m] = "new"
    /\ log' = Append(log, m)
    /\ EnqueueEnds(m, "snapshot")
    /\ victim' = [victim EXCEPT ![m] =
                    IF Size >= MaxQueue THEN CHOOSE o \in Oldest(1) : TRUE ELSE NoMsg]
    /\ LET open == {n \in Msg : epc[n] = "snapshot"}
       IN  rivals' = IF open = {} THEN rivals ELSE rivals \cup open \cup {m}
    /\ UNCHANGED <<backend, stored, expired, late, drainVars, before>>

\* It commits: another statement may have deleted the row, or inserted, meanwhile.
CommitPostgres(m) ==
    /\ epc[m] = "snapshot"
    /\ \/ /\ stored' = (stored \ {victim[m]}) \cup {m}
          /\ EnqueueEnds(m, "ok") \/ EnqueueEnds(m, "failed")
       \/ EnqueueEnds(m, "failed") /\ UNCHANGED stored
    /\ victim' = [victim EXCEPT ![m] = NoMsg]
    /\ UNCHANGED <<backend, log, late, rivals, expired, drainVars, before>>

----------------------------------------------------------------------------
(* drain                                                                   *)

DrainGoto(d, p, h) ==
    /\ dpc' = [dpc EXCEPT ![d] = p]
    /\ hand' = [hand EXCEPT ![d] = h]

Return(d, S) == got' = [got EXCEPT ![d] = S]

Fresh == stored \ expired

\* Fault: the queue is read under the lock and left in place.
DrainMemoryByReading(d) ==
    /\ backend = "memory" /\ dpc[d] = "new"
    /\ DrainGoto(d, "ok", {}) /\ Return(d, Fresh)
    /\ UNCHANGED <<backend, queueVars, expired, enqueueVars, overlap, before>>

DrainMemory(d) ==
    /\ backend = "memory" /\ dpc[d] = "new"
    /\ DrainGoto(d, "ok", {}) /\ Return(d, Fresh)
    /\ stored' = {}
    /\ UNCHANGED <<backend, log, late, rivals, expired, enqueueVars, overlap, before>>

\* XRANGE. An empty stream is not deleted.
ReadRedis(d) ==
    /\ backend = "redis" /\ dpc[d] = "new"
    /\ \/ stored = {} /\ DrainGoto(d, "ok", {}) /\ UNCHANGED overlap
       \/ /\ stored # {}
          /\ DrainGoto(d, "read", Fresh)
          /\ overlap' = overlap \cup {<<e, d>> : e \in {x \in Drain : dpc[x] = "read"}}
       \/ DrainGoto(d, "failed", {}) /\ UNCHANGED overlap
    /\ UNCHANGED <<backend, queueVars, expired, enqueueVars, got, before>>

\* DEL, of whatever the stream holds by now.
DeleteRedis(d) ==
    /\ backend = "redis" /\ dpc[d] = "read"
    /\ \/ stored' = {} /\ DrainGoto(d, "ok", hand[d]) /\ Return(d, hand[d])
       \/ stored' \in {stored, {}} /\ DrainGoto(d, "failed", hand[d]) /\ UNCHANGED got
    /\ UNCHANGED <<backend, log, late, rivals, expired, enqueueVars, overlap, before>>

\* DELETE ... RETURNING of the rows that are not expired.
TakePostgres(d) ==
    /\ backend = "postgres" /\ dpc[d] = "new"
    /\ \/ /\ stored' = stored \ Fresh
          /\ DrainGoto(d, "second", Fresh) \/ DrainGoto(d, "failed", Fresh)
       \/ DrainGoto(d, "failed", {}) /\ UNCHANGED stored
    /\ UNCHANGED <<backend, log, late, rivals, expired, enqueueVars, got, overlap, before>>

\* Fault: the second statement deletes what is left of the queue.
DeleteRest(d) ==
    /\ backend = "postgres" /\ dpc[d] = "second"
    /\ stored' = {} /\ DrainGoto(d, "ok", hand[d]) /\ Return(d, hand[d])
    /\ UNCHANGED <<backend, log, late, rivals, expired, enqueueVars, overlap, before>>

\* The expired ones are deleted by a statement of their own. When it fails the
\* call returns its error, and the rows in hand are dropped.
DeleteExpired(d) ==
    /\ backend = "postgres" /\ dpc[d] = "second"
    /\ \/ stored' = Fresh /\ DrainGoto(d, "ok", hand[d]) /\ Return(d, hand[d])
       \/ stored' \in {stored, Fresh} /\ DrainGoto(d, "failed", hand[d]) /\ UNCHANGED got
    /\ UNCHANGED <<backend, log, late, rivals, expired, enqueueVars, overlap, before>>

----------------------------------------------------------------------------

\* The oldest message that is not expired yet expires.
Expire ==
    /\ \E i \in DOMAIN log :
          /\ log[i] \notin expired
          /\ \A j \in 1..i-1 : log[j] \in expired
          /\ expired' = expired \cup {log[i]}
    /\ UNCHANGED <<backend, queueVars, enqueueVars, drainVars, before>>

\* The server restarts: its memory is gone, and what its calls would have returned.
Restart ==
    /\ before # Range(log)
    /\ before' = Range(log)
    /\ stored' = IF backend = "memory" THEN {} ELSE stored
    /\ epc' = [m \in Msg |-> IF epc[m] = "snapshot" THEN "failed" ELSE epc[m]]
    /\ victim' = [m \in Msg |-> NoMsg]
    /\ dpc' = [d \in Drain |-> IF dpc[d] \in {"read", "second"} THEN "failed" ELSE dpc[d]]
    /\ UNCHANGED <<backend, log, late, rivals, expired, hand, got, overlap>>

EnqueueStep(m) == EnqueueMemory(m) \/ EnqueueRedis(m) \/ StartPostgres(m) \/ CommitPostgres(m)
DrainStep(d) ==
    \/ DrainMemory(d) \/ ReadRedis(d) \/ DeleteRedis(d) \/ TakePostgres(d) \/ DeleteExpired(d)

Next ==
    \/ \E m \in Msg : EnqueueStep(m)
    \/ \E d \in Drain : DrainStep(d)
    \/ Expire \/ Restart

Spec == Init /\ [][Next]_vars

----------------------------------------------------------------------------

\* Two drains return the same message only from Redis, where reading and deleting
\* are two commands, and only when they overlapped.
TwiceOnlyOverlapping ==
    \A d, e \in Drain :
        d # e /\ got[d] \cap got[e] # {} =>
            backend = "redis" /\ (<<d, e>> \in overlap \/ <<e, d>> \in overlap)

Later(m) == {n \in Range(log) : Older(m, n)}

\* A message whose enqueue succeeded is in the queue, in the hands of a drain or
\* returned by one, or it expired, or MaxQueue younger ones pushed it out, or one of
\* the gaps took it: it came between the two commands of a Redis drain, a drain that
\* had it in hand failed, or the memory backend restarted.
LossExplained ==
    \A m \in Msg : epc[m] = "ok" =>
        \/ m \in stored \cup expired \cup late \cup UNION Range(got)
        \/ Cardinality(Later(m)) >= MaxQueue
        \/ \E d \in Drain : dpc[d] \in {"second", "failed"} /\ m \in hand[d]
        \/ backend = "memory" /\ m \in before

\* The queue keeps its limit in memory. In PostgreSQL enqueues that overlap both
\* count the rows before either inserts, and each but one of them may exceed the
\* limit by one.
SizeBound ==
    /\ backend = "memory" => Size <= MaxQueue
    /\ backend = "postgres" =>
          Size <= MaxQueue + (IF rivals = {} THEN 0 ELSE Cardinality(rivals) - 1)
=============================================================================

------------------------- MODULE RedisClient_proofs -------------------------
(***************************************************************************)
(* The circuit breaker under any number of callers and any thresholds, and *)
(* the pool and the subscriber that share it.                              *)
(***************************************************************************)
EXTENDS RedisClient, TLAPS

USE BreakerConstants, ClientConstants

----------------------------------------------------------------------------
(* The breaker alone                                                       *)

\* An access of one caller stores states, counts and places of the right type.
LEMMA AtomicType ==
    ASSUME BreakerTypeOK, NEW c \in Caller, Atomic(c)
    PROVE  BreakerTypeOK'
<1> USE DEF BreakerTypeOK, CircuitState, Access, Goto
<1>1. CASE CheckState(c) \/ CheckElapsed(c) \/ Exchange(c) \/ HalfClear(c)
  BY <1>1 DEF CheckState, CheckElapsed, Exchange, HalfClear
<1>2. CASE HalfStamp(c) \/ LoadState(c)
  BY <1>2 DEF HalfStamp, LoadState
<1>6. CASE OnSuccess(c)
  BY <1>6 DEF OnSuccess
<1>7. CASE OnFailure(c)
  BY <1>7 DEF OnFailure
<1>3. CASE Forget(c) \/ CountSuccess(c) \/ CountFailure(c) \/ Restamp(c)
  <2>1. elapsed' \in BOOLEAN
    BY <1>3 DEF Forget, CountSuccess, CountFailure, Restamp
  <2>2. state' \in CircuitState /\ failure_count' \in Nat /\ success_count' \in Nat
    BY <1>3 DEF Forget, CountSuccess, CountFailure, Restamp
  <2>3. bpc' \in [Caller -> Access]
    BY <1>3 DEF Forget, CountSuccess, CountFailure, Restamp
  <2> QED BY <2>1, <2>2, <2>3
<1>4. CASE StoreState(c) \/ StampChange(c)
  BY <1>4 DEF StoreState, StampChange
<1>5. CASE ClearFailures(c) \/ ClearSuccesses(c)
  BY <1>5 DEF ClearFailures, ClearSuccesses
<1> QED BY <1>1, <1>2, <1>3, <1>4, <1>5, <1>6, <1>7 DEF Atomic

\* The breaker keeps its types.
LEMMA BreakerStepType == BreakerTypeOK /\ [BreakerNext]_breaker => BreakerTypeOK'
<1> SUFFICES ASSUME BreakerTypeOK, [BreakerNext]_breaker PROVE BreakerTypeOK'
  OBVIOUS
<1>1. CASE ResetTimeout
  BY <1>1 DEF ResetTimeout, BreakerTypeOK
<1>2. ASSUME NEW c \in Caller, Call(c) PROVE BreakerTypeOK'
  BY <1>2 DEF Call, Begin, Use, Goto, Operation, BreakerTypeOK, Access
<1>3. ASSUME NEW c \in Caller, Atomic(c) PROVE BreakerTypeOK'
  BY <1>3, AtomicType
<1>4. CASE UNCHANGED breaker
  BY <1>4 DEF breaker, BreakerTypeOK
<1> QED BY <1>1, <1>2, <1>3, <1>4 DEF BreakerNext

\* A caller that is at none of the places in S moves, and whoever was there stays there.
LEMMA OthersRun ==
    ASSUME BreakerTypeOK, NEW S, NEW c \in Caller, NEW a, NEW b, Goto(c, a, b),
           Running(S), a \notin S
    PROVE  Running(S)'
BY DEF Running, Goto, BreakerTypeOK

\* A caller that arrives at a place in S is there.
LEMMA ArrivesRunning ==
    ASSUME BreakerTypeOK, NEW S, NEW c \in Caller, NEW a, NEW b \in S, Goto(c, a, b)
    PROVE  Running(S)'
BY DEF Running, Goto, BreakerTypeOK

Opening == {"open", "close_stamp", "close_failures"}
Closing == {"close", "half_clear"}

\* No access leaves the breaker behind its counters: the one that reaches a threshold
\* goes on to the change, and the last one of a change has taken the count back.
LEMMA AtomicSettled ==
    ASSUME BreakerTypeOK, Settled, NEW c \in Caller, Atomic(c)
    PROVE  Settled'
<1> DEFINE A == state = "closed" /\ failure_count >= FailureThreshold /\ failure_count > 0
           B == state = "half_open" /\ success_count >= SuccessThreshold /\ success_count > 0
<1>1. (A => Running(Opening)) /\ (B => Running(Closing))
  BY DEF Settled, Opening, Closing
<1> SUFFICES (A' => Running(Opening)') /\ (B' => Running(Closing)')
  BY DEF Settled, Opening, Closing, Running
<1>2. ASSUME NEW a, NEW b, Goto(c, a, b), UNCHANGED <<state, failure_count, success_count>>,
             a \notin Opening \cup Closing
      PROVE  (A' => Running(Opening)') /\ (B' => Running(Closing)')
  BY <1>1, <1>2, OthersRun DEF Opening, Closing
<1>3. CASE CheckState(c)
  BY <1>2, <1>3 DEF CheckState, Opening, Closing
<1>4. CASE CheckElapsed(c)
  BY <1>2, <1>4 DEF CheckElapsed, Opening, Closing
<1>5. CASE Exchange(c)
  <2>1. CASE state = "open"
    <3>1. Goto(c, "exchange", "half_clear") /\ state' = "half_open"
      BY <1>5, <2>1 DEF Exchange
    <3> QED BY <3>1, ArrivesRunning DEF Closing
  <2>2. CASE state # "open"
    BY <1>2, <1>5, <2>2 DEF Exchange, Opening, Closing
  <2> QED BY <2>1, <2>2
<1>6. CASE HalfClear(c)
  <2>1. Goto(c, "half_clear", "half_stamp") /\ success_count' = 0
        /\ UNCHANGED <<state, failure_count>>
    BY <1>6 DEF HalfClear
  <2>2. A' => Running(Opening)'
    BY <2>1, <1>1, OthersRun DEF Opening
  <2> QED BY <2>1, <2>2
<1>7. CASE HalfStamp(c)
  BY <1>2, <1>7 DEF HalfStamp, Opening, Closing
<1>8. CASE LoadState(c)
  BY <1>2, <1>8 DEF LoadState, Opening, Closing
<1>9. CASE OnSuccess(c)
  BY <1>2, <1>9 DEF OnSuccess, Opening, Closing
<1>10. CASE Forget(c)
  <2>1. Goto(c, "forget", "idle") /\ failure_count' = 0 /\ UNCHANGED <<state, success_count>>
    BY <1>10 DEF Forget
  <2>2. B' => Running(Closing)'
    BY <2>1, <1>1, OthersRun DEF Closing
  <2> QED BY <2>1, <2>2
<1>11. CASE CountSuccess(c)
  <2> DEFINE b == IF success_count' >= SuccessThreshold THEN "close" ELSE "idle"
  <2>1. Goto(c, "count_success", b) /\ UNCHANGED <<state, failure_count>>
    BY <1>11 DEF CountSuccess
  <2>2. A' => Running(Opening)'
    BY <2>1, <1>1, OthersRun DEF Opening
  <2>3. B' => Running(Closing)'
    <3>1. B' => b \in Closing
      BY DEF Closing
    <3> QED BY <3>1, <2>1, ArrivesRunning
  <2> QED BY <2>2, <2>3
<1>12. CASE OnFailure(c)
  BY <1>2, <1>12 DEF OnFailure, Opening, Closing
<1>13. CASE CountFailure(c)
  <2> DEFINE b == IF failure_count' >= FailureThreshold THEN "open" ELSE "idle"
  <2>1. Goto(c, "count_failure", b) /\ UNCHANGED <<state, success_count>>
    BY <1>13 DEF CountFailure
  <2>2. B' => Running(Closing)'
    BY <2>1, <1>1, OthersRun DEF Closing
  <2>3. A' => Running(Opening)'
    <3>1. A' => b \in Opening
      BY DEF Opening
    <3> QED BY <3>1, <2>1, ArrivesRunning
  <2> QED BY <2>2, <2>3
<1>14. CASE Restamp(c)
  BY <1>2, <1>14 DEF Restamp, Opening, Closing
<1>15. CASE StoreState(c)
  <2>1. CASE Goto(c, "open", "open_stamp") /\ state' = "open"
    BY <2>1
  <2>2. CASE Goto(c, "close", "close_stamp") /\ state' = "closed"
    BY <2>2, ArrivesRunning DEF Opening
  <2> QED BY <1>15, <2>1, <2>2 DEF StoreState
<1>16. CASE StampChange(c)
  <2>1. CASE Goto(c, "open_stamp", "open_clear")
    BY <1>2, <1>16, <2>1 DEF StampChange, Opening, Closing
  <2>2. CASE Goto(c, "close_stamp", "close_failures")
    <3>1. UNCHANGED <<state, failure_count, success_count>>
      BY <1>16 DEF StampChange
    <3>2. A' => Running(Opening)'
      BY <2>2, ArrivesRunning DEF Opening
    <3>3. B' => Running(Closing)'
      BY <2>2, <3>1, <1>1, OthersRun DEF Closing
    <3> QED BY <3>2, <3>3
  <2> QED BY <1>16, <2>1, <2>2 DEF StampChange
<1>17. CASE ClearFailures(c)
  <2>1. Goto(c, "close_failures", "close_successes") /\ failure_count' = 0
        /\ UNCHANGED <<state, success_count>>
    BY <1>17 DEF ClearFailures
  <2>2. B' => Running(Closing)'
    BY <2>1, <1>1, OthersRun DEF Closing
  <2> QED BY <2>1, <2>2
<1>18. CASE ClearSuccesses(c)
  <2>1. success_count' = 0 /\ UNCHANGED <<state, failure_count>>
    BY <1>18 DEF ClearSuccesses
  <2>2. A' => Running(Opening)'
    <3>1. CASE Goto(c, "open_clear", "idle")
      BY <2>1, <3>1, <1>1, OthersRun DEF Opening
    <3>2. CASE Goto(c, "close_successes", "idle")
      BY <2>1, <3>2, <1>1, OthersRun DEF Opening
    <3> QED BY <1>18, <3>1, <3>2 DEF ClearSuccesses
  <2> QED BY <2>1, <2>2
<1> QED BY <1>3, <1>4, <1>5, <1>6, <1>7, <1>8, <1>9, <1>10, <1>11, <1>12, <1>13, <1>14,
           <1>15, <1>16, <1>17, <1>18 DEF Atomic

\* The breaker keeps its settled states.
LEMMA BreakerStepSettled ==
    BreakerTypeOK /\ Settled /\ [BreakerNext]_breaker => Settled'
<1> SUFFICES ASSUME BreakerTypeOK, Settled, [BreakerNext]_breaker PROVE Settled'
  OBVIOUS
<1>1. CASE ResetTimeout
  BY <1>1 DEF ResetTimeout, Settled, Running
<1>2. ASSUME NEW c \in Caller, Call(c) PROVE Settled'
  <2>1. PICK a \in {"idle", "is_open", "not_open"}, b \in Access : Goto(c, a, b)
    BY <1>2 DEF Call, Begin, Use, Operation, Access
  <2>2. UNCHANGED <<state, failure_count, success_count>>
    BY <1>2 DEF Call
  <2>3. Running(Opening) => Running(Opening)'
    BY <2>1, OthersRun DEF Opening
  <2>4. Running(Closing) => Running(Closing)'
    BY <2>1, OthersRun DEF Closing
  <2> QED BY <2>2, <2>3, <2>4 DEF Settled, Opening, Closing, Running
<1>3. ASSUME NEW c \in Caller, Atomic(c) PROVE Settled'
  BY <1>3, AtomicSettled
<1>4. CASE UNCHANGED breaker
  BY <1>4 DEF breaker, Settled, Running
<1> QED BY <1>1, <1>2, <1>3, <1>4 DEF BreakerNext

\* The breaker starts closed and settled.
LEMMA BreakerInitInv == BreakerInit => BreakerTypeOK /\ Settled
<1> SUFFICES ASSUME BreakerInit PROVE BreakerTypeOK /\ Settled
  OBVIOUS
<1>1. elapsed \in BOOLEAN
  BY DEF BreakerInit
<1>2. state = "closed" /\ failure_count = 0 /\ success_count = 0
      /\ bpc = [c \in Caller |-> "idle"]
  BY DEF BreakerInit
<1>3. BreakerTypeOK
  BY <1>1, <1>2 DEF BreakerTypeOK, CircuitState, Access
<1>4. Settled
  BY <1>2 DEF Settled
<1> QED BY <1>3, <1>4

\* Whatever the callers of the breaker do, none of them returns and leaves it closed
\* with too many failures or half-open with enough successes.
THEOREM BreakerSettles == BreakerSpec => [](BreakerTypeOK /\ Settled)
<1>1. BreakerInit => BreakerTypeOK /\ Settled
  BY BreakerInitInv
<1>2. BreakerTypeOK /\ Settled /\ [BreakerNext]_breaker => (BreakerTypeOK /\ Settled)'
  BY BreakerStepType, BreakerStepSettled
<1> QED BY <1>1, <1>2, PTL DEF BreakerSpec

----------------------------------------------------------------------------
(* The pool and the subscriber                                             *)

\* Tasks and the subscriber call the breaker.
LEMMA TasksCall == Task \subseteq Caller /\ Sub \in Caller
OBVIOUS

\* A step of a pool task is a call of the breaker, or leaves it alone.
LEMMA PoolUses ==
    ASSUME NEW t \in Task, PoolStep(t)
    PROVE  BreakerNext \/ UNCHANGED breaker
<1>1. ASSUME NEW op \in Operation, NEW p, CallBreaker(t, op, p) PROVE Call(t)
  BY <1>1 DEF CallBreaker, Call
<1>2. ASSUME NEW r \in {"is_open", "not_open"}, NEW p, Returned(t, r, p) PROVE Call(t)
  BY <1>2 DEF Returned, Call
<1>3. CASE AllowRequest(t) \/ Refuse(t) \/ ReadCached(t)
  <2>1. Call(t)
    BY <1>1, <1>2, <1>3 DEF AllowRequest, Refuse, ReadCached, Operation
  <2> QED BY <2>1, TasksCall DEF BreakerNext
<1>4. CASE Connect(t) \/ CommandSucceeds(t) \/ CommandFails(t)
  <2>1. Call(t)
    BY <1>1, <1>4 DEF Connect, CommandSucceeds, CommandFails, Operation
  <2> QED BY <2>1, TasksCall DEF BreakerNext
<1>5. CASE Cancel(t)
  <2>1. Call(t) \/ UNCHANGED breaker
    BY <1>2, <1>5 DEF Cancel, GoOn
  <2> QED BY <2>1, TasksCall DEF BreakerNext
<1>6. CASE LockWrite(t) \/ ConnectReturns(t) \/ RawCommand(t)
  BY <1>6 DEF LockWrite, ConnectReturns, RawCommand, GoOn
<1> QED BY <1>3, <1>4, <1>5, <1>6 DEF PoolStep

\* So is a step of the subscriber.
LEMMA SubscriberUses ==
    ASSUME SubscriberStep \/ Message \/ StreamEnds \/ Shutdown
    PROVE  BreakerNext \/ UNCHANGED breaker
<1>1. ASSUME NEW op \in Operation, NEW p, NEW q, SubBreaker(p, op, q) PROVE Call(Sub)
  BY <1>1 DEF SubBreaker, Call
<1>2. ASSUME NEW r \in {"is_open", "not_open"}, NEW p, NEW q, SubReturned(r, p, q) PROVE Call(Sub)
  BY <1>2 DEF SubReturned, Call
<1>3. CASE CheckCircuit \/ LogFailure \/ OpenPubSub \/ Message
  <2>1. Call(Sub)
    BY <1>1, <1>3 DEF CheckCircuit, LogFailure, OpenPubSub, Message, Operation
  <2> QED BY <2>1, TasksCall DEF BreakerNext
<1>4. CASE WaitOpen \/ Proceed \/ Backoff
  <2>1. Call(Sub)
    BY <1>2, <1>4 DEF WaitOpen, Proceed, Backoff
  <2> QED BY <2>1, TasksCall DEF BreakerNext
<1>5. CASE WakeUp \/ Subscribed \/ BackoffOver \/ StopSubscriber \/ StreamEnds \/ Shutdown
  BY <1>5 DEF WakeUp, Subscribed, BackoffOver, StopSubscriber, StreamEnds, Shutdown, SubGoto
<1> QED BY <1>3, <1>4, <1>5 DEF SubscriberStep

\* Whatever the client does, the breaker takes a step of its own or none.
LEMMA ClientUses == [Next]_vars => [BreakerNext]_breaker
<1> SUFFICES ASSUME [Next]_vars PROVE [BreakerNext]_breaker
  OBVIOUS
<1>1. ASSUME NEW t \in Task, PoolStep(t) PROVE [BreakerNext]_breaker
  BY <1>1, PoolUses
<1>2. CASE SubscriberStep \/ Message \/ StreamEnds \/ Shutdown
  BY <1>2, SubscriberUses
<1>3. ASSUME NEW c \in Caller, BreakerStep(c) PROVE [BreakerNext]_breaker
  BY <1>3 DEF BreakerStep, BreakerNext
<1>4. CASE ResetTimeout /\ UNCHANGED client
  BY <1>4 DEF BreakerNext
<1>5. CASE RedisUp \/ RedisDown
  BY <1>5 DEF RedisUp, RedisDown
<1>6. CASE UNCHANGED vars
  BY <1>6 DEF vars
<1> QED BY <1>1, <1>2, <1>3, <1>4, <1>5, <1>6 DEF Next

\* The pool and the subscriber together are callers of the breaker like any others:
\* they implement its specification.
THEOREM ClientImplementsBreaker == Spec => BreakerSpec
<1>1. Init => BreakerInit
  BY DEF Init
<1> QED BY <1>1, ClientUses, PTL DEF Spec, BreakerSpec

\* Hence the breaker that they share is never left behind its counters.
THEOREM ClientSettles == Spec => []Settled
<1>1. BreakerTypeOK /\ Settled => Settled
  OBVIOUS
<1> QED BY <1>1, ClientImplementsBreaker, BreakerSettles, PTL

----------------------------------------------------------------------------
(* The pool's connection                                                   *)

\* What the places of the tasks say of the lock, and the lock of the connection:
\* whoever connects holds the write lock and found no connection.
PoolInv ==
    /\ cached \in {"none", "live", "dropped"}
    /\ tpc \in [Task -> {"idle", "allow", "write", "connecting", "connected", "failed", "exec"}]
    /\ opened = IF cached = "none" THEN 0 ELSE 1
    /\ \A t \in Task : tpc[t] \in {"connecting", "connected", "failed"} => writer = t
    /\ \A t \in Task : tpc[t] = "connecting" => cached = "none"

\* A task that has not begun to connect goes on at a place outside connect().
LEMMA PlaceMoves ==
    ASSUME PoolInv, NEW t \in Task,
           NEW p \in {"idle", "allow", "write", "exec"},
           tpc' = [tpc EXCEPT ![t] = p],
           UNCHANGED <<cached, opened>>,
           writer' = writer \/ (writer = t /\ writer' = NoTask)
    PROVE  PoolInv'
BY DEF PoolInv

\* The steps of the pool keep its invariant.
LEMMA PoolStepInv ==
    ASSUME PoolInv, NEW t \in Task, PoolStep(t)
    PROVE  PoolInv'
<1>1. CASE AllowRequest(t)
  BY <1>1, PlaceMoves DEF AllowRequest, CallBreaker
<1>2. CASE Refuse(t)
  BY <1>2, PlaceMoves DEF Refuse, Returned
<1>3. CASE ReadCached(t)
  BY <1>3, PlaceMoves DEF ReadCached, Returned
<1>4. CASE LockWrite(t)
  <2>1. CASE cached # "none"
    <3>1. tpc' = [tpc EXCEPT ![t] = "exec"] /\ UNCHANGED <<cached, opened, writer>>
      BY <1>4, <2>1 DEF LockWrite, GoOn
    <3> QED BY <3>1, PlaceMoves
  <2>2. CASE cached = "none"
    <3>1. /\ tpc' = [tpc EXCEPT ![t] = "connecting"] /\ UNCHANGED <<cached, opened>>
          /\ writer = NoTask /\ writer' = t
      BY <1>4, <2>2 DEF LockWrite, GoOn
    <3>2. \A u \in Task : tpc[u] \notin {"connecting", "connected", "failed"}
      BY <3>1 DEF PoolInv
    <3> QED BY <2>2, <3>1, <3>2 DEF PoolInv
  <2> QED BY <2>1, <2>2
<1>5. CASE Connect(t)
  <2>1. writer = t /\ cached = "none" /\ writer' = writer
    BY <1>5 DEF Connect, At, PoolInv
  <2>2. \A u \in Task \ {t} : tpc[u] \notin {"connecting", "connected", "failed"}
    BY <2>1 DEF PoolInv
  <2>3. CASE cached' = "live" /\ opened' = opened + 1 /\ tpc' = [tpc EXCEPT ![t] = "connected"]
    BY <2>1, <2>2, <2>3 DEF PoolInv
  <2>4. CASE UNCHANGED <<cached, opened>> /\ tpc' = [tpc EXCEPT ![t] = "failed"]
    BY <2>1, <2>2, <2>4 DEF PoolInv
  <2> QED BY <1>5, <2>3, <2>4 DEF Connect, CallBreaker
<1>6. CASE ConnectReturns(t)
  <2>1. PICK p \in {"idle", "exec"} : tpc' = [tpc EXCEPT ![t] = p]
    BY <1>6 DEF ConnectReturns, GoOn
  <2>2. writer = t /\ writer' = NoTask /\ UNCHANGED <<cached, opened>>
    BY <1>6 DEF ConnectReturns, At, PoolInv
  <2> QED BY <2>1, <2>2, PlaceMoves
<1>7. CASE CommandSucceeds(t) \/ CommandFails(t)
  BY <1>7, PlaceMoves DEF CommandSucceeds, CommandFails, CallBreaker
<1>8. CASE RawCommand(t)
  BY <1>8, PlaceMoves DEF RawCommand, GoOn
<1>9. CASE Cancel(t)
  <2>1. tpc' = [tpc EXCEPT ![t] = "idle"]
    BY <1>9 DEF Cancel, Returned, GoOn
  <2>2. UNCHANGED <<cached, opened>> /\ (writer' = writer \/ (writer = t /\ writer' = NoTask))
    BY <1>9 DEF Cancel
  <2> QED BY <2>1, <2>2, PlaceMoves
<1> QED BY <1>1, <1>2, <1>3, <1>4, <1>5, <1>6, <1>7, <1>8, <1>9 DEF PoolStep

\* Every step of the client keeps the invariant of the pool.
LEMMA PoolNextInv == PoolInv /\ [Next]_vars => PoolInv'
<1> SUFFICES ASSUME PoolInv, [Next]_vars PROVE PoolInv'
  OBVIOUS
<1>1. ASSUME NEW t \in Task, PoolStep(t) PROVE PoolInv'
  BY <1>1, PoolStepInv
<1>2. CASE UNCHANGED pool
  BY <1>2 DEF pool, PoolInv
<1>3. CASE SubscriberStep \/ Message \/ StreamEnds \/ Shutdown
  <2>1. UNCHANGED pool
    BY <1>3 DEF SubscriberStep, Message, StreamEnds, Shutdown, CheckCircuit, WaitOpen, WakeUp,
                Proceed, OpenPubSub, Subscribed, LogFailure, Backoff, BackoffOver, StopSubscriber
  <2> QED BY <1>2, <2>1
<1>4. ASSUME NEW c \in Caller, BreakerStep(c) PROVE PoolInv'
  BY <1>2, <1>4 DEF BreakerStep, client
<1>5. CASE ResetTimeout /\ UNCHANGED client
  BY <1>2, <1>5 DEF client
<1>6. CASE RedisUp
  BY <1>2, <1>6 DEF RedisUp
<1>7. CASE RedisDown
  BY <1>7 DEF RedisDown, PoolInv
<1>8. CASE UNCHANGED vars
  BY <1>2, <1>8 DEF vars, client
<1> QED BY <1>1, <1>3, <1>4, <1>5, <1>6, <1>7, <1>8 DEF Next

\* However many tasks find the pool empty together, one of them connects, and no
\* second connection is ever made: a dropped one stays cached for good.
THEOREM PoolConnectsOnce == Spec => []OneConnection
<1>1. Init => PoolInv
  BY DEF Init, PoolInv
<1>2. PoolInv => OneConnection
  BY DEF PoolInv, OneConnection
<1> QED BY <1>1, <1>2, PoolNextInv, PTL DEF Spec

----------------------------------------------------------------------------
(* Types                                                                   *)

\* The rest of the types: who holds the lock, the reported status and the subscriber.
RestTypes ==
    /\ writer \in Task \cup {NoTask}
    /\ status \in {"healthy", "reconnecting", "circuit_open"}
    /\ spc \in {"check", "decide", "wait_open", "connecting", "connected", "subscribed", "failed",
                "retry", "backoff", "stopped"}

Flags == redisUp \in BOOLEAN /\ heard \in BOOLEAN

\* Every step keeps the types of what is neither breaker nor pool.
LEMMA RestStep == RestTypes /\ [Next]_vars => RestTypes'
<1> SUFFICES ASSUME RestTypes, [Next]_vars PROVE RestTypes'
  OBVIOUS
<1> USE DEF RestTypes, SetConnected, SetReconnecting, SetCircuitOpen
<1>1. ASSUME NEW t \in Task, PoolStep(t) PROVE RestTypes'
  BY <1>1 DEF PoolStep, AllowRequest, Refuse, ReadCached, LockWrite, Connect, ConnectReturns,
              CommandSucceeds, CommandFails, RawCommand, Cancel, subscriber
<1>2. CASE SubscriberStep \/ Message \/ StreamEnds \/ Shutdown
  BY <1>2 DEF SubscriberStep, Message, StreamEnds, Shutdown, CheckCircuit, WaitOpen, WakeUp,
              Proceed, OpenPubSub, Subscribed, LogFailure, Backoff, BackoffOver, StopSubscriber,
              SubBreaker, SubReturned, SubGoto, pool
<1>3. ASSUME NEW c \in Caller, BreakerStep(c) PROVE RestTypes'
  BY <1>3 DEF BreakerStep, client, pool, subscriber
<1>4. CASE ResetTimeout /\ UNCHANGED client
  BY <1>4 DEF client, pool, subscriber
<1>5. CASE RedisUp \/ RedisDown
  BY <1>5 DEF RedisUp, RedisDown, pool, subscriber
<1>6. CASE UNCHANGED vars
  BY <1>6 DEF vars, client, pool, subscriber
<1> QED BY <1>1, <1>2, <1>3, <1>4, <1>5, <1>6 DEF Next

\* Every step keeps the flags Boolean.
LEMMA FlagsStep == Flags /\ [Next]_vars => Flags'
<1> SUFFICES ASSUME Flags, [Next]_vars PROVE Flags'
  OBVIOUS
<1> USE DEF Flags
<1>1. ASSUME NEW t \in Task, PoolStep(t) PROVE Flags'
  <2>1. UNCHANGED <<redisUp, heard>>
    BY <1>1 DEF PoolStep, AllowRequest, Refuse, ReadCached, LockWrite, Connect, ConnectReturns,
                CommandSucceeds, CommandFails, RawCommand, Cancel, subscriber
  <2> QED BY <2>1
<1>2. CASE SubscriberStep \/ Message \/ StreamEnds \/ Shutdown
  <2>1. UNCHANGED redisUp /\ (UNCHANGED heard \/ heard' = FALSE \/ heard' = TRUE)
    BY <1>2 DEF SubscriberStep, Message, StreamEnds, Shutdown, CheckCircuit, WaitOpen, WakeUp,
                Proceed, OpenPubSub, Subscribed, LogFailure, Backoff, BackoffOver, StopSubscriber
  <2> QED BY <2>1
<1>3. ASSUME NEW c \in Caller, BreakerStep(c) PROVE Flags'
  BY <1>3 DEF BreakerStep, client, pool, subscriber
<1>4. CASE ResetTimeout /\ UNCHANGED client
  BY <1>4 DEF client, pool, subscriber
<1>5. CASE RedisUp \/ RedisDown
  BY <1>5 DEF RedisUp, RedisDown, pool, subscriber
<1>6. CASE UNCHANGED vars
  BY <1>6 DEF vars, client, pool, subscriber
<1> QED BY <1>1, <1>2, <1>3, <1>4, <1>5, <1>6 DEF Next

\* The breaker, the pool and the subscriber are always at one of the places their code
\* has, and the lock is free or held by a task of the pool.
THEOREM ClientTypes == Spec => []TypeOK
<1>1. Init => PoolInv /\ RestTypes /\ Flags
  <2>1. Init => PoolInv
    BY DEF Init, PoolInv
  <2>2. Init => RestTypes
    BY DEF Init, RestTypes
  <2>3. Init => Flags
    BY DEF Init, Flags
  <2> QED BY <2>1, <2>2, <2>3
<1>2. BreakerTypeOK /\ PoolInv /\ RestTypes /\ Flags => TypeOK
  <2> SUFFICES ASSUME BreakerTypeOK, PoolInv, RestTypes, Flags PROVE TypeOK
    OBVIOUS
  <2>1. opened \in Nat
    BY DEF PoolInv
  <2>2. /\ cached \in {"none", "live", "dropped"}
        /\ tpc \in [Task -> {"idle", "allow", "write", "connecting", "connected", "failed", "exec"}]
    BY DEF PoolInv
  <2> QED BY <2>1, <2>2, Zenon DEF RestTypes, Flags, TypeOK
<1>3. BreakerTypeOK /\ Settled => BreakerTypeOK
  OBVIOUS
<1> QED BY <1>1, <1>2, <1>3, PoolNextInv, RestStep, FlagsStep, ClientImplementsBreaker,
           BreakerSettles, PTL DEF Spec
=============================================================================

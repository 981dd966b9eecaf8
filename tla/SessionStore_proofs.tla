------------------------- MODULE SessionStore_proofs -------------------------
(***************************************************************************)
(* The sessions of any set of connections, for every lifetime of a session *)
(* and every number of shards: a connection the server tracks is located   *)
(* in the cluster, and the heartbeat task deadlocks by an expiry only.     *)
(***************************************************************************)
EXTENDS SessionStore, TLAPS

USE StoreConstants

----------------------------------------------------------------------------
(* The inductive invariant                                                 *)

\* The handlers that have an entry in local_connections.
Tracked ==
    \A c \in local : hpc[c] \in {"replay", "open", "closing", "abandoned"}

\* A session that was just registered is fresh: no period passes before its entry
\* is made, unless the handler waits for the guard of a heartbeat that is stuck.
Fresh ==
    \A c \in Conn : hpc[c] = "insert" =>
        /\ ttl[c] + missed >= SessionTtl
        /\ hb # "stuck" => ttl[c] = SessionTtl

\* The guard keeps what is left of the shard in the map.
Visiting ==
    /\ todo \subseteq InShard(cur)
    /\ hb \notin {"scan", "stuck"} => todo = {}

\* The round has refreshed what it left behind.
Visited ==
    hb = "scan" => \A c \in local :
        shard[c] < cur \/ (shard[c] = cur /\ c \notin todo) => ttl[c] = SessionTtl

\* A round that runs, or never ends, is due.
Owed == hb \in {"scan", "stuck"} => due

Owing == IF due THEN 1 ELSE 0

StoreInv ==
    /\ TypeOK
    /\ Tracked
    /\ Fresh
    /\ Visiting
    /\ Visited
    /\ Owed
    /\ Located
    /\ StuckByExpiry

\* A refresh is owed once or not at all.
LEMMA OwingType == Owing \in {0, 1} /\ (due => Owing = 1) /\ (~due => Owing = 0)
BY DEF Owing

\* Located in terms of the refresh that is owed.
LEMMA LocatedOwing == Located <=> \A c \in local : ttl[c] + missed + Owing >= SessionTtl
BY DEF Located, Owing

\* The store starts in its invariant.
LEMMA InitStoreInv == Init => StoreInv
<1> SUFFICES ASSUME Init PROVE StoreInv
  OBVIOUS
<1>1. due \in BOOLEAN
  BY DEF Init
<1>2. TypeOK
  BY <1>1 DEF Init, TypeOK, HandlerStates
<1>3. Tracked /\ Fresh /\ Visiting /\ Visited /\ Owed /\ Located /\ StuckByExpiry
  BY DEF Init, Tracked, Fresh, Visiting, Visited, Owed, Located, StuckByExpiry, InShard
<1> QED BY <1>2, <1>3 DEF StoreInv

----------------------------------------------------------------------------
(* Steps of the handlers: the heartbeat's variables stay.                  *)

\* A handler that has no entry and gets none moves, and its session gets any life
\* it may have; the session of one that waits for its entry stays fresh.
LEMMA HandlerMoves ==
    ASSUME StoreInv, NEW c \in Conn,
           UNCHANGED <<local, shard, refresh>>, upd' \in [Conn -> {"idle", "get", "set", "ended"}],
           hpc' \in [Conn -> HandlerStates],
           ttl' \in [Conn -> 0..SessionTtl],
           \A d \in Conn \ {c} : hpc'[d] = hpc[d] /\ ttl'[d] = ttl[d],
           c \in local => ttl'[c] >= ttl[c],
           c \in local => hpc'[c] \in {"replay", "open", "closing", "abandoned"},
           hpc'[c] = "insert" => ttl'[c] = SessionTtl \/ (hpc[c] = "insert" /\ ttl'[c] >= ttl[c])
    PROVE  StoreInv'
<1> USE DEF StoreInv
<1>1. UNCHANGED <<hb, cur, todo, missed>>
  BY DEF refresh
<1>2. UNCHANGED due
  BY DEF refresh
<1>3. TypeOK'
  <2>1. due' \in BOOLEAN
    BY <1>2 DEF TypeOK
  <2> QED BY <1>1, <2>1 DEF TypeOK
<1>4. Tracked'
  BY DEF Tracked, TypeOK
<1>5. Fresh'
  BY <1>1 DEF Fresh, TypeOK
<1>6. Visiting'
  BY <1>1 DEF Visiting, InShard
<1>7. Visited'
  <2>1. \A d \in local : ttl[d] = SessionTtl => ttl'[d] = SessionTtl
    BY DEF TypeOK
  <2> QED BY <1>1, <2>1 DEF Visited
<1>8. Owed'
  BY <1>1, <1>2 DEF Owed
<1>9. Located'
  <2>1. \A d \in local : ttl'[d] >= ttl[d] /\ ttl[d] \in 0..SessionTtl /\ ttl'[d] \in 0..SessionTtl
    BY DEF TypeOK
  <2>2. Owing' = Owing
    BY <1>2 DEF Owing
  <2>3. \A d \in local : ttl[d] + missed + Owing >= SessionTtl
    BY LocatedOwing
  <2>4. missed \in 0..SessionTtl
    BY DEF TypeOK
  <2>5. \A d \in local' : ttl'[d] + missed' + Owing' >= SessionTtl
    BY <1>1, <2>1, <2>2, <2>3, <2>4, OwingType
  <2>6. Located' <=> \A d \in local' : ttl'[d] + missed' + Owing' >= SessionTtl
    BY DEF Located, Owing
  <2> QED BY <2>5, <2>6
<1>10. StuckByExpiry'
  BY <1>1 DEF StuckByExpiry
<1> QED BY <1>3, <1>4, <1>5, <1>6, <1>7, <1>8, <1>9, <1>10

\* The steps of the handlers and of the clients keep the invariant.
LEMMA HandlerInv ==
    ASSUME StoreInv, NEW c \in Conn, HandlerStep(c) \/ ClientStep(c)
    PROVE  StoreInv'
<1> DEFINE Upd == [Conn -> {"idle", "get", "set", "ended"}]
           Moves == /\ hpc' \in [Conn -> HandlerStates]
                    /\ ttl' \in [Conn -> 0..SessionTtl]
                    /\ \A d \in Conn \ {c} : hpc'[d] = hpc[d] /\ ttl'[d] = ttl[d]
                    /\ c \in local => ttl'[c] >= ttl[c]
                    /\ c \in local => hpc'[c] \in {"replay", "open", "closing", "abandoned"}
                    /\ hpc'[c] = "insert" =>
                          ttl'[c] = SessionTtl \/ (hpc[c] = "insert" /\ ttl'[c] >= ttl[c])
<1>1. TypeOK /\ Tracked /\ Fresh /\ Visiting /\ Visited /\ Owed /\ Located /\ StuckByExpiry
  BY DEF StoreInv
<1>2. /\ upd \in Upd /\ ttl \in [Conn -> 0..SessionTtl]
      /\ hpc \in [Conn -> HandlerStates]
      /\ c \in local => hpc[c] \in {"replay", "open", "closing", "abandoned"}
  BY <1>1 DEF Tracked, TypeOK
<1>3. ASSUME Moves, upd' \in Upd, UNCHANGED <<local, shard, refresh>>
      PROVE  StoreInv'
  BY <1>3, HandlerMoves
<1> USE DEF Step
<1>4. CASE Arrive(c)
  <2>1. Moves
    BY <1>2, <1>4 DEF Arrive, SetSession, HandlerStates
  <2>2. upd' \in Upd /\ UNCHANGED <<local, shard, refresh>>
    BY <1>2, <1>4 DEF Arrive
  <2> QED BY <1>3, <2>1, <2>2
<1>5. CASE RegisterSession(c)
  <2>1. Moves
    BY <1>2, <1>5 DEF RegisterSession, SetSession, HandlerStates
  <2>2. upd' \in Upd /\ UNCHANGED <<local, shard, refresh>>
    BY <1>2, <1>5 DEF RegisterSession
  <2> QED BY <1>3, <2>1, <2>2
<1>6. CASE Opened(c)
  <2>1. Moves
    BY <1>2, <1>6 DEF Opened, SetSession, HandlerStates
  <2>2. upd' \in Upd /\ UNCHANGED <<local, shard, refresh>>
    BY <1>2, <1>6 DEF Opened
  <2> QED BY <1>3, <2>1, <2>2
<1>7. CASE Abandon(c)
  <2>1. Moves
    BY <1>2, <1>7 DEF Abandon, SetSession, HandlerStates
  <2>2. upd' \in Upd /\ UNCHANGED <<local, shard, refresh>>
    BY <1>2, <1>7 DEF Abandon
  <2> QED BY <1>3, <2>1, <2>2
<1>8. CASE Close(c)
  <2>1. Moves
    BY <1>2, <1>8 DEF Close, SetSession, HandlerStates
  <2>2. upd' \in Upd /\ UNCHANGED <<local, shard, refresh>>
    BY <1>2, <1>8 DEF Close
  <2> QED BY <1>3, <2>1, <2>2
<1>9. CASE Lookup(c)
  <2>1. Moves
    BY <1>2, <1>9 DEF Lookup, SetSession, HandlerStates
  <2>2. upd' \in Upd /\ UNCHANGED <<local, shard, refresh>>
    BY <1>2, <1>9 DEF Lookup
  <2> QED BY <1>3, <2>1, <2>2
<1>10. CASE Delete(c)
  <2>1. Moves
    BY <1>2, <1>10 DEF Delete, SetSession, HandlerStates
  <2>2. upd' \in Upd /\ UNCHANGED <<local, shard, refresh>>
    BY <1>2, <1>10 DEF Delete
  <2> QED BY <1>3, <2>1, <2>2
<1>11. CASE Update(c)
  <2>1. Moves
    BY <1>2, <1>11 DEF Update, SetSession, HandlerStates
  <2>2. upd' \in Upd /\ UNCHANGED <<local, shard, refresh>>
    BY <1>2, <1>11 DEF Update
  <2> QED BY <1>3, <2>1, <2>2
<1>12. CASE ReadSession(c)
  <2>1. Moves
    BY <1>2, <1>12 DEF ReadSession, SetSession, HandlerStates
  <2>2. upd' \in Upd /\ UNCHANGED <<local, shard, refresh>>
    BY <1>2, <1>12 DEF ReadSession
  <2> QED BY <1>3, <2>1, <2>2
<1>13. CASE WriteSession(c)
  <2>1. Moves
    BY <1>2, <1>13 DEF WriteSession, SetSession, HandlerStates
  <2>2. upd' \in Upd /\ UNCHANGED <<local, shard, refresh>>
    BY <1>2, <1>13 DEF WriteSession
  <2> QED BY <1>3, <2>1, <2>2
<1>14. CASE ReceiveEnds(c)
  <2>1. Moves
    BY <1>2, <1>14 DEF ReceiveEnds, SetSession, HandlerStates
  <2>2. upd' \in Upd /\ UNCHANGED <<local, shard, refresh>>
    BY <1>2, <1>14 DEF ReceiveEnds
  <2> QED BY <1>3, <2>1, <2>2
<1>15. CASE LocalInsert(c)
  <2>1. /\ hpc[c] = "insert" /\ hpc' = [hpc EXCEPT ![c] = "replay"] /\ ~Guarded(c)
        /\ local' = local \cup {c} /\ UNCHANGED <<upd, shard, ttl, hb, cur, todo, missed>>
    BY <1>15 DEF LocalInsert, refresh
  <2>2. UNCHANGED due
    BY <1>15 DEF LocalInsert, refresh
  <2>3. TypeOK'
    <3>1. due' \in BOOLEAN
      BY <1>1, <2>2 DEF TypeOK
    <3> QED BY <1>1, <2>1, <3>1 DEF TypeOK, HandlerStates
  <2>4. Tracked' /\ Fresh' /\ Visiting' /\ StuckByExpiry'
    BY <1>1, <2>1 DEF Tracked, Fresh, Visiting, StuckByExpiry, TypeOK, InShard
  <2>5. Visited'
    BY <1>1, <2>1 DEF Visited, Fresh
  <2>6. Owed'
    BY <1>1, <2>1, <2>2 DEF Owed
  <2>7. Located'
    <3>1. \A d \in local : ttl[d] + missed + Owing >= SessionTtl
      BY <1>1, LocatedOwing
    <3>2. ttl[c] + missed >= SessionTtl
      BY <1>1, <2>1 DEF Fresh
    <3>3. missed \in 0..SessionTtl /\ Owing' = Owing
      BY <1>1, <2>2 DEF TypeOK, Owing
    <3>4. \A d \in local' : ttl'[d] + missed' + Owing' >= SessionTtl
      BY <1>2, <2>1, <3>1, <3>2, <3>3, OwingType
    <3> QED BY <3>4 DEF Located, Owing
  <2> QED BY <2>3, <2>4, <2>5, <2>6, <2>7 DEF StoreInv
<1>16. CASE LocalRemove(c)
  <2>1. /\ hpc' = [hpc EXCEPT ![c] = "lookup"] /\ ~Guarded(c)
        /\ local' = local \ {c} /\ UNCHANGED <<upd, shard, ttl, hb, cur, todo, missed>>
    BY <1>16 DEF LocalRemove, refresh
  <2>2. UNCHANGED due
    BY <1>16 DEF LocalRemove, refresh
  <2>3. TypeOK'
    <3>1. due' \in BOOLEAN
      BY <1>1, <2>2 DEF TypeOK
    <3> QED BY <1>1, <2>1, <3>1 DEF TypeOK, HandlerStates
  <2>4. Tracked' /\ Fresh' /\ StuckByExpiry'
    BY <1>1, <2>1 DEF Tracked, Fresh, StuckByExpiry, TypeOK
  <2>5. Visiting'
    <3>1. c \notin todo
      BY <1>1, <2>1 DEF Visiting, Guarded, InShard
    <3> QED BY <1>1, <2>1, <3>1 DEF Visiting, InShard
  <2>6. Visited'
    BY <1>1, <2>1 DEF Visited
  <2>7. Owed'
    BY <1>1, <2>1, <2>2 DEF Owed
  <2>8. Located'
    BY <1>1, <2>1, <2>2 DEF Located
  <2> QED BY <2>3, <2>4, <2>5, <2>6, <2>7, <2>8 DEF StoreInv
<1> QED
  BY <1>4, <1>5, <1>6, <1>7, <1>8, <1>9, <1>10, <1>11, <1>12, <1>13, <1>14, <1>15, <1>16
  DEF HandlerStep, ClientStep

----------------------------------------------------------------------------
(* Steps of the heartbeat task and of time                                 *)

\* One more missed refresh stays within the bound.
LEMMA AnotherMissBounds ==
    ASSUME TypeOK
    PROVE  /\ AnotherMiss \in 0..SessionTtl /\ AnotherMiss >= missed
           /\ AnotherMiss = missed + 1 \/ AnotherMiss = SessionTtl
BY DEF AnotherMiss, TypeOK

\* A round that ends with an error is paid for by a miss.
LEMMA GiveUpInv ==
    ASSUME StoreInv, due, hb # "stuck", GiveUp, UNCHANGED <<handlers, local, shard>>,
           ttl' \in [Conn -> 0..SessionTtl], \A c \in Conn : ttl'[c] >= ttl[c]
    PROVE  StoreInv'
<1>1. /\ hpc' = hpc /\ upd' = upd /\ local' = local /\ shard' = shard /\ cur' = cur
      /\ hb' = "idle" /\ todo' = {} /\ missed' = AnotherMiss
  BY DEF GiveUp, handlers
<1>2. due' = FALSE
  BY DEF GiveUp
<1>3. missed \in 0..SessionTtl /\ missed' \in 0..SessionTtl /\ missed' >= missed
      /\ (missed' = missed + 1 \/ missed' = SessionTtl)
  BY <1>1, AnotherMissBounds DEF StoreInv, TypeOK
<1>4. ttl \in [Conn -> 0..SessionTtl] /\ local \subseteq Conn
  BY DEF StoreInv, TypeOK
<1>5. TypeOK'
  <2>1. due' \in BOOLEAN
    BY <1>2
  <2> QED BY <1>1, <1>3, <2>1 DEF StoreInv, TypeOK
<1>6. Tracked' /\ Visiting' /\ Visited' /\ StuckByExpiry'
  BY <1>1 DEF StoreInv, Tracked, Visiting, Visited, StuckByExpiry, InShard
<1>7. Fresh'
  BY <1>1, <1>3, <1>4 DEF StoreInv, Fresh
<1>8. Owed'
  BY <1>1 DEF Owed
<1>9. Located'
  <2>1. \A c \in local : ttl[c] + missed + Owing >= SessionTtl
    BY LocatedOwing DEF StoreInv
  <2>2. Owing = 1 /\ Owing' = 0
    BY <1>2 DEF Owing
  <2>3. \A c \in local' : ttl'[c] + missed' + Owing' >= SessionTtl
    BY <1>1, <1>3, <1>4, <2>1, <2>2
  <2> QED BY <2>3 DEF Located, Owing
<1> QED BY <1>5, <1>6, <1>7, <1>8, <1>9 DEF StoreInv

\* A step inside a round: it moves on, or refreshes a session.
LEMMA RoundInv ==
    ASSUME StoreInv, due, UNCHANGED <<handlers, local, shard>>, UNCHANGED missed, UNCHANGED due,
           ttl' \in [Conn -> 0..SessionTtl], \A c \in Conn : ttl'[c] >= ttl[c],
           cur' \in 1..Shards, todo' \subseteq InShard(cur'),
           \/ hb' = "scan" /\ hb # "stuck" /\ Visited'
           \/ hb' = "stuck" /\ missed + 1 >= SessionTtl
    PROVE  StoreInv'
<1>1. /\ hpc' = hpc /\ upd' = upd /\ local' = local /\ shard' = shard
      /\ hb' \in {"scan", "stuck"} /\ missed' = missed
  BY DEF handlers
<1>2. missed \in 0..SessionTtl /\ ttl \in [Conn -> 0..SessionTtl] /\ local \subseteq Conn
  BY DEF StoreInv, TypeOK
<1>3. TypeOK'
  <2>1. due' \in BOOLEAN
    BY DEF StoreInv, TypeOK
  <2>2. todo' \subseteq Conn
    BY <1>2 DEF InShard
  <2> QED BY <1>1, <2>1, <2>2 DEF StoreInv, TypeOK
<1>4. Tracked' /\ Visited' /\ StuckByExpiry'
  BY <1>1 DEF StoreInv, Tracked, Visited, StuckByExpiry
<1>5. Visiting'
  BY <1>1 DEF Visiting, InShard
<1>6. Fresh'
  BY <1>1, <1>2 DEF StoreInv, Fresh
<1>7. Owed'
  BY DEF Owed
<1>8. Located'
  <2>1. \A c \in local : ttl[c] + missed + Owing >= SessionTtl
    BY LocatedOwing DEF StoreInv
  <2>2. Owing = 1 /\ Owing' = 1
    BY DEF Owing
  <2>3. \A c \in local' : ttl'[c] + missed' + Owing' >= SessionTtl
    BY <1>1, <1>2, <2>1, <2>2
  <2> QED BY <2>3 DEF Located, Owing
<1> QED BY <1>3, <1>4, <1>5, <1>6, <1>7, <1>8 DEF StoreInv

\* A refresh, complete or failed, keeps the invariant.
LEMMA RefreshInv ==
    ASSUME StoreInv, RefreshStep
    PROVE  StoreInv'
<1>1. /\ ttl \in [Conn -> 0..SessionTtl] /\ local \subseteq Conn /\ cur \in 1..Shards
      /\ todo \subseteq InShard(cur) /\ missed \in 0..SessionTtl
      /\ shard \in [Conn -> 1..Shards]
  BY DEF StoreInv, TypeOK, Visiting
<1>2. hb = "scan" => due /\ Visited
  BY DEF StoreInv, Owed
<1>3. CASE BeginRefresh
  <2>1. due /\ hb = "idle" /\ UNCHANGED <<handlers, local, shard>> /\ ttl' = ttl
    BY <1>3 DEF BeginRefresh
  <2>2. ttl' \in [Conn -> 0..SessionTtl] /\ \A c \in Conn : ttl'[c] >= ttl[c]
    BY <1>1, <2>1
  <2>3. CASE GiveUp
    BY <2>1, <2>2, <2>3, GiveUpInv
  <2>4. CASE hb' = "scan" /\ cur' = 1 /\ todo' = InShard(1) /\ UNCHANGED <<due, missed>>
    <3>1. Visited'
      BY <1>1, <2>1, <2>4 DEF Visited, InShard
    <3>2. cur' \in 1..Shards /\ todo' \subseteq InShard(cur')
      BY <2>4
    <3> QED BY <2>1, <2>2, <2>4, <3>1, <3>2, RoundInv
  <2> QED BY <1>3, <2>3, <2>4 DEF BeginRefresh
<1>4. CASE NextShard
  <2>1. hb = "scan" /\ todo = {} /\ UNCHANGED <<handlers, local, shard>> /\ ttl' = ttl
    BY <1>4 DEF NextShard
  <2>2. ttl' \in [Conn -> 0..SessionTtl] /\ \A c \in Conn : ttl'[c] >= ttl[c]
    BY <1>1, <2>1
  <2>3. CASE cur < Shards
    <3>1. /\ cur' = cur + 1 /\ todo' = InShard(cur + 1) /\ hb' = "scan" /\ missed' = missed
      BY <1>4, <2>1, <2>3 DEF NextShard
    <3>2. due' = due
      BY <1>4, <2>3 DEF NextShard
    <3>3. Visited'
      BY <1>1, <1>2, <2>1, <3>1 DEF Visited, InShard
    <3>4. cur' \in 1..Shards /\ todo' \subseteq InShard(cur')
      BY <1>1, <2>3, <3>1
    <3> QED BY <1>2, <2>1, <2>2, <3>1, <3>2, <3>3, <3>4, RoundInv
  <2>4. CASE ~ cur < Shards
    <3>1. hb' = "idle" /\ missed' = 0 /\ cur' = cur /\ todo' = todo
      BY <1>4, <2>4 DEF NextShard
    <3>2. due' = FALSE
      BY <1>4, <2>4 DEF NextShard
    <3>3. \A c \in local : ttl[c] = SessionTtl
      BY <1>1, <1>2, <2>1, <2>4 DEF Visited
    <3>4. hpc' = hpc /\ upd' = upd /\ local' = local /\ shard' = shard
      BY <2>1 DEF handlers
    <3>5. TypeOK'
      <4>1. due' \in BOOLEAN
        BY <3>2
      <4> QED BY <1>1, <2>1, <3>1, <3>4, <4>1 DEF StoreInv, TypeOK
    <3>6. Tracked' /\ Visiting' /\ Visited' /\ StuckByExpiry'
      BY <2>1, <3>1, <3>4 DEF StoreInv, Tracked, Visiting, Visited, StuckByExpiry, InShard
    <3>7. Fresh'
      BY <1>1, <2>1, <3>1, <3>4 DEF StoreInv, Fresh
    <3>8. Owed'
      BY <3>1 DEF Owed
    <3>9. Located'
      <4>1. \A c \in local' : ttl'[c] + missed' >= SessionTtl
        BY <1>1, <2>1, <3>1, <3>3, <3>4
      <4>2. Owing' = 0
        BY <3>2 DEF Owing
      <4>3. \A c \in local' : ttl'[c] + missed' + Owing' >= SessionTtl
        BY <1>1, <2>1, <3>1, <3>4, <4>1, <4>2
      <4> QED BY <4>3 DEF Located, Owing
    <3> QED BY <3>5, <3>6, <3>7, <3>8, <3>9 DEF StoreInv
  <2> QED BY <2>3, <2>4
<1>5. ASSUME NEW c \in Conn, RefreshOne(c) PROVE StoreInv'
  <2>1. hb = "scan" /\ c \in todo /\ UNCHANGED <<handlers, local, shard>>
    BY <1>5 DEF RefreshOne
  <2>2. ttl' = ttl \/ ttl' = [ttl EXCEPT ![c] = SessionTtl]
    BY <1>5 DEF RefreshOne
  <2>3. ttl' \in [Conn -> 0..SessionTtl] /\ \A d \in Conn : ttl'[d] >= ttl[d]
    BY <1>1, <2>2
  <2>4. CASE GiveUp
    BY <1>2, <2>1, <2>3, <2>4, GiveUpInv
  <2>5. CASE /\ ttl' = [ttl EXCEPT ![c] = SessionTtl] /\ todo' = todo \ {c}
             /\ UNCHANGED <<hb, cur, due, missed>>
    <3>1. Visited'
      BY <1>1, <1>2, <2>1, <2>5 DEF Visited
    <3>2. cur' \in 1..Shards /\ todo' \subseteq InShard(cur')
      BY <1>1, <2>5
    <3> QED BY <1>2, <2>1, <2>3, <2>5, <3>1, <3>2, RoundInv
  <2>6. CASE ttl[c] = 0 /\ hb' = "stuck" /\ UNCHANGED <<ttl, cur, todo, due, missed>>
    <3>1. c \in local /\ (\A d \in local : ttl[d] + missed + Owing >= SessionTtl)
      BY <1>1, <2>1, LocatedOwing DEF StoreInv, InShard
    <3>2. missed + 1 >= SessionTtl
      BY <1>1, <2>6, <3>1, OwingType
    <3>3. cur' \in 1..Shards /\ todo' \subseteq InShard(cur')
      BY <1>1, <2>6
    <3> QED BY <1>2, <2>1, <2>3, <2>6, <3>2, <3>3, RoundInv
  <2> QED BY <1>5, <2>4, <2>5, <2>6 DEF RefreshOne
<1> QED BY <1>3, <1>4, <1>5 DEF RefreshStep

\* The passing of time keeps the invariant.
LEMMA TickInv ==
    ASSUME StoreInv, Tick
    PROVE  StoreInv'
<1>1. /\ hpc' = hpc /\ upd' = upd /\ local' = local /\ shard' = shard
      /\ hb' = hb /\ cur' = cur /\ todo' = todo
  BY DEF Tick, handlers
<1>2. due' = TRUE
  BY DEF Tick
<1>3. missed' = IF due THEN AnotherMiss ELSE missed
  BY DEF Tick
<1>4. missed \in 0..SessionTtl /\ missed' \in 0..SessionTtl /\ missed' >= missed
  <2>1. missed' = AnotherMiss \/ missed' = missed
    BY <1>3
  <2> QED BY <2>1, AnotherMissBounds DEF StoreInv, TypeOK
<1>5. ttl \in [Conn -> 0..SessionTtl] /\ local \subseteq Conn
  BY DEF StoreInv, TypeOK
<1>14. ttl' \in [Conn -> 0..SessionTtl] /\ \A c \in Conn : ttl'[c] + 1 >= ttl[c]
  BY <1>5 DEF Tick
<1>6. hb # "scan"
  BY DEF StoreInv, Owed, Tick
<1>7. due => missed' = missed + 1 \/ missed' = SessionTtl
  BY <1>3, AnotherMissBounds DEF StoreInv
<1>8. TypeOK'
  <2>1. due' \in BOOLEAN
    BY <1>2
  <2> QED BY <1>1, <1>4, <1>14, <2>1 DEF StoreInv, TypeOK
<1>9. Tracked' /\ Visiting' /\ Visited'
  BY <1>1, <1>6 DEF StoreInv, Tracked, Visiting, Visited, InShard
<1>10. Fresh'
  <2> SUFFICES ASSUME NEW c \in Conn, hpc'[c] = "insert"
               PROVE  ttl'[c] + missed' >= SessionTtl /\ hb' = "stuck"
    BY DEF Fresh
  <2>1. hb = "stuck"
    BY <1>1, <1>6 DEF Tick, Guarded
  <2>2. due
    BY <2>1 DEF StoreInv, Owed
  <2>3. missed' = missed + 1 \/ missed' = SessionTtl
    BY <1>7, <2>2
  <2>4. ttl[c] + missed >= SessionTtl
    BY <1>1 DEF StoreInv, Fresh
  <2> QED BY <1>1, <1>4, <1>5, <1>14, <2>1, <2>3, <2>4
<1>11. StuckByExpiry'
  <2>1. hb = "stuck" => missed + 1 >= SessionTtl
    BY DEF StoreInv, StuckByExpiry
  <2>2. \A m, n, k \in Nat : m + 1 >= k /\ n >= m => n + 1 >= k
    OBVIOUS
  <2>3. missed \in Nat /\ missed' \in Nat /\ SessionTtl \in Nat /\ missed' >= missed
    BY <1>4
  <2> QED BY <1>1, <2>1, <2>2, <2>3 DEF StuckByExpiry
<1>12. Owed'
  BY <1>2 DEF Owed
<1>13. Located'
  <2>1. \A c \in local : ttl[c] + missed + Owing >= SessionTtl
    BY LocatedOwing DEF StoreInv
  <2>2. Owing' = 1
    BY <1>2 DEF Owing
  <2>3. Owing = 0 \/ (Owing = 1 /\ (missed' = missed + 1 \/ missed' = SessionTtl))
    BY <1>7 DEF Owing
  <2>4. \A c \in local' : ttl'[c] + missed' + Owing' >= SessionTtl
    BY <1>1, <1>4, <1>5, <1>14, <2>1, <2>2, <2>3
  <2> QED BY <2>4 DEF Located, Owing
<1> QED BY <1>8, <1>9, <1>10, <1>11, <1>12, <1>13 DEF StoreInv

\* A shutdown keeps the invariant.
LEMMA StopInv ==
    ASSUME StoreInv, StopHeartbeat
    PROVE  StoreInv'
<1>1. /\ hpc' = hpc /\ upd' = upd /\ local' = local /\ shard' = shard /\ ttl' = ttl
      /\ hb = "idle" /\ hb' = "stopped" /\ cur' = cur /\ todo' = todo /\ missed' = missed
  BY DEF StopHeartbeat, handlers
<1>2. due' = due
  BY DEF StopHeartbeat
<1>3. TypeOK'
  <2>1. due' \in BOOLEAN
    BY <1>2 DEF StoreInv, TypeOK
  <2> QED BY <1>1, <2>1 DEF StoreInv, TypeOK
<1>4. Tracked' /\ Fresh' /\ Visiting' /\ Visited' /\ StuckByExpiry'
  BY <1>1 DEF StoreInv, Tracked, Fresh, Visiting, Visited, StuckByExpiry, InShard
<1>5. Owed'
  BY <1>1 DEF Owed
<1>6. Located'
  BY <1>1, <1>2 DEF StoreInv, Located
<1> QED BY <1>3, <1>4, <1>5, <1>6 DEF StoreInv

\* A crash keeps the invariant.
LEMMA CrashInv ==
    ASSUME StoreInv, Crash
    PROVE  StoreInv'
<1>1. /\ hpc' = [c \in Conn |-> IF hpc[c] = "none" THEN "none" ELSE "gone"]
      /\ upd' = [c \in Conn |-> "ended"] /\ local' = {} /\ shard' = shard /\ ttl' = ttl
      /\ hb' = "stopped" /\ cur' = cur /\ todo' = {} /\ missed' = SessionTtl
  BY DEF Crash
<1>2. due' = TRUE
  BY DEF Crash
<1>3. TypeOK'
  <2>1. due' \in BOOLEAN
    BY <1>2
  <2> QED BY <1>1, <2>1 DEF StoreInv, TypeOK, HandlerStates
<1>4. Tracked' /\ Fresh' /\ Visiting' /\ Visited' /\ Located' /\ StuckByExpiry'
  BY <1>1 DEF Tracked, Fresh, Visiting, Visited, Located, StuckByExpiry, InShard
<1>5. Owed'
  BY <1>1 DEF Owed
<1> QED BY <1>3, <1>4, <1>5 DEF StoreInv

----------------------------------------------------------------------------

\* Every step keeps the invariant of the store.
LEMMA NextStoreInv == StoreInv /\ [Next]_vars => StoreInv'
<1> SUFFICES ASSUME StoreInv, [Next]_vars PROVE StoreInv'
  OBVIOUS
<1>1. ASSUME NEW c \in Conn, HandlerStep(c) \/ ClientStep(c) PROVE StoreInv'
  BY <1>1, HandlerInv
<1>2. CASE UNCHANGED vars
  <2>1. /\ hpc' = hpc /\ upd' = upd /\ local' = local /\ shard' = shard /\ ttl' = ttl
        /\ hb' = hb /\ cur' = cur /\ todo' = todo /\ missed' = missed
    BY <1>2 DEF vars, handlers, refresh
  <2>2. due' = due
    BY <1>2 DEF vars, refresh
  <2> QED
    BY <2>1, <2>2
    DEF StoreInv, TypeOK, Tracked, Fresh, Visiting, Visited, Owed, Located, StuckByExpiry, InShard
<1> QED BY <1>1, <1>2, RefreshInv, StopInv, TickInv, CrashInv DEF Next

\* StoreInv holds in every state of the store and its users.
THEOREM StoreInvariant == Spec => []StoreInv
BY InitStoreInv, NextStoreInv, PTL DEF Spec

\* Every variable keeps its type: no session outlives its TTL and no miss is counted
\* beyond the life of a session.
THEOREM StoreTypes == Spec => []TypeOK
<1>1. StoreInv => TypeOK
  BY DEF StoreInv
<1> QED BY <1>1, StoreInvariant, PTL

\* A connection in local_connections has a session that lives as long as the missed
\* refreshes allow, whatever handlers, updates, failures and crashes interleave.
THEOREM ConnectionsLocated == Spec => []Located
<1>1. StoreInv => Located
  BY DEF StoreInv
<1> QED BY <1>1, StoreInvariant, PTL

\* Only an expiry after missed refreshes makes refresh_sessions wait for itself.
THEOREM HeartbeatSticksByExpiry == Spec => []StuckByExpiry
<1>1. StoreInv => StuckByExpiry
  BY DEF StoreInv
<1> QED BY <1>1, StoreInvariant, PTL
=============================================================================

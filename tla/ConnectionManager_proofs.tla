---------------------- MODULE ConnectionManager_proofs ----------------------
(* Proofs about ConnectionManager for every number of connections, users,
   tenants and channels and every limit.                                    *)
EXTENDS ConnectionManager, FiniteSetTheorems, TLAPS

USE ConstantsOK

\* The initial registry is well typed.
LEMMA InitTypeOK == Init => TypeOK
  BY DEF Init, TypeOK, Key, Task, Label, Registering, Receiving

\* The connection a task unregisters is one of the connections.
LEMMA TargetType ==
    ASSUME TypeOK, Stages, NEW t \in Task, pc[t] \in Unregistering \cup {"remove"}
    PROVE  Target(t) \in Conn
  BY DEF TypeOK, Stages, Task, Target, Unregistering

\* Every step keeps the registry well typed: no operation of manager.rs puts
\* anything but connection ids into the indexes or leaves its control flow.
LEMMA NextTypeOK == TypeOK /\ Stages /\ Guards /\ [Next]_vars => TypeOK'
<1> SUFFICES ASSUME TypeOK, Stages, Guards, [Next]_vars PROVE TypeOK'
  OBVIOUS
<1> USE DEF TypeOK, Key, Task, Goto, indexes, sweep, receiver, Label, Registering,
            Unregistering, Receiving
<1>1. ASSUME NEW c \in Conn, Register(c) PROVE TypeOK'
  <2>1. CASE CheckTotal(c) \/ CheckUser(c)
    BY <2>1 DEF CheckTotal, CheckUser
  <2>2. CASE Insert(c)
    BY <2>2 DEF Insert
  <2>3. CASE PushUser(c) \/ PushTenant(c)
    BY <2>3 DEF PushUser, PushTenant, AddToEntry
  <2> QED BY <1>1, <2>1, <2>2, <2>3 DEF Register
<1>2. ASSUME NEW c \in Conn, Disconnect(c) \/ Activity(c) \/ TimePasses(c) PROVE TypeOK'
  BY <1>2 DEF Disconnect, Activity, TimePasses
<1>3. ASSUME NEW c \in Conn, Subscribe(c) \/ Unsubscribe(c) PROVE TypeOK'
  <2>1. PICK label \in {"sub_limit", "unsub_remove"} : Begin(c, label)
    BY <1>3 DEF Subscribe, Unsubscribe
  <2>2. rpc' \in [Conn -> Receiving] /\ rch' \in [Conn -> Channel \cup {NoChannel}]
    BY <2>1 DEF Begin
  <2> QED BY <2>1, <2>2 DEF Begin
<1>4. ASSUME NEW c \in Conn, Serve(c) PROVE TypeOK'
  <2> rpc[c] # "recv" /\ rch[c] \in Channel
    BY <1>4 DEF Serve, CheckSubscriptions, InsertSubscription, IndexSubscription,
                RemoveSubscription, UnindexSubscription, DropChannel, RecvStep, Guards
  <2>1. CASE CheckSubscriptions(c)
    BY <2>1 DEF CheckSubscriptions, RecvStep
  <2>2. CASE InsertSubscription(c) \/ RemoveSubscription(c)
    BY <2>2 DEF InsertSubscription, RemoveSubscription, RecvStep
  <2>4. CASE IndexSubscription(c)
    BY <2>4 DEF IndexSubscription, RecvStep, AddToEntry
  <2>5. CASE DropChannel(c)
    BY <2>5 DEF DropChannel, RecvStep, RemoveEntry
  <2>3. CASE UnindexSubscription(c)
    BY <2>3 DEF UnindexSubscription, RecvStep
  <2> QED BY <1>4, <2>1, <2>2, <2>3, <2>4, <2>5 DEF Serve
<1>5. ASSUME NEW t \in Task, Remove(t) PROVE TypeOK'
  BY <1>5 DEF Remove, Target, Return
<1>6. ASSUME NEW t \in Task, Unindex(t) PROVE TypeOK'
  <2>1. CASE LeaveUser(t) \/ LeaveTenant(t)
    BY <2>1, TargetType DEF LeaveUser, LeaveTenant, LeaveEntry
  <2>2. CASE ReadSubscriptions(t)
    BY <2>2, TargetType DEF ReadSubscriptions
  <2>3. CASE LeaveChannel(t)
    <3>1. PICK ch \in todo[t] : LeaveEntry(t, ch) /\ todo' = [todo EXCEPT ![t] = @ \ {ch}]
      BY <2>3 DEF LeaveChannel
    <3>2. ch \in Key /\ index' \in [Key -> SUBSET Conn] /\ drop' \in [Task -> SUBSET Key]
      BY <3>1 DEF LeaveEntry
    <3> QED BY <2>3, <3>1, <3>2 DEF LeaveChannel
  <2>4. CASE DropEntry(t)
    BY <2>4 DEF DropEntry, RemoveEntry
  <2>5. CASE Unregistered(t)
    BY <2>5 DEF Unregistered, Return
  <2> QED BY <1>6, <2>1, <2>2, <2>3, <2>4, <2>5 DEF Unindex
<1>7. ASSUME FindStale \/ NextStale PROVE TypeOK'
  BY <1>7 DEF FindStale, NextStale
<1>8. ASSUME UNCHANGED vars PROVE TypeOK'
  BY <1>8 DEF vars
<1> QED BY <1>1, <1>2, <1>3, <1>4, <1>5, <1>6, <1>7, <1>8 DEF Next

----------------------------------------------------------------------------
\* What an unregister in progress changes, seen from outside: it stays in the
\* control flow of unregister and touches neither connections nor the receivers.
LEMMA UnindexFrame ==
    ASSUME IInv, NEW t \in Task, Unindex(t)
    PROVE  /\ UNCHANGED <<connections, subs, idle, stale, rpc, rch>>
           /\ \A u \in Task \ {t} : pc'[u] = pc[u]
           /\ pc[t] \in Unregistering => pc'[t] \in Unregistering \cup {Return(t)}
           /\ pc[t] \notin Unregistering => pc'[t] = pc[t]
           /\ victim' = victim \/ (t = Cleaner /\ pc'[t] = "sweep" /\ victim' = NoConn)
<1> USE DEF IInv, TypeOK, Goto, indexes, sweep, receiver, Unregistering
<1>1. CASE LeaveUser(t) \/ LeaveTenant(t)
  BY <1>1 DEF LeaveUser, LeaveTenant
<1>2. CASE ReadSubscriptions(t) \/ LeaveChannel(t) \/ DropEntry(t)
  BY <1>2 DEF ReadSubscriptions, LeaveChannel, DropEntry
<1>3. CASE Unregistered(t)
  BY <1>3 DEF Unregistered, Return
<1> QED BY <1>1, <1>2, <1>3 DEF Unindex

\* What a receive task changes, seen from outside.
LEMMA ReceiverFrame ==
    ASSUME IInv, NEW c \in Conn, Subscribe(c) \/ Unsubscribe(c) \/ Serve(c)
    PROVE  /\ UNCHANGED <<connections, pc, todo, drop, stale, victim>>
           /\ idle' = idle \/ idle' = [idle EXCEPT ![c] = FALSE]
           /\ \A d \in Conn \ {c} : UNCHANGED <<rpc[d], rch[d], subs[d]>>
<1> USE DEF IInv, TypeOK, indexes, sweep, receiver
<1>1. CASE Subscribe(c) \/ Unsubscribe(c)
  BY <1>1 DEF Subscribe, Unsubscribe, Begin
<1>2. CASE Serve(c)
  BY <1>2 DEF Serve, CheckSubscriptions, InsertSubscription, IndexSubscription,
              RemoveSubscription, UnindexSubscription, DropChannel, RecvStep
<1> QED BY <1>1, <1>2

\* The control flow of registration, unregistration and sweep is kept.
LEMMA NextStages == IInv /\ [Next]_vars => Stages'
<1> SUFFICES ASSUME IInv, [Next]_vars PROVE Stages'
  OBVIOUS
<1>0. TypeOK'
  BY NextTypeOK DEF IInv
<1> USE DEF IInv, TypeOK, Stages, Unregisters, Target, Goto, Task,
            indexes, sweep, receiver, Registering, Unregistering
<1>1. ASSUME NEW c \in Conn, Register(c) PROVE Stages'
  <2>1. CASE CheckTotal(c)
    BY <2>1 DEF CheckTotal, FreshId
  <2>2. CASE CheckUser(c)
    BY <2>2 DEF CheckUser
  <2>3. CASE Insert(c)
    BY <2>3 DEF Insert
  <2>4. CASE PushUser(c) \/ PushTenant(c)
    BY <2>4 DEF PushUser, PushTenant
  <2> QED BY <1>1, <2>1, <2>2, <2>3, <2>4 DEF Register
<1>2. ASSUME NEW c \in Conn, Disconnect(c) \/ Activity(c) \/ TimePasses(c) PROVE Stages'
  BY <1>2 DEF Disconnect, Activity, TimePasses
<1>3. ASSUME NEW c \in Conn, Subscribe(c) \/ Unsubscribe(c) \/ Serve(c) PROVE Stages'
  BY <1>3, ReceiverFrame
<1>4. ASSUME NEW t \in Task, Remove(t) PROVE Stages'
  <2>1. CASE t = Cleaner
    BY <1>4, <2>1 DEF Remove, Return
  <2>2. CASE t \in Conn
    BY <1>4, <2>2 DEF Remove, Return
  <2> QED BY <2>1, <2>2
<1>5. ASSUME NEW t \in Task, Unindex(t) PROVE Stages'
  <2>1. CASE t = Cleaner
    BY <1>5, <2>1, UnindexFrame DEF Return
  <2>2. CASE t \in Conn
    BY <1>5, <2>2, UnindexFrame DEF Return
  <2> QED BY <2>1, <2>2
<1>6. ASSUME FindStale PROVE Stages'
  BY <1>6 DEF FindStale
<1>7. ASSUME NextStale PROVE Stages'
  BY <1>7 DEF NextStale
<1>8. ASSUME UNCHANGED vars PROVE Stages'
  BY <1>8 DEF vars
<1> QED BY <1>1, <1>2, <1>3, <1>4, <1>5, <1>6, <1>7, <1>8 DEF Next

\* The guards of the receive tasks keep their connections registered.
LEMMA NextGuards == IInv /\ [Next]_vars => Guards'
<1> SUFFICES ASSUME IInv, [Next]_vars PROVE Guards'
  OBVIOUS
<1> USE DEF IInv, TypeOK, Guards, Goto, indexes, sweep, receiver
<1>1. ASSUME NEW c \in Conn, Register(c) PROVE Guards'
  <2>1. CASE Insert(c)
    BY <2>1 DEF Insert, Stages
  <2>2. CASE CheckTotal(c) \/ CheckUser(c) \/ PushUser(c) \/ PushTenant(c)
    BY <2>2 DEF CheckTotal, CheckUser, PushUser, PushTenant
  <2> QED BY <1>1, <2>1, <2>2 DEF Register
<1>2. ASSUME NEW c \in Conn, Disconnect(c) \/ Activity(c) \/ TimePasses(c) PROVE Guards'
  BY <1>2 DEF Disconnect, Activity, TimePasses
<1>3. ASSUME NEW c \in Conn, Subscribe(c) \/ Unsubscribe(c) PROVE Guards'
  BY <1>3 DEF Subscribe, Unsubscribe, Begin
<1>4. ASSUME NEW c \in Conn, Serve(c) PROVE Guards'
  <2>1. CASE CheckSubscriptions(c) \/ InsertSubscription(c)
    BY <2>1 DEF CheckSubscriptions, InsertSubscription, RecvStep
  <2>2. CASE RemoveSubscription(c) \/ UnindexSubscription(c)
    BY <2>2 DEF RemoveSubscription, UnindexSubscription, RecvStep
  <2>3. CASE IndexSubscription(c) \/ DropChannel(c)
    BY <2>3 DEF IndexSubscription, DropChannel, RecvStep
  <2> QED BY <1>4, <2>1, <2>2, <2>3 DEF Serve
<1>5. ASSUME NEW t \in Task, Remove(t) PROVE Guards'
  <2>1. Target(t) \in Conn
    BY <1>5, TargetType DEF Remove
  <2> QED BY <1>5, <2>1 DEF Remove, GuardFree
<1>6. ASSUME NEW t \in Task, Unindex(t) PROVE Guards'
  BY <1>6, UnindexFrame
<1>7. ASSUME FindStale \/ NextStale PROVE Guards'
  BY <1>7 DEF FindStale, NextStale
<1>8. ASSUME UNCHANGED vars PROVE Guards'
  BY <1>8 DEF vars
<1> QED BY <1>1, <1>2, <1>3, <1>4, <1>5, <1>6, <1>7, <1>8 DEF Next

\* An unregister in progress only takes ids out of the indexes.
LEMMA UnindexShrinks ==
    ASSUME IInv, NEW t \in Task, Unindex(t), NEW k \in Key
    PROVE  index'[k] \subseteq index[k]
<1> USE DEF IInv, TypeOK, LeaveEntry, indexes
<1>1. CASE LeaveUser(t) \/ LeaveTenant(t) \/ LeaveChannel(t)
  BY <1>1 DEF LeaveUser, LeaveTenant, LeaveChannel
<1>2. CASE ReadSubscriptions(t) \/ Unregistered(t)
  BY <1>2 DEF ReadSubscriptions, Unregistered
<1>3. CASE DropEntry(t)
  BY <1>3 DEF DropEntry, RemoveEntry
<1> QED BY <1>1, <1>2, <1>3 DEF Unindex

\* A fresh id is in no index when its handle is inserted.
LEMMA FreshOnInsert ==
    ASSUME IInv, NEW c \in Conn, pc[c] = "insert", NEW k \in Key
    PROVE  c \notin index[k]
  BY DEF IInv, Stages, NoLeak, Unregisters, Target, Task, Registering, Unregistering

\* Every entry keeps belonging to the handle of the id it holds.
LEMMA NextEntries == IInv /\ [Next]_vars => Entries'
<1> SUFFICES ASSUME IInv, [Next]_vars PROVE Entries'
  OBVIOUS
<1> USE DEF IInv, TypeOK, Entries, Key, indexes, sweep, receiver
<1>1. ASSUME NEW c \in Conn, Register(c) PROVE Entries'
  <2>1. CASE CheckTotal(c) \/ CheckUser(c)
    BY <2>1 DEF CheckTotal, CheckUser
  <2>2. CASE Insert(c)
    BY <2>2, FreshOnInsert DEF Insert
  <2>3. CASE PushUser(c)
    BY <2>3 DEF PushUser, AddToEntry
  <2>4. CASE PushTenant(c)
    BY <2>4 DEF PushTenant, AddToEntry
  <2> QED BY <1>1, <2>1, <2>2, <2>3, <2>4 DEF Register
<1>2. ASSUME NEW c \in Conn, Disconnect(c) \/ Activity(c) \/ TimePasses(c) PROVE Entries'
  BY <1>2 DEF Disconnect, Activity, TimePasses
<1>3. ASSUME NEW c \in Conn, Subscribe(c) \/ Unsubscribe(c) PROVE Entries'
  BY <1>3 DEF Subscribe, Unsubscribe, Begin
<1>4. ASSUME NEW c \in Conn, Serve(c) PROVE Entries'
  <2> rpc[c] # "recv" /\ rch[c] \in Channel
    BY <1>4 DEF Serve, CheckSubscriptions, InsertSubscription, IndexSubscription,
                RemoveSubscription, UnindexSubscription, DropChannel, RecvStep, Guards
  <2>1. CASE CheckSubscriptions(c)
    BY <2>1 DEF CheckSubscriptions, RecvStep
  <2>2. CASE InsertSubscription(c)
    BY <2>2 DEF InsertSubscription, RecvStep
  <2>3. CASE IndexSubscription(c)
    BY <2>3 DEF IndexSubscription, RecvStep, AddToEntry, Guards
  <2>4. CASE RemoveSubscription(c)
    BY <2>4 DEF RemoveSubscription, RecvStep
  <2>5. CASE UnindexSubscription(c)
    BY <2>5 DEF UnindexSubscription, RecvStep
  <2>6. CASE DropChannel(c)
    BY <2>6 DEF DropChannel, RecvStep, RemoveEntry
  <2> QED BY <1>4, <2>1, <2>2, <2>3, <2>4, <2>5, <2>6 DEF Serve
<1>5. ASSUME NEW t \in Task, Remove(t) PROVE Entries'
  BY <1>5 DEF Remove
<1>6. ASSUME NEW t \in Task, Unindex(t) PROVE Entries'
  BY <1>6, UnindexFrame, UnindexShrinks
<1>7. ASSUME FindStale \/ NextStale PROVE Entries'
  BY <1>7 DEF FindStale, NextStale
<1>8. ASSUME UNCHANGED vars PROVE Entries'
  BY <1>8 DEF vars
<1> QED BY <1>1, <1>2, <1>3, <1>4, <1>5, <1>6, <1>7, <1>8 DEF Next

\* Every step keeps NoLeak. The heart is Remove: when an id leaves connections
\* its receive task holds no guard, so all its entries are in the part of
\* unregister that is still ahead.
LEMMA NextNoLeak == IInv /\ [Next]_vars => NoLeak'
<1> SUFFICES ASSUME IInv, [Next]_vars, NEW k \in Key, NEW c \in index'[k],
                    c \notin connections'
             PROVE  \E t \in Task : Unregisters(t, c)' /\ k \in Ahead(t)'
  BY DEF NoLeak
<1>0. TypeOK' /\ c \in Conn
  BY NextTypeOK DEF IInv, TypeOK
<1> DEFINE Old(u) == u \in Task /\ Unregisters(u, c) /\ k \in Ahead(u)
<1>a. ASSUME c \in index[k], c \notin connections PROVE \E u : Old(u)
  BY <1>a DEF IInv, NoLeak
<1>b. ASSUME NEW u, Old(u), UNCHANGED <<pc[u], todo[u], Target(u), subs[c]>>
      PROVE  \E t \in Task : Unregisters(t, c)' /\ k \in Ahead(t)'
  BY <1>b DEF Unregisters, Ahead
<1> USE DEF IInv, TypeOK, Key, Task, Goto, indexes, sweep, receiver
<1>1. ASSUME NEW d \in Conn, Register(d) PROVE \E t \in Task : Unregisters(t, c)' /\ k \in Ahead(t)'
  <2>1. CASE PushUser(d) \/ PushTenant(d)
    <3>1. d \in connections
      BY <2>1 DEF PushUser, PushTenant, Stages
    <3>2. c \in index[k] /\ c \notin connections
      BY <2>1, <3>1 DEF PushUser, PushTenant, AddToEntry
    <3>3. PICK u : Old(u)
      BY <1>a, <3>2
    <3>4. UNCHANGED <<pc[u], todo[u], Target(u), subs[c]>>
      BY <2>1, <3>3 DEF PushUser, PushTenant, Target, Unregisters, Unregistering
    <3> QED BY <1>b, <3>3, <3>4
  <2>2. CASE CheckTotal(d) \/ CheckUser(d) \/ Insert(d)
    <3>2. c \in index[k] /\ c \notin connections
      BY <2>2 DEF CheckTotal, CheckUser, Insert
    <3>3. PICK u : Old(u)
      BY <1>a, <3>2
    <3>4. UNCHANGED <<pc[u], todo[u], Target(u), subs[c]>>
      BY <2>2, <3>3 DEF CheckTotal, CheckUser, Insert, FreshId, Target, Unregisters, Unregistering
    <3> QED BY <1>b, <3>3, <3>4
  <2> QED BY <1>1, <2>1, <2>2 DEF Register
<1>2. ASSUME NEW d \in Conn, Disconnect(d) \/ Activity(d) \/ TimePasses(d) 
      PROVE  \E t \in Task : Unregisters(t, c)' /\ k \in Ahead(t)'
  <2>1. PICK u : Old(u)
    BY <1>2, <1>a DEF Disconnect, Activity, TimePasses
  <2>2. UNCHANGED <<pc[u], todo[u], Target(u), subs[c]>>
    BY <1>2, <2>1 DEF Disconnect, Activity, TimePasses, Target, Unregisters, Unregistering
  <2> QED BY <1>b, <2>1, <2>2
<1>3. ASSUME NEW d \in Conn, Subscribe(d) \/ Unsubscribe(d)
      PROVE  \E t \in Task : Unregisters(t, c)' /\ k \in Ahead(t)'
  <2>1. UNCHANGED <<connections, index, pc, todo, victim, subs>>
    BY <1>3 DEF Subscribe, Unsubscribe, Begin
  <2>2. PICK u : Old(u)
    BY <2>1, <1>a
  <2> QED BY <1>b, <2>1, <2>2 DEF Target
<1>4. ASSUME NEW d \in Conn, Serve(d) PROVE \E t \in Task : Unregisters(t, c)' /\ k \in Ahead(t)'
  <2>1. d \in connections /\ UNCHANGED <<connections, pc, todo, victim>> /\ c # d
    BY <1>4, ReceiverFrame
       DEF Serve, CheckSubscriptions, InsertSubscription, IndexSubscription,
           RemoveSubscription, UnindexSubscription, DropChannel, RecvStep, Guards
  <2>2. c \in index[k] /\ subs'[c] = subs[c]
    <3>1. subs'[c] = subs[c]
      BY <1>4, <2>1, ReceiverFrame, <1>0
    <3>2. CASE IndexSubscription(d)
      BY <2>1, <3>1, <3>2 DEF IndexSubscription, AddToEntry
    <3>3. CASE UnindexSubscription(d) \/ DropChannel(d)
      BY <2>1, <3>1, <3>3 DEF UnindexSubscription, DropChannel, RemoveEntry
    <3>4. CASE CheckSubscriptions(d) \/ InsertSubscription(d) \/ RemoveSubscription(d)
      BY <2>1, <3>1, <3>4 DEF CheckSubscriptions, InsertSubscription, RemoveSubscription
    <3> QED BY <1>4, <3>2, <3>3, <3>4 DEF Serve
  <2>3. PICK u : Old(u)
    BY <1>a, <2>1, <2>2
  <2> QED BY <1>b, <2>1, <2>2, <2>3 DEF Target
<1>5. ASSUME NEW t \in Task, Remove(t) PROVE \E u \in Task : Unregisters(u, c)' /\ k \in Ahead(u)'
  <2>1. Target(t) \in Conn /\ c \in index[k] /\ UNCHANGED <<subs, todo>>
    BY <1>5, TargetType DEF Remove
  <2>2. CASE c = Target(t) /\ c \in connections
    <3>1. pc'[t] = "user" /\ victim' = victim /\ Target(t)' = c
      BY <1>5, <2>2 DEF Remove, Target
    <3>2. k \in {UserOf[c], TenantOf[c]} \cup subs[c]
      BY <1>5, <2>1, <2>2, <1>0 DEF Remove, GuardFree, Entries
    <3> QED BY <2>1, <3>1, <3>2 DEF Unregisters, Ahead, Unregistering
  <2>3. CASE ~(c = Target(t) /\ c \in connections)
    <3>1. c \notin connections
      BY <1>5, <2>1, <2>3 DEF Remove
    <3>2. PICK u : Old(u)
      BY <1>a, <2>1, <3>1
    <3>3. u # t
      BY <1>5, <3>2 DEF Remove, Unregisters, Unregistering
    <3>4. UNCHANGED <<pc[u], todo[u], Target(u), subs[c]>>
      BY <1>5, <2>1, <3>2, <3>3 DEF Remove, Target
    <3> QED BY <1>b, <3>2, <3>4
  <2> QED BY <2>2, <2>3
<1>6. ASSUME NEW t \in Task, Unindex(t) PROVE \E u \in Task : Unregisters(u, c)' /\ k \in Ahead(u)'
  <2>1. c \in index[k] /\ c \notin connections /\ UNCHANGED subs
    BY <1>6, UnindexFrame, UnindexShrinks
  <2>2. PICK u : Old(u)
    BY <1>a, <2>1
  <2>3. CASE u # t
    <3>1. UNCHANGED todo[u]
      BY <1>6, <2>2, <2>3 DEF Unindex, LeaveUser, LeaveTenant, ReadSubscriptions,
                              LeaveChannel, DropEntry, Unregistered
    <3>2. UNCHANGED <<pc[u], Target(u)>>
      BY <1>6, <2>2, <2>3, UnindexFrame DEF Target
    <3> QED BY <1>b, <2>1, <2>2, <3>1, <3>2
  <2>4. CASE u = t
    <3> Target(t) = c /\ k \in Ahead(t) /\ pc[t] \in Unregistering
      BY <2>2, <2>4 DEF Unregisters
    <3> USE DEF Unregisters, Ahead, Unregistering, Target
    <3>1. CASE LeaveUser(t)
      <4>1. k # UserOf[c] /\ pc'[t] = "tenant" /\ UNCHANGED <<todo, victim>>
        BY <3>1, <1>0 DEF LeaveUser, LeaveEntry
      <4> QED BY <2>1, <3>1, <4>1 DEF LeaveUser
    <3>2. CASE LeaveTenant(t)
      <4>1. k # TenantOf[c] /\ pc'[t] = "subscriptions" /\ UNCHANGED <<todo, victim>>
        BY <3>2, <1>0 DEF LeaveTenant, LeaveEntry
      <4> QED BY <2>1, <3>2, <4>1 DEF LeaveTenant
    <3>3. CASE ReadSubscriptions(t)
      <4>1. pc'[t] = "channels" /\ todo'[t] = subs[c] /\ UNCHANGED victim
        BY <3>3 DEF ReadSubscriptions
      <4> QED BY <2>1, <3>3, <4>1 DEF ReadSubscriptions
    <3>4. CASE LeaveChannel(t)
      <4>1. PICK ch \in todo[t] : LeaveEntry(t, ch) /\ todo' = [todo EXCEPT ![t] = @ \ {ch}]
        BY <3>4 DEF LeaveChannel
      <4>2. k # ch /\ UNCHANGED <<pc, victim>>
        BY <3>4, <4>1, <1>0 DEF LeaveEntry, LeaveChannel
      <4>3. k \in todo'[t]
        BY <3>4, <4>1, <4>2 DEF LeaveChannel
      <4> QED BY <2>1, <3>4, <4>2, <4>3 DEF LeaveChannel
    <3>5. CASE DropEntry(t)
      BY <1>b, <2>1, <2>2, <2>4, <3>5 DEF DropEntry
    <3>6. CASE Unregistered(t)
      BY <3>6 DEF Unregistered
    <3> QED BY <1>6, <3>1, <3>2, <3>3, <3>4, <3>5, <3>6 DEF Unindex
  <2> QED BY <2>3, <2>4
<1>7. ASSUME FindStale \/ NextStale PROVE \E t \in Task : Unregisters(t, c)' /\ k \in Ahead(t)'
  <2>1. c \in index[k] /\ c \notin connections /\ UNCHANGED <<subs, todo>>
    BY <1>7 DEF FindStale, NextStale
  <2>2. PICK u : Old(u)
    BY <1>a, <2>1
  <2>3. UNCHANGED <<pc[u], Target(u)>>
    BY <1>7, <2>2 DEF FindStale, NextStale, Target, Unregisters, Unregistering
  <2> QED BY <1>b, <2>1, <2>2, <2>3
<1>8. ASSUME UNCHANGED vars PROVE \E t \in Task : Unregisters(t, c)' /\ k \in Ahead(t)'
  BY <1>8, <1>a, <1>b DEF vars, Target
<1> QED BY <1>1, <1>2, <1>3, <1>4, <1>5, <1>6, <1>7, <1>8 DEF Next

----------------------------------------------------------------------------
\* The inductive invariant holds in every reachable state.
THEOREM Invariance == Spec => []IInv
<1>1. Init => IInv
  <2> SUFFICES ASSUME Init PROVE IInv
    OBVIOUS
  <2>1. TypeOK
    BY InitTypeOK
  <2>2. Stages
    BY DEF Init, Stages, Task, Unregisters, Unregistering, Registering
  <2>3. Guards /\ Entries /\ NoLeak
    BY DEF Init, Guards, Entries, NoLeak, Key
  <2> QED BY <2>1, <2>2, <2>3 DEF IInv
<1>2. IInv /\ [Next]_vars => IInv'
  BY NextTypeOK, NextStages, NextGuards, NextEntries, NextNoLeak DEF IInv
<1> QED BY <1>1, <1>2, PTL DEF Spec

\* Type correctness of the registry.
THEOREM TypeCorrect == Spec => []TypeOK
<1>1. IInv => TypeOK
  BY DEF IInv
<1> QED BY Invariance, <1>1, PTL

\* Once unregister returned, no index holds the id, for any number of
\* connections, channels and concurrent calls (manager.rs:138-177).
THEOREM NothingLeaks == Spec => []NoLeak
<1>1. IInv => NoLeak
  BY DEF IInv
<1> QED BY Invariance, <1>1, PTL

\* No live connection is found under a user, tenant or channel that is not its own.
THEOREM NothingForeign == Spec => []NoForeignEntry
<1>1. IInv => NoForeignEntry
  <2> SUFFICES ASSUME IInv, NEW k \in Key, NEW c \in index[k] \cap connections
               PROVE  \/ k \in {UserOf[c], TenantOf[c]} \cup subs[c]
                      \/ rpc[c] = "unsub_index" /\ rch[c] = k
    BY DEF NoForeignEntry
  <2>1. c \in Conn
    BY DEF IInv, TypeOK
  <2> QED BY <2>1 DEF IInv, Entries, Key
<1> QED BY Invariance, <1>1, PTL

\* The handler and the heartbeat task never both unregister one connection.
THEOREM OneUnregister == Spec => []SingleUnregister
<1>1. IInv => SingleUnregister
  BY DEF IInv, Stages, SingleUnregister, Unregisters, Target, Task
<1> QED BY Invariance, <1>1, PTL

\* No step puts an id that has left connections into an index.
THEOREM OnlyLiveAdded == Spec => OnlyLiveIndexed
<1> DEFINE Live == \A k \in Key : \A c \in index'[k] \ index[k] : c \in connections
<1>1. IInv /\ [Next]_vars => [Live]_vars
  <2> SUFFICES ASSUME IInv, [Next]_vars, NEW k \in Key, NEW c \in index'[k] \ index[k]
               PROVE  c \in connections
    OBVIOUS
  <2> USE DEF IInv, TypeOK, indexes
  <2>1. ASSUME NEW d \in Conn, Register(d) PROVE c \in connections
    BY <2>1 DEF Register, CheckTotal, CheckUser, Insert, PushUser, PushTenant,
                AddToEntry, Stages
  <2>2. ASSUME NEW d \in Conn, Disconnect(d) \/ Activity(d) \/ TimePasses(d)
        PROVE  c \in connections
    BY <2>2 DEF Disconnect, Activity, TimePasses
  <2>3. ASSUME NEW d \in Conn, Subscribe(d) \/ Unsubscribe(d) PROVE c \in connections
    BY <2>3 DEF Subscribe, Unsubscribe, Begin
  <2>4. ASSUME NEW d \in Conn, Serve(d) PROVE c \in connections
    <3>1. CASE IndexSubscription(d)
      BY <3>1 DEF IndexSubscription, AddToEntry, RecvStep, Guards
    <3>2. CASE ~IndexSubscription(d)
      BY <2>4, <3>2 DEF Serve, CheckSubscriptions, InsertSubscription,
           RemoveSubscription, UnindexSubscription, DropChannel, RemoveEntry
    <3> QED BY <3>1, <3>2
  <2>5. ASSUME NEW t \in Task, Remove(t) \/ Unindex(t) PROVE c \in connections
    BY <2>5, UnindexShrinks DEF Remove
  <2>6. ASSUME FindStale \/ NextStale PROVE c \in connections
    BY <2>6 DEF FindStale, NextStale
  <2>7. ASSUME UNCHANGED vars PROVE c \in connections
    BY <2>7 DEF vars
  <2> QED BY <2>1, <2>2, <2>3, <2>4, <2>5, <2>6, <2>7 DEF Next
<1> QED BY Invariance, <1>1, PTL DEF Spec, OnlyLiveIndexed

----------------------------------------------------------------------------
\* The subscription limit, by counting: the check leaves room for one channel and
\* only the receive task of the connection itself fills it.
THEOREM WithinSubscriptionLimit == Spec => []SubscriptionLimit
<1> DEFINE Inv == SubscriptionLimit /\ Room
<1>1. Init => Inv
  BY FS_EmptySet DEF Init, SubscriptionLimit, Room
<1>2. IInv /\ Inv /\ [Next]_vars => Inv'
  <2> SUFFICES ASSUME IInv, Inv, [Next]_vars, MaxSubscriptions > 0, NEW c \in Conn
               PROVE  /\ Cardinality(subs'[c]) <= MaxSubscriptions
                      /\ rpc'[c] = "sub_insert" => Cardinality(subs'[c]) < MaxSubscriptions
    BY DEF SubscriptionLimit, Room
  <2>0. IsFiniteSet(subs[c]) /\ Cardinality(subs[c]) \in Nat
    BY FS_Subset, FS_CardinalityType DEF IInv, TypeOK
  <2>a. Cardinality(subs[c]) <= MaxSubscriptions
    BY DEF SubscriptionLimit
  <2>b. rpc[c] = "sub_insert" => Cardinality(subs[c]) < MaxSubscriptions
    BY DEF Room
  <2>1. CASE UNCHANGED <<subs[c], rpc[c]>>
    BY <2>1, <2>a, <2>b
  <2> USE DEF IInv, TypeOK, receiver
  <2>2. CASE Serve(c)
    <3>1. CASE CheckSubscriptions(c)
      BY <3>1, <2>0, <2>a DEF CheckSubscriptions, RecvStep, AtLimit
    <3>2. CASE InsertSubscription(c)
      <4>1. rpc[c] = "sub_insert" /\ rpc'[c] = "sub_index" /\ subs'[c] = subs[c] \cup {rch[c]}
        BY <3>2 DEF InsertSubscription, RecvStep
      <4>0. Cardinality(subs[c] \cup {rch[c]}) =
               IF rch[c] \in subs[c] THEN Cardinality(subs[c]) ELSE Cardinality(subs[c]) + 1
        BY <2>0, FS_AddElement
      <4>2. Cardinality(subs'[c]) <= Cardinality(subs[c]) + 1
        BY <4>0, <4>1, <2>0
      <4>3. Cardinality(subs'[c]) \in Nat
        BY <4>1, <2>0, FS_AddElement, FS_CardinalityType
      <4> QED BY <4>1, <4>2, <4>3, <2>0, <2>b
    <3>3. CASE RemoveSubscription(c)
      <4>1. rpc'[c] = "unsub_index" /\ subs'[c] = subs[c] \ {rch[c]}
        BY <3>3 DEF RemoveSubscription, RecvStep
      <4>0. /\ IsFiniteSet(subs[c] \ {rch[c]})
            /\ Cardinality(subs[c] \ {rch[c]}) =
                  IF rch[c] \in subs[c] THEN Cardinality(subs[c]) - 1 ELSE Cardinality(subs[c])
        BY <2>0, FS_RemoveElement
      <4>3. Cardinality(subs'[c]) \in Nat
        BY <4>0, <4>1, FS_CardinalityType
      <4>2. Cardinality(subs'[c]) <= Cardinality(subs[c]) /\ Cardinality(subs'[c]) \in Nat
        BY <4>0, <4>1, <4>3, <2>0
      <4> QED BY <4>1, <4>2, <2>0, <2>a
    <3>4. CASE IndexSubscription(c) \/ UnindexSubscription(c) \/ DropChannel(c)
      <4>1. subs' = subs /\ rpc'[c] # "sub_insert"
        BY <3>4 DEF IndexSubscription, UnindexSubscription, DropChannel, RecvStep
      <4> QED BY <4>1, <2>a
    <3> QED BY <2>2, <3>1, <3>2, <3>3, <3>4 DEF Serve
  <2>3. CASE Subscribe(c) \/ Unsubscribe(c)
    <3>1. \/ subs' = subs /\ rpc'[c] # "sub_insert"
          \/ UNCHANGED <<subs[c], rpc[c]>>
      BY <2>3 DEF Subscribe, Unsubscribe, Begin
    <3> QED BY <3>1, <2>1, <2>a
  <2>4. CASE Insert(c)
    <3>1. subs'[c] = {} /\ rpc'[c] = rpc[c]
      BY <2>4 DEF Insert
    <3> QED BY <3>1, FS_EmptySet
  <2>5. ASSUME NEW d \in Conn, d # c, Subscribe(d) \/ Unsubscribe(d) \/ Serve(d)
        PROVE  UNCHANGED <<subs[c], rpc[c]>>
    BY <2>5, ReceiverFrame
  <2>6. ASSUME NEW d \in Conn, d # c, Insert(d) PROVE UNCHANGED <<subs[c], rpc[c]>>
    BY <2>6 DEF Insert
  <2>7. ASSUME NEW d \in Conn,
               \/ CheckTotal(d) \/ CheckUser(d) \/ PushUser(d) \/ PushTenant(d)
               \/ Disconnect(d) \/ Activity(d) \/ TimePasses(d)
        PROVE  UNCHANGED <<subs[c], rpc[c]>>
    BY <2>7 DEF CheckTotal, CheckUser, PushUser, PushTenant, Disconnect, Activity, TimePasses
  <2>8. ASSUME NEW t \in Task, Remove(t) \/ Unindex(t) PROVE UNCHANGED <<subs[c], rpc[c]>>
    BY <2>8, UnindexFrame DEF Remove
  <2>9. ASSUME FindStale \/ NextStale \/ UNCHANGED vars PROVE UNCHANGED <<subs[c], rpc[c]>>
    BY <2>9 DEF FindStale, NextStale, vars
  <2> QED BY <2>1, <2>2, <2>3, <2>4, <2>5, <2>6, <2>7, <2>8, <2>9 DEF Next, Register
<1> QED BY Invariance, <1>1, <1>2, PTL DEF Spec

----------------------------------------------------------------------------
\* No user, tenant or channel stays listed without connections: whoever empties an
\* entry is the one about to remove it (manager.rs:141-167 and 224-230).
THEOREM NothingGhostly == Spec => []NoGhostEntry
<1> DEFINE Inv == Drops /\ NoGhostEntry
<1> DEFINE Dropping(k) == \/ \E t \in Task : k \in drop[t]
                          \/ \E c \in Conn : rpc[c] = "unsub_drop" /\ rch[c] = k
<1>1. Init => Inv
  BY DEF Init, Drops, NoGhostEntry
<1>2. IInv /\ Inv /\ [Next]_vars => Drops'
  <2> SUFFICES ASSUME IInv, Drops, [Next]_vars PROVE Drops'
    OBVIOUS
  <2> USE DEF IInv, TypeOK, Drops, Key, Task
  <2>1. ASSUME NEW c \in Conn, Register(c) \/ Disconnect(c) \/ Activity(c) \/ TimePasses(c)
        PROVE  Drops'
    BY <2>1 DEF Register, CheckTotal, CheckUser, Insert, PushUser, PushTenant,
                Disconnect, Activity, TimePasses
  <2>2. ASSUME NEW c \in Conn, Subscribe(c) \/ Unsubscribe(c) \/ Serve(c) PROVE Drops'
    BY <2>2, ReceiverFrame
  <2>3. ASSUME NEW t \in Task, Unindex(t) PROVE Drops'
    <3> HIDE DEF IInv, TypeOK, Drops, Key, Task
    <3>0. ASSUME NEW k \in Key, LeaveEntry(t, k) PROVE Drops'
      <4>1. /\ drop'[t] = {} \/ drop'[t] = {k}
            /\ \A r \in Task \ {t} : drop'[r] = drop[r]
        BY <3>0 DEF LeaveEntry, TypeOK, IInv
      <4> QED BY <4>1 DEF Drops
    <3>1. CASE LeaveUser(t) \/ LeaveTenant(t)
      <4>1. Target(t) \in Conn
        BY <3>1, TargetType DEF LeaveUser, LeaveTenant, Unregistering, IInv
      <4>2. UserOf[Target(t)] \in Key /\ TenantOf[Target(t)] \in Key
        BY <4>1, ConstantsOK DEF Key
      <4> QED BY <3>0, <3>1, <4>2 DEF LeaveUser, LeaveTenant
    <3>2. CASE LeaveChannel(t)
      <4>1. PICK ch \in todo[t] : LeaveEntry(t, ch)
        BY <3>2 DEF LeaveChannel
      <4>2. ch \in Key
        BY DEF TypeOK, IInv, Key
      <4> QED BY <3>0, <4>1, <4>2
    <3> USE DEF IInv, TypeOK, Drops, Key, Task
    <3>3. CASE ReadSubscriptions(t) \/ DropEntry(t) \/ Unregistered(t)
      BY <3>3 DEF ReadSubscriptions, DropEntry, Unregistered
    <3> QED BY <2>3, <3>1, <3>2, <3>3 DEF Unindex
  <2>4. ASSUME NEW t \in Task, Remove(t) PROVE Drops'
    BY <2>4 DEF Remove
  <2>5. ASSUME FindStale \/ NextStale \/ UNCHANGED vars PROVE Drops'
    BY <2>5 DEF FindStale, NextStale, vars
  <2> QED BY <2>1, <2>2, <2>3, <2>4, <2>5 DEF Next
<1>3. IInv /\ Inv /\ [Next]_vars => NoGhostEntry'
  <2> SUFFICES ASSUME IInv, Inv, [Next]_vars, NEW k \in keys', index'[k] = {}
               PROVE  Dropping(k)'
    BY DEF NoGhostEntry
  <2>0. TypeOK' /\ k \in Key
    BY NextTypeOK DEF IInv, TypeOK
  <2>a. ASSUME k \in keys, index[k] = {} PROVE Dropping(k)
    BY <2>a DEF NoGhostEntry
  <2>b. ASSUME Dropping(k), UNCHANGED <<drop, rpc, rch>> PROVE Dropping(k)'
    BY <2>b
  <2> USE DEF IInv, TypeOK, indexes, receiver
  <2>1. ASSUME NEW c \in Conn, Register(c) PROVE Dropping(k)'
    <3>1. CASE PushUser(c) \/ PushTenant(c)
      <4>0. PICK j \in Key : AddToEntry(j, c)
        BY <3>1 DEF PushUser, PushTenant, Key
      <4>1. k # j /\ k \in keys /\ index[k] = {}
        BY <2>0, <4>0 DEF AddToEntry
      <4>2. UNCHANGED <<drop, rpc, rch>>
        BY <3>1 DEF PushUser, PushTenant
      <4> QED BY <4>1, <4>2, <2>a, <2>b
    <3>2. CASE CheckTotal(c) \/ CheckUser(c) \/ Insert(c)
      BY <3>2, <2>a, <2>b DEF CheckTotal, CheckUser, Insert
    <3> QED BY <2>1, <3>1, <3>2 DEF Register
  <2>2. ASSUME NEW c \in Conn, Disconnect(c) \/ Activity(c) \/ TimePasses(c) PROVE Dropping(k)'
    BY <2>2, <2>a, <2>b DEF Disconnect, Activity, TimePasses
  <2>3. ASSUME NEW c \in Conn, Subscribe(c) \/ Unsubscribe(c) PROVE Dropping(k)'
    <3>1. UNCHANGED <<keys, index, drop>>
      BY <2>3 DEF Subscribe, Unsubscribe, Begin
    <3>2. \A d \in Conn : rpc[d] = "unsub_drop" => UNCHANGED <<rpc[d], rch[d]>>
      BY <2>3 DEF Subscribe, Unsubscribe, Begin
    <3> QED BY <3>1, <3>2, <2>a
  <2>4. ASSUME NEW c \in Conn, Serve(c) PROVE Dropping(k)'
    <3>0. rpc[c] # "recv" /\ rch[c] \in Channel
      BY <2>4 DEF Serve, CheckSubscriptions, InsertSubscription, IndexSubscription,
                  RemoveSubscription, UnindexSubscription, DropChannel, RecvStep, Guards
    <3>1. CASE CheckSubscriptions(c) \/ InsertSubscription(c) \/ RemoveSubscription(c)
      <4>1. UNCHANGED <<keys, index, drop>>
        BY <3>1 DEF CheckSubscriptions, InsertSubscription, RemoveSubscription
      <4>2. \A d \in Conn : rpc[d] = "unsub_drop" => UNCHANGED <<rpc[d], rch[d]>>
        BY <3>1 DEF CheckSubscriptions, InsertSubscription, RemoveSubscription, RecvStep
      <4> QED BY <4>1, <4>2, <2>a
    <3>2. CASE IndexSubscription(c)
      <4>1. k \in keys /\ index[k] = {} /\ UNCHANGED drop
        BY <2>0, <3>0, <3>2 DEF IndexSubscription, AddToEntry, Key
      <4>2. \A d \in Conn : rpc[d] = "unsub_drop" => UNCHANGED <<rpc[d], rch[d]>>
        BY <3>2 DEF IndexSubscription, RecvStep
      <4> QED BY <4>1, <4>2, <2>a
    <3>3. CASE UnindexSubscription(c)
      <4>1. UNCHANGED <<keys, drop>>
        BY <3>3 DEF UnindexSubscription
      <4>2. \A d \in Conn : rpc[d] = "unsub_drop" => UNCHANGED <<rpc[d], rch[d]>>
        BY <3>3 DEF UnindexSubscription, RecvStep
      <4>3. CASE k = rch[c]
        <5>1. rpc' = [rpc EXCEPT ![c] = "unsub_drop"]
          BY <3>3, <4>1, <4>3 DEF UnindexSubscription, RecvStep
        <5>2. rch'[c] = rch[c]
          BY <3>3, <4>1, <4>3 DEF UnindexSubscription, RecvStep
        <5> QED BY <4>3, <5>1, <5>2
      <4>4. CASE k # rch[c]
        <5>1. index[k] = {}
          BY <2>0, <3>3, <4>4 DEF UnindexSubscription
        <5> QED BY <4>1, <4>2, <5>1, <2>a
      <4> QED BY <4>3, <4>4
    <3>4. CASE DropChannel(c)
      <4>1. k # rch[c] /\ k \in keys /\ index[k] = {} /\ UNCHANGED drop
        BY <2>0, <3>4 DEF DropChannel, RemoveEntry
      <4>2. \A d \in Conn : rpc[d] = "unsub_drop" /\ rch[d] = k => UNCHANGED <<rpc[d], rch[d]>>
        BY <3>4, <4>1 DEF DropChannel, RecvStep
      <4> QED BY <4>1, <4>2, <2>a
    <3> QED BY <2>4, <3>1, <3>2, <3>3, <3>4 DEF Serve
  <2>5. ASSUME NEW t \in Task, Remove(t) PROVE Dropping(k)'
    BY <2>5, <2>a, <2>b DEF Remove
  <2>6. ASSUME NEW t \in Task, Unindex(t) PROVE Dropping(k)'
    <3>0. UNCHANGED <<rpc, rch>>
      BY <2>6, UnindexFrame
    <3>1. ASSUME NEW j \in Key, LeaveEntry(t, j), UNCHANGED keys PROVE Dropping(k)'
      <4>1. CASE k = j
        BY <2>0, <3>1, <4>1 DEF LeaveEntry
      <4>2. CASE k # j
        <5>1. k \in keys /\ index[k] = {}
          BY <2>0, <3>1, <4>2 DEF LeaveEntry
        <5>2. \A u \in Task : drop[u] \subseteq drop'[u]
          BY <3>1 DEF LeaveEntry
        <5> QED BY <3>0, <5>1, <5>2, <2>a
      <4> QED BY <4>1, <4>2
    <3>2. CASE LeaveUser(t) \/ LeaveTenant(t)
      <4>1. Target(t) \in Conn
        BY <3>2, TargetType DEF LeaveUser, LeaveTenant, Unregistering
      <4> QED BY <3>1, <3>2, <4>1 DEF LeaveUser, LeaveTenant, Key
    <3>3. CASE LeaveChannel(t)
      BY <3>1, <3>3 DEF LeaveChannel, Key
    <3>4. CASE ReadSubscriptions(t) \/ Unregistered(t)
      BY <3>0, <3>4, <2>a, <2>b DEF ReadSubscriptions, Unregistered
    <3>5. CASE DropEntry(t)
      <4>1. PICK j \in Key : drop[t] = {j} /\ RemoveEntry(j)
        BY <3>5 DEF DropEntry, Drops
      <4>2. k # j /\ k \in keys /\ index[k] = {}
        BY <2>0, <4>1 DEF RemoveEntry
      <4>3. \A u \in Task : k \in drop[u] => k \in drop'[u]
        BY <3>5, <4>1, <4>2 DEF DropEntry
      <4> QED BY <3>0, <4>2, <4>3, <2>a
    <3> QED BY <2>6, <3>2, <3>3, <3>4, <3>5 DEF Unindex
  <2>7. ASSUME FindStale \/ NextStale \/ UNCHANGED vars PROVE Dropping(k)'
    BY <2>7, <2>a, <2>b DEF FindStale, NextStale, vars
  <2> QED BY <2>1, <2>2, <2>3, <2>4, <2>5, <2>6, <2>7 DEF Next
<1> QED BY Invariance, <1>1, <1>2, <1>3, PTL DEF Spec

=============================================================================

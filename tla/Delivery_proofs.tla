--------------------------- MODULE Delivery_proofs ---------------------------
(***************************************************************************)
(* Delivery for any set of connections, users, tenants, channels and       *)
(* messages, and any sizes of channels and queues: types, who gets what,   *)
(* that the queues behave as MessageQueue promises, and that a client gets *)
(* nothing twice, nothing replayed out of order, and loses nothing in      *)
(* silence.                                                                *)
(***************************************************************************)
EXTENDS Delivery, SequenceTheorems, TLAPS

----------------------------------------------------------------------------
(* What a sequence holds                                                   *)

\* An empty sequence holds nothing.
LEMMA RangeEmpty == Range(<<>>) = {}
BY DEF Range

\* Append adds its element and nothing else.
LEMMA RangeAppend ==
    ASSUME NEW S, NEW s \in Seq(S), NEW e \in S
    PROVE  Range(Append(s, e)) = Range(s) \cup {e}
<1>1. PICK t \in Seq(S) : t = Append(s, e)
  BY AppendProperties
<1>2. /\ Len(s) \in Nat /\ Len(t) = Len(s) + 1 /\ t[Len(s) + 1] = e
      /\ \A i \in 1..Len(s) : t[i] = s[i]
  BY <1>1, AppendProperties
<1>3. DOMAIN s = 1..Len(s) /\ DOMAIN t = 1..Len(t)
  OBVIOUS
<1>4. Range(t) = Range(s) \cup {e}
  BY <1>2, <1>3 DEF Range
<1> QED BY <1>1, <1>4

\* The tail holds what the head leaves.
LEMMA RangeTail ==
    ASSUME NEW S, NEW s \in Seq(S), s # <<>>
    PROVE  /\ Tail(s) \in Seq(S) /\ Head(s) \in S /\ Len(Tail(s)) = Len(s) - 1
           /\ Range(s) = {Head(s)} \cup Range(Tail(s))
<1>1. /\ Tail(s) \in Seq(S) /\ Head(s) \in S /\ Len(Tail(s)) = Len(s) - 1
      /\ \A i \in 1..Len(Tail(s)) : Tail(s)[i] = s[i + 1]
  BY HeadTailProperties
<1>2. Len(s) \in Nat \ {0} /\ Head(s) = s[1]
  OBVIOUS
<1>3. Range(s) \subseteq {Head(s)} \cup Range(Tail(s))
  <2> SUFFICES ASSUME NEW i \in 1..Len(s) PROVE s[i] \in {Head(s)} \cup Range(Tail(s))
    BY DEF Range
  <2>1. CASE i = 1
    BY <1>2, <2>1
  <2>2. CASE i # 1
    <3>1. i - 1 \in 1..Len(Tail(s)) /\ Tail(s)[i - 1] = s[(i - 1) + 1]
      BY <1>1, <1>2, <2>2
    <3>2. DOMAIN Tail(s) = 1..Len(Tail(s))
      BY <1>1
    <3>3. Tail(s)[i - 1] \in Range(Tail(s))
      BY <3>1, <3>2 DEF Range
    <3> QED BY <3>1, <3>3
  <2> QED BY <2>1, <2>2
<1>4. {Head(s)} \cup Range(Tail(s)) \subseteq Range(s)
  BY <1>1, <1>2 DEF Range
<1> QED BY <1>1, <1>3, <1>4

\* The tail of a sequence without repetitions has none, and does not hold the head.
LEMMA InjectiveTail ==
    ASSUME NEW S, NEW s \in Seq(S), s # <<>>, IsInjective(s)
    PROVE  IsInjective(Tail(s)) /\ Head(s) \notin Range(Tail(s))
<1>1. /\ Tail(s) \in Seq(S) /\ Len(Tail(s)) = Len(s) - 1
      /\ \A i \in 1..Len(Tail(s)) : Tail(s)[i] = s[i + 1]
  BY HeadTailProperties
<1>2. Len(s) \in Nat \ {0} /\ Head(s) = s[1]
  OBVIOUS
<1>3. \A i, j \in 1..Len(s) : s[i] = s[j] => i = j
  BY DEF IsInjective
<1>4. \A i, j \in 1..Len(Tail(s)) : Tail(s)[i] = Tail(s)[j] => i = j
  <2> SUFFICES ASSUME NEW i \in 1..Len(Tail(s)), NEW j \in 1..Len(Tail(s)), s[i + 1] = s[j + 1]
               PROVE  i = j
    BY <1>1
  <2>1. i + 1 \in 1..Len(s) /\ j + 1 \in 1..Len(s)
    BY <1>1, <1>2
  <2>2. i + 1 = j + 1
    BY <1>3, <2>1
  <2> QED BY <2>2
<1>5. IsInjective(Tail(s))
  BY <1>1, <1>4 DEF IsInjective
<1>6. Head(s) \notin Range(Tail(s))
  <2> SUFFICES ASSUME NEW i \in 1..Len(Tail(s)), s[i + 1] = s[1] PROVE FALSE
    BY <1>1, <1>2 DEF Range
  <2>1. i + 1 \in 1..Len(s) /\ 1 \in 1..Len(s)
    BY <1>1, <1>2
  <2> QED BY <1>3, <2>1
<1> QED BY <1>5, <1>6

\* A new element at the end is no repetition.
LEMMA InjectiveAppend ==
    ASSUME NEW S, NEW s \in Seq(S), NEW e \in S, IsInjective(s), e \notin Range(s)
    PROVE  IsInjective(Append(s, e))
BY DEF IsInjective, Range

\* A part of a sequence holds nothing the sequence does not hold.
LEMMA RangeSubSeq ==
    ASSUME NEW S, NEW s \in Seq(S), NEW n \in 0..Len(s)
    PROVE  /\ SubSeq(s, n + 1, Len(s)) \in Seq(S)
           /\ Range(SubSeq(s, n + 1, Len(s))) \subseteq Range(s)
<1> DEFINE t == SubSeq(s, n + 1, Len(s))
<1>1. Len(s) \in Nat /\ \A i \in (n + 1)..Len(s) : s[i] \in S
  OBVIOUS
<1>2. /\ t \in Seq(S)
      /\ Len(t) = IF n + 1 <= Len(s) THEN Len(s) - (n + 1) + 1 ELSE 0
      /\ \A i \in 1..(Len(s) - (n + 1) + 1) : t[i] = s[(n + 1) + i - 1]
  BY <1>1, SubSeqProperties
<1> HIDE DEF t
<1>3. ASSUME NEW i \in 1..Len(t) PROVE t[i] \in Range(s)
  <2>1. (n + 1) + i - 1 \in 1..Len(s) /\ t[i] = s[(n + 1) + i - 1]
    BY <1>1, <1>2
  <2> QED BY <2>1 DEF Range
<1>4. Range(t) \subseteq Range(s)
  BY <1>2, <1>3 DEF Range
<1> QED BY <1>2, <1>4 DEF t

----------------------------------------------------------------------------
(* Types                                                                   *)

\* The sizes and the claims, which most steps need.
LEMMA Sizes ==
    /\ Sse \subseteq Conn /\ UserOf \in [Conn -> User] /\ TenantOf \in [Conn -> Tenant]
    /\ Capacity \in Nat \ {0} /\ MaxQueue \in Nat \ {0} /\ Frame \notin Copy
BY ConstantsOK, FrameOK

USE Sizes

\* A copy is one of its message, and of no other.
LEMMA CopyFacts ==
    /\ \A x \in Copy : x[1] \in Msg /\ x \in Copies(x[1])
    /\ \A m \in Msg : \A x \in Copies(m) : x \in Copy /\ x[1] = m
BY DEF Copy, Copies

\* A message for users has a list of users.
LEMMA TargetType ==
    ASSUME NEW m \in Msg, Target[m].kind = "users"
    PROVE  Target[m].to \in Seq(User)
<1>1. Target[m] \in [kind : {"users"}, to : Seq(User)]
                    \cup [kind : {"channels"}, to : SUBSET Channel]
                    \cup [kind : {"broadcast"}, to : {{}}]
  BY ConstantsOK
<1>2. CASE Target[m] \in [kind : {"users"}, to : Seq(User)]
  BY <1>2
<1>3. CASE Target[m] \in [kind : {"channels"}, to : SUBSET Channel]
  BY <1>3
<1>4. CASE Target[m] \in [kind : {"broadcast"}, to : {{}}]
  BY <1>4
<1> QED BY <1>1, <1>2, <1>3, <1>4

\* The copies of such a message are for the users listed.
LEMMA ListedType ==
    ASSUME NEW x \in Copy, Target[x[1]].kind = "users"
    PROVE  Listed(x) \in User
<1>1. PICK m \in Msg : x \in Copies(m)
  BY DEF Copy
<1>2. x[1] = m /\ x[2] \in DOMAIN Target[m].to
  BY <1>1 DEF Copies
<1>3. Target[m].to \in Seq(User)
  BY <1>2, TargetType
<1> QED BY <1>2, <1>3 DEF Listed

\* A tenant's user has a queue.
LEMMA ScopedType ==
    ASSUME NEW t \in Tenant, NEW u \in User
    PROVE  ScopedKey(t, u) \in QueueKey
<1>1. CASE t = DefaultTenant
  BY <1>1, ConstantsOK DEF ScopedKey
<1>2. CASE t # DefaultTenant
  <2>1. <<t, u>> \in (Tenant \ {DefaultTenant}) \X User
    BY <1>2
  <2> QED BY <1>2, <2>1, ConstantsOK DEF ScopedKey
<1> QED BY <1>1, <1>2

\* The dispatcher and the handlers use keys of the queues.
LEMMA KeyTypes ==
    /\ \A x \in Copy : Target[x[1]].kind = "users" => KeyOf(x) \in QueueKey
    /\ \A c \in Conn : KeyFor(c) \in QueueKey
<1>1. ASSUME NEW x \in Copy, Target[x[1]].kind = "users" PROVE KeyOf(x) \in QueueKey
  <2>1. x[1] \in Msg
    BY CopyFacts
  <2>2. TenantFor(x[1]) \in Tenant
    BY <2>1, ConstantsOK DEF TenantFor
  <2> QED BY <1>1, <2>2, ListedType, ScopedType DEF KeyOf
<1>2. ASSUME NEW c \in Conn PROVE KeyFor(c) \in QueueKey
  BY ScopedType DEF KeyFor
<1> QED BY <1>1, <1>2

\* The dispatcher finds registered connections.
LEMMA RecipientsFound ==
    ASSUME NEW x
    PROVE  Recipients(x) \subseteq registered
BY DEF Recipients, UserConnections, ScopedConnections, ChannelConnections

\* What a lookup makes of the copies of its message.
LEMMA LookupEffect ==
    ASSUME TypeOK, NEW m \in Msg, Lookup(m)
    PROVE  /\ dpc[m] = "new" /\ dpc' \in [Msg -> {"new", "queue", "send", "done"}]
           /\ dpc'[m] # "new" /\ \A n \in Msg \ {m} : dpc'[n] = dpc[n]
           /\ UNCHANGED <<registered, subs, online, hpc, pending, chan, rx, received, queue,
                          accepted, enqueued, discarded, taken>>
           /\ offline' \subseteq {x \in Copy : Target[x[1]].kind = "users"}
           /\ \A x \in Copy : x \in offline' =>
                 x \in offline \/ (x[1] = m /\ targets'[x] = {})
           /\ targets' \in [Copy -> SUBSET Conn]
           /\ \A x \in Copy : targets'[x] = targets[x] \/ (x[1] = m /\ targets'[x] = Recipients(x))
<1> USE DEF handler, channel, history
<1> DEFINE absent == {x \in Copies(m) : Target[m].kind = "users" /\ Recipients(x) = {}}
<1>1. /\ dpc[m] = "new"
      /\ UNCHANGED <<registered, subs, online, hpc, pending, chan, rx, received, queue,
                     accepted, enqueued, discarded, taken>>
  BY DEF Lookup
<1>2. \/ /\ dpc' = [dpc EXCEPT ![m] = IF absent # {} THEN "queue" ELSE "send"]
         /\ offline' = offline \cup absent
         /\ targets' = [x \in Copy |-> IF x \in Copies(m) THEN Recipients(x) ELSE targets[x]]
      \/ dpc' = [dpc EXCEPT ![m] = "done"] /\ UNCHANGED <<offline, targets>>
  BY DEF Lookup
<1>3. \A x \in absent : x \in Copy /\ x \in Copies(m) /\ x[1] = m
                        /\ Target[x[1]].kind = "users" /\ Recipients(x) = {}
  BY CopyFacts
<1>4. /\ offline \subseteq {x \in Copy : Target[x[1]].kind = "users"}
      /\ targets \in [Copy -> SUBSET Conn] /\ registered \subseteq Conn
      /\ dpc \in [Msg -> {"new", "queue", "send", "done"}]
  BY DEF TypeOK
<1>5. \A x \in Copy : Recipients(x) \in SUBSET Conn
  BY <1>4, RecipientsFound
<1> HIDE DEF absent
<1>6. CASE /\ dpc' = [dpc EXCEPT ![m] = IF absent # {} THEN "queue" ELSE "send"]
           /\ offline' = offline \cup absent
           /\ targets' = [x \in Copy |-> IF x \in Copies(m) THEN Recipients(x) ELSE targets[x]]
  <2>1. /\ dpc' \in [Msg -> {"new", "queue", "send", "done"}]
        /\ dpc'[m] # "new" /\ \A n \in Msg \ {m} : dpc'[n] = dpc[n]
    BY <1>4, <1>6
  <2>2. offline' \subseteq {x \in Copy : Target[x[1]].kind = "users"}
    BY <1>3, <1>4, <1>6
  <2>3. targets' \in [Copy -> SUBSET Conn]
    BY <1>4, <1>5, <1>6
  <2>4. \A x \in Copy : IF x \in Copies(m) THEN targets'[x] = Recipients(x) /\ x[1] = m
                                           ELSE targets'[x] = targets[x]
    BY <1>6, CopyFacts
  <2>5. \A x \in Copy : x \in offline' => x \in offline \/ (x[1] = m /\ targets'[x] = {})
    BY <1>3, <1>6, <2>4
  <2> QED BY <1>1, <2>1, <2>2, <2>3, <2>4, <2>5
<1>7. CASE dpc' = [dpc EXCEPT ![m] = "done"] /\ UNCHANGED <<offline, targets>>
  BY <1>1, <1>4, <1>7
<1> QED BY <1>2, <1>6, <1>7

\* The steps of a dispatch keep the types.
LEMMA DispatchType ==
    ASSUME TypeOK, NEW m \in Msg, Dispatch(m)
    PROVE  TypeOK'
<1> USE DEF handler, channel, history
<1>1. CASE Lookup(m)
  BY <1>1, LookupEffect DEF TypeOK
<1>2. ASSUME NEW x \in Copy, Route(m, x) PROVE TypeOK'
  <2>1. Recipients(x) \in SUBSET Conn
    BY RecipientsFound DEF TypeOK
  <2> QED BY <1>2, <2>1 DEF Route, TypeOK
<1>3. ASSUME NEW x \in Copy, Enqueue(m, x) PROVE TypeOK'
  <2> DEFINE k == KeyOf(x)
             q == queue[k]
  <2>1. k \in QueueKey /\ q \in Seq(Copy) /\ Len(q) <= MaxQueue /\ enqueued[k] \in Seq(Copy)
    BY <1>3, KeyTypes DEF TypeOK, Enqueue
  <2>5. /\ queue' = [queue EXCEPT ![k] = Append(IF Len(q) >= MaxQueue THEN Tail(q) ELSE q, x)]
        /\ discarded' = IF Len(q) >= MaxQueue THEN discarded \cup {Head(q)} ELSE discarded
        /\ enqueued' = [enqueued EXCEPT ![k] = Append(enqueued[k], x)]
    BY <1>3, <2>1 DEF Enqueue, TypeOK
  <2> HIDE DEF k, q
  <2>2. /\ Append(q, x) \in Seq(Copy) /\ Len(Append(q, x)) = Len(q) + 1
        /\ Append(enqueued[k], x) \in Seq(Copy)
    BY <2>1
  <2>3. Len(q) >= MaxQueue => q # <<>>
    BY <2>1
  <2>4. Len(q) >= MaxQueue =>
          /\ Append(Tail(q), x) \in Seq(Copy) /\ Len(Append(Tail(q), x)) = Len(q)
          /\ Head(q) \in Copy
    BY <2>1, <2>3, RangeTail
  <2>6. queue' \in [QueueKey -> Seq(Copy)] /\ \A j \in QueueKey : Len(queue'[j]) <= MaxQueue
    <3> DEFINE w == Append(IF Len(q) >= MaxQueue THEN Tail(q) ELSE q, x)
    <3>1. w \in Seq(Copy) /\ Len(w) <= MaxQueue
      BY <2>1, <2>2, <2>4
    <3> HIDE DEF w
    <3>2. queue' = [queue EXCEPT ![k] = w]
      BY <2>5 DEF w
    <3> QED BY <2>1, <3>1, <3>2 DEF TypeOK
  <2>7. enqueued' \in [QueueKey -> Seq(Copy)]
    BY <2>1, <2>2, <2>5 DEF TypeOK
  <2>8. discarded' \subseteq Copy
    BY <2>1, <2>4, <2>5 DEF TypeOK
  <2>9. /\ dpc' \in [Msg -> {"new", "queue", "send", "done"}]
        /\ offline' \subseteq {y \in Copy : Target[y[1]].kind = "users"}
    BY <1>3 DEF Enqueue, TypeOK
  <2>10. UNCHANGED <<registered, subs, online, hpc, pending, chan, rx, received, targets,
                     accepted, taken>>
    BY <1>3 DEF Enqueue
  <2> QED BY <2>6, <2>7, <2>8, <2>9, <2>10 DEF TypeOK
<1>4. ASSUME NEW x \in Copy, NEW c \in Conn, Send(m, x, c) PROVE TypeOK'
  <2>1. /\ chan[c] \in Seq(Copy \cup {Frame}) /\ Append(chan[c], x) \in Seq(Copy \cup {Frame})
        /\ Len(Append(chan[c], x)) = Len(chan[c]) + 1
    BY DEF TypeOK
  <2>2. /\ chan' \in [Conn -> Seq(Copy \cup {Frame})]
        /\ \A d \in Conn : Len(chan'[d]) <= Capacity
    <3>1. CASE UNCHANGED chan
      BY <3>1 DEF TypeOK
    <3>2. CASE Len(chan[c]) < Capacity /\ chan' = [chan EXCEPT ![c] = Append(@, x)]
      BY <2>1, <3>2 DEF TypeOK
    <3> QED BY <1>4, <3>1, <3>2 DEF Send, Accepts
  <2>3. targets' \in [Copy -> SUBSET Conn] /\ accepted' \in [Copy -> SUBSET Conn]
    <3>1. targets' = [targets EXCEPT ![x] = @ \ {c}]
          /\ (accepted' = accepted \/ accepted' = [accepted EXCEPT ![x] = @ \cup {c}])
      BY <1>4 DEF Send
    <3>2. targets[x] \subseteq Conn /\ accepted[x] \subseteq Conn
      BY DEF TypeOK
    <3>3. targets' \in [Copy -> SUBSET Conn]
      BY <3>1, <3>2 DEF TypeOK
    <3>4. CASE accepted' = accepted
      BY <3>3, <3>4 DEF TypeOK
    <3>5. CASE accepted' = [accepted EXCEPT ![x] = @ \cup {c}]
      BY <3>2, <3>3, <3>5 DEF TypeOK
    <3> QED BY <3>1, <3>4, <3>5
  <2> QED BY <1>4, <2>2, <2>3 DEF Send, TypeOK
<1>5. CASE Finish(m)
  BY <1>5 DEF Finish, TypeOK
<1> QED BY <1>1, <1>2, <1>3, <1>4, <1>5 DEF Dispatch

\* A frame fits into the channel it is sent to.
LEMMA FrameType ==
    ASSUME TypeOK, NEW c \in Conn, SendFrame(c)
    PROVE  /\ chan' \in [Conn -> Seq(Copy \cup {Frame})]
           /\ \A d \in Conn : Len(chan'[d]) <= Capacity
<1>1. /\ chan[c] \in Seq(Copy \cup {Frame}) /\ Append(chan[c], Frame) \in Seq(Copy \cup {Frame})
      /\ Len(Append(chan[c], Frame)) = Len(chan[c]) + 1
  BY DEF TypeOK
<1> QED BY <1>1 DEF SendFrame, Accepts, TypeOK

\* The steps of a connection keep the types.
LEMMA ConnectionType ==
    ASSUME TypeOK, NEW c \in Conn,
           \/ Connect(c) \/ Handle(c) \/ Forward(c) \/ DropReceiver(c)
           \/ ClientGone(c) \/ Sweep(c) \/ Heartbeat(c) \/ Reply(c)
           \/ \E ch \in Channel : Subscribe(c, ch)
    PROVE  TypeOK'
<1> USE DEF handler, channel, dispatch, history
<1>0. <<>> \in Seq(Copy) /\ <<>> \in Seq(Copy \cup {Frame}) /\ Len(<<>>) = 0
  OBVIOUS
<1>1. CASE Connect(c)
  BY <1>1 DEF Connect, TypeOK
<1>2. CASE Drain(c)
  <2> DEFINE k == KeyFor(c)
  <2>1. k \in QueueKey /\ queue[k] \in Seq(Copy)
    BY KeyTypes DEF TypeOK
  <2>2. PICK n \in 0..Len(queue[k]) :
          /\ pending' = [pending EXCEPT ![c] = SubSeq(queue[k], n + 1, Len(queue[k]))]
          /\ discarded' = discarded \cup {queue[k][i] : i \in 1..n}
          /\ taken' = [taken EXCEPT ![c] = {queue[k][i] : i \in n + 1..Len(queue[k])}]
    BY <1>2 DEF Drain
  <2>3. pending' \in [Conn -> Seq(Copy)]
    BY <2>1, <2>2, RangeSubSeq DEF TypeOK
  <2>4. \A i \in 1..Len(queue[k]) : queue[k][i] \in Copy
    BY <2>1
  <2>5. discarded' \subseteq Copy /\ taken' \in [Conn -> SUBSET Copy]
    BY <2>1, <2>2, <2>4 DEF TypeOK
  <2>6. queue' = [queue EXCEPT ![k] = <<>>] /\ hpc' = [hpc EXCEPT ![c] = "replay"]
        /\ UNCHANGED <<registered, subs, online, chan, rx, received, dpc, offline, targets,
                       accepted, enqueued>>
    BY <1>2 DEF Drain
  <2> HIDE DEF k
  <2>7. queue' \in [QueueKey -> Seq(Copy)] /\ \A j \in QueueKey : Len(queue'[j]) <= MaxQueue
    BY <1>0, <2>1, <2>6 DEF TypeOK
  <2> QED BY <2>3, <2>5, <2>6, <2>7 DEF TypeOK
<1>3. CASE Replay(c)
  <2>1. /\ Head(pending[c]) \in Copy /\ Tail(pending[c]) \in Seq(Copy)
        /\ chan[c] \in Seq(Copy \cup {Frame})
    BY <1>3, RangeTail DEF Replay, TypeOK
  <2>2. /\ Append(chan[c], Head(pending[c])) \in Seq(Copy \cup {Frame})
        /\ Len(Append(chan[c], Head(pending[c]))) = Len(chan[c]) + 1
    BY <2>1
  <2>3. /\ chan' \in [Conn -> Seq(Copy \cup {Frame})]
        /\ \A d \in Conn : Len(chan'[d]) <= Capacity
    BY <1>3, <2>1, <2>2 DEF Replay, TypeOK
  <2>4. pending' \in [Conn -> Seq(Copy)]
    BY <1>3, <2>1 DEF Replay, TypeOK
  <2> QED BY <1>3, <2>3, <2>4 DEF Replay, TypeOK
<1>4. CASE Open(c)
  BY <1>4 DEF Open, TypeOK
<1>5. CASE StreamEnds(c) \/ TaskEnded(c)
  BY <1>5 DEF StreamEnds, TaskEnded, TypeOK
<1>6. CASE Unregister(c)
  BY <1>6 DEF Unregister, TypeOK
<1>7. CASE Abandon(c)
  BY <1>0, <1>7 DEF Abandon, TypeOK
<1>8. CASE Forward(c)
  <2>1. /\ chan[c] \in Seq(Copy \cup {Frame}) /\ chan[c] # <<>>
        /\ received[c] \in Seq(Copy) /\ Len(chan[c]) <= Capacity
    BY <1>8 DEF Forward, TypeOK
  <2>2. /\ Tail(chan[c]) \in Seq(Copy \cup {Frame}) /\ Len(Tail(chan[c])) = Len(chan[c]) - 1
        /\ Head(chan[c]) \in Copy \cup {Frame}
    BY <2>1, RangeTail
  <2>3. Head(chan[c]) # Frame => Append(received[c], Head(chan[c])) \in Seq(Copy)
    BY <2>1, <2>2
  <2>4. /\ chan' \in [Conn -> Seq(Copy \cup {Frame})]
        /\ \A d \in Conn : Len(chan'[d]) <= Capacity
    BY <1>8, <2>1, <2>2 DEF Forward, TypeOK
  <2>5. received' \in [Conn -> Seq(Copy)]
    BY <1>8, <2>3 DEF Forward, TypeOK
  <2> QED BY <1>8, <2>4, <2>5 DEF Forward, TypeOK
<1>9. CASE DropReceiver(c)
  BY <1>0, <1>9 DEF DropReceiver, TypeOK
<1>10. CASE ClientGone(c)
  BY <1>10 DEF ClientGone, TypeOK
<1>11. CASE Sweep(c)
  BY <1>11 DEF Sweep, TypeOK
<1>12. CASE Heartbeat(c)
  BY <1>12, FrameType DEF Heartbeat, TypeOK
<1>13. CASE Reply(c)
  BY <1>13, FrameType DEF Reply, TypeOK
<1>14. ASSUME NEW ch \in Channel, Subscribe(c, ch) PROVE TypeOK'
  BY <1>14, FrameType DEF Subscribe, TypeOK
<1> QED
  BY <1>1, <1>2, <1>3, <1>4, <1>5, <1>6, <1>7, <1>8, <1>9, <1>10, <1>11, <1>12, <1>13, <1>14
  DEF Handle

\* Every step keeps the types.
LEMMA TypeStep == TypeOK /\ [Next]_vars => TypeOK'
<1> SUFFICES ASSUME TypeOK, [Next]_vars PROVE TypeOK'
  OBVIOUS
<1>1. CASE UNCHANGED vars
  BY <1>1 DEF vars, TypeOK
<1> QED BY <1>1, DispatchType, ConnectionType DEF Next

\* Channels and queues keep their capacities, and whatever is in them is a copy of a
\* message or, in a channel, a frame.
THEOREM DeliveryTypes == Spec => []TypeOK
<1>1. Init => TypeOK
  BY DEF Init, TypeOK
<1> QED BY <1>1, TypeStep, PTL DEF Spec

----------------------------------------------------------------------------
(* Nobody gets what is not for him                                         *)

\* A copy in the queue of c's key was queued for c's own user, or the keys of two
\* tenants clash.
Owns(c, x) ==
    /\ Target[x[1]].kind = "users"
    /\ \/ TenantFor(x[1]) = TenantOf[c] /\ Listed(x) = UserOf[c]
       \/ Clash(TenantFor(x[1]), Listed(x), TenantOf[c], UserOf[c])

\* On its way from the lookup to the client a copy stays with those it is for.
Fits ==
    /\ \A x \in Copy : \A c \in targets[x] \cup accepted[x] : Addressed(x, c)
    /\ \A k \in QueueKey : \A x \in Range(queue[k]) :
          Target[x[1]].kind = "users" /\ k = KeyOf(x)
    /\ \A c \in Conn : \A x \in Reached(c) : c \in accepted[x] \/ Owns(c, x)

\* The lookups find connections the copy is for.
LEMMA RecipientsFit ==
    ASSUME NEW x \in Copy
    PROVE  \A c \in Recipients(x) : Addressed(x, c)
BY DEF Recipients, UserConnections, ScopedConnections, ChannelConnections, Addressed, Listed

\* Two users of a tenant never have the same key, so what is in the queue of c's key
\* is c's own but for a clash.
LEMMA QueuedFit ==
    ASSUME NEW c \in Conn, NEW x \in Copy, Target[x[1]].kind = "users", KeyOf(x) = KeyFor(c)
    PROVE  Owns(c, x)
<1> DEFINE t == TenantFor(x[1])
           u == Listed(x)
           s == TenantOf[c]
           v == UserOf[c]
<1>1. t \in Tenant /\ s \in Tenant /\ u \in User /\ v \in User
  <2>1. x[1] \in Msg
    BY CopyFacts
  <2> QED BY <2>1, ConstantsOK, ListedType DEF TenantFor
<1>2. (IF t = DefaultTenant THEN u ELSE Join[<<t, u>>])
         = (IF s = DefaultTenant THEN v ELSE Join[<<s, v>>])
  BY DEF KeyOf, KeyFor, ScopedKey
<1> HIDE DEF t, u, s, v
<1>3. CASE t = s
  <2>1. u = v
    BY <1>1, <1>2, <1>3, ConstantsOK
  <2> QED BY <1>3, <2>1 DEF Owns, t, u, s, v
<1>4. CASE t # s
  <2>1. Clash(t, u, s, v)
    BY <1>1, <1>2, <1>4 DEF Clash
  <2> QED BY <2>1 DEF Owns, t, u, s, v
<1> QED BY <1>3, <1>4

\* What is with a connection are copies.
LEMMA ReachedType ==
    ASSUME TypeOK, NEW c \in Conn
    PROVE  Reached(c) \subseteq Copy
BY DEF TypeOK, Reached, Range

\* The copies with one connection change, to others that are its own.
LEMMA ReachedMoves ==
    ASSUME Fits, NEW c \in Conn, UNCHANGED <<queue, targets, accepted>>,
           \A d \in Conn \ {c} : Reached(d)' \subseteq Reached(d),
           \A x \in Reached(c)' : x \in Reached(c) \/ Owns(c, x)
    PROVE  Fits'
<1>1. \A d \in Conn : \A x \in Reached(d)' : d \in accepted'[x] \/ Owns(d, x)
  BY DEF Fits
<1> QED BY <1>1 DEF Fits, Owns, Addressed, Clash, Listed, TenantFor, KeyOf

\* A step that moves no copy changes nothing of what a connection is reached by.
LEMMA ReachedSame ==
    ASSUME UNCHANGED <<chan, received, pending>>
    PROVE  \A c \in Conn : Reached(c)' = Reached(c)
BY DEF Reached

\* A frame is no copy.
LEMMA FrameReaches ==
    ASSUME TypeOK, NEW c \in Conn, SendFrame(c), UNCHANGED <<received, pending>>
    PROVE  \A d \in Conn : Reached(d)' = Reached(d)
<1>1. CASE UNCHANGED chan
  BY <1>1, ReachedSame
<1>2. CASE chan' = [chan EXCEPT ![c] = Append(@, Frame)]
  <2>1. chan[c] \in Seq(Copy \cup {Frame}) /\ chan'[c] = Append(chan[c], Frame)
    BY <1>2 DEF TypeOK
  <2>2. Range(chan'[c]) = Range(chan[c]) \cup {Frame}
    BY <2>1, RangeAppend
  <2>3. \A d \in Conn \ {c} : chan'[d] = chan[d]
    BY <1>2 DEF TypeOK
  <2> QED BY <2>2, <2>3 DEF Reached
<1> QED BY <1>1, <1>2 DEF SendFrame

\* The dispatcher sends and queues only what fits.
LEMMA DispatchFits ==
    ASSUME TypeOK, Fits, NEW m \in Msg, Dispatch(m)
    PROVE  Fits'
<1> USE DEF handler, channel, history
<1>1. CASE Lookup(m)
  <2>1. UNCHANGED <<queue, accepted, chan, received, pending>>
    BY <1>1, LookupEffect
  <2>2. \A x \in Copy : \A c \in targets'[x] \cup accepted'[x] : Addressed(x, c)
    <3>1. \A x \in Copy : targets'[x] = targets[x] \/ targets'[x] = Recipients(x)
      BY <1>1, LookupEffect
    <3> QED BY <2>1, <3>1, RecipientsFit DEF Fits
  <2> QED BY <2>1, <2>2, ReachedSame DEF Fits
<1>2. ASSUME NEW x \in Copy, Route(m, x) PROVE Fits'
  <2>1. UNCHANGED <<queue, accepted, chan, received, pending>>
    BY <1>2 DEF Route
  <2>2. \A y \in Copy : \A c \in targets'[y] \cup accepted'[y] : Addressed(y, c)
    <3>1. \A y \in Copy : targets'[y] = targets[y] \/ targets'[y] = Recipients(y)
      BY <1>2 DEF Route, TypeOK
    <3> QED BY <2>1, <3>1, RecipientsFit DEF Fits
  <2> QED BY <2>1, <2>2, ReachedSame DEF Fits
<1>3. ASSUME NEW x \in Copy, Enqueue(m, x) PROVE Fits'
  <2> DEFINE k == KeyOf(x)
             q == queue[k]
             w == Append(IF Len(q) >= MaxQueue THEN Tail(q) ELSE q, x)
  <2>0. Target[x[1]].kind = "users"
    BY <1>3 DEF Enqueue, TypeOK
  <2>1. k \in QueueKey /\ q \in Seq(Copy) /\ (Len(q) >= MaxQueue => q # <<>>)
    BY <2>0, KeyTypes DEF TypeOK
  <2>2. queue' = [queue EXCEPT ![k] = w]
    BY <1>3, <2>1 DEF Enqueue, TypeOK
  <2>4. Range(w) \subseteq Range(q) \cup {x}
    <3> HIDE DEF q
    <3>1. CASE Len(q) >= MaxQueue
      <4>1. Tail(q) \in Seq(Copy) /\ Range(Tail(q)) \subseteq Range(q)
        BY <2>1, <3>1, RangeTail
      <4>2. \A t \in Seq(Copy) : Range(Append(t, x)) = Range(t) \cup {x}
        BY RangeAppend
      <4>3. w = Append(Tail(q), x)
        BY <3>1
      <4> QED BY <4>1, <4>2, <4>3
    <3>2. CASE ~ Len(q) >= MaxQueue
      <4>1. w = Append(q, x)
        BY <3>2
      <4> QED BY <2>1, <4>1, RangeAppend
    <3> QED BY <3>1, <3>2
  <2> HIDE DEF q, w
  <2>5. \A j \in QueueKey : \A y \in Range(queue'[j]) :
           Target[y[1]].kind = "users" /\ j = KeyOf(y)
    <3>1. \A j \in QueueKey : \A y \in Range(queue[j]) :
             Target[y[1]].kind = "users" /\ j = KeyOf(y)
      BY DEF Fits
    <3>2. \A y \in Range(w) : Target[y[1]].kind = "users" /\ k = KeyOf(y)
      BY <2>0, <2>1, <2>4, <3>1 DEF q
    <3> HIDE DEF k
    <3>3. queue'[k] = w /\ \A j \in QueueKey \ {k} : queue'[j] = queue[j]
      BY <2>1, <2>2 DEF TypeOK
    <3> QED BY <3>1, <3>2, <3>3
  <2>6. UNCHANGED <<targets, accepted, chan, received, pending>>
    BY <1>3 DEF Enqueue
  <2> QED BY <2>5, <2>6, ReachedSame DEF Fits
<1>4. ASSUME NEW x \in Copy, NEW c \in Conn, Send(m, x, c) PROVE Fits'
  <2>1. Addressed(x, c)
    BY <1>4 DEF Send, Fits
  <2>2. \A y \in Copy : /\ targets'[y] \subseteq targets[y]
                        /\ accepted[y] \subseteq accepted'[y]
                        /\ accepted'[y] \subseteq accepted[y] \cup (IF y = x THEN {c} ELSE {})
    BY <1>4 DEF Send, TypeOK
  <2>3. \A y \in Copy : \A d \in targets'[y] \cup accepted'[y] : Addressed(y, d)
    BY <2>1, <2>2 DEF Fits
  <2>4. received' = received /\ pending' = pending /\ queue' = queue
    BY <1>4 DEF Send
  <2>5. \A d \in Conn : \A y \in Reached(d)' : d \in accepted'[y] \/ Owns(d, y)
    <3>0. \A d \in Conn : \A y \in Reached(d) : d \in accepted'[y] \/ Owns(d, y)
      BY <2>2, ReachedType DEF Fits
    <3>1. CASE UNCHANGED chan
      BY <2>4, <3>0, <3>1, ReachedSame
    <3>2. CASE /\ chan' = [chan EXCEPT ![c] = Append(@, x)]
               /\ accepted' = [accepted EXCEPT ![x] = @ \cup {c}]
      <4>1. /\ chan[c] \in Seq(Copy \cup {Frame}) /\ chan'[c] = Append(chan[c], x)
            /\ c \in accepted'[x]
        BY <3>2 DEF TypeOK
      <4>2. Range(chan'[c]) = Range(chan[c]) \cup {x}
        BY <4>1, RangeAppend
      <4>3. \A d \in Conn \ {c} : chan'[d] = chan[d]
        BY <3>2 DEF TypeOK
      <4>4. \A d \in Conn : Reached(d)' \subseteq Reached(d) \cup (IF d = c THEN {x} ELSE {})
        BY <2>4, <4>2, <4>3 DEF Reached
      <4> QED BY <3>0, <4>1, <4>4
    <3> QED BY <1>4, <3>1, <3>2 DEF Send
  <2> QED BY <2>3, <2>4, <2>5 DEF Fits
<1>5. CASE Finish(m)
  <2>1. UNCHANGED <<targets, accepted, queue, chan, received, pending>>
    BY <1>5 DEF Finish
  <2> QED BY <2>1, ReachedSame DEF Fits
<1> QED BY <1>1, <1>2, <1>3, <1>4, <1>5 DEF Dispatch

\* What a handler drains, replays and forwards fits.
LEMMA ConnectionFits ==
    ASSUME TypeOK, Fits, NEW c \in Conn,
           \/ Connect(c) \/ Handle(c) \/ Forward(c) \/ DropReceiver(c)
           \/ ClientGone(c) \/ Sweep(c) \/ Heartbeat(c) \/ Reply(c)
           \/ \E ch \in Channel : Subscribe(c, ch)
    PROVE  Fits'
<1> USE DEF handler, channel, dispatch, history
<1>0. ASSUME UNCHANGED <<queue, targets, accepted>>, \A d \in Conn : Reached(d)' = Reached(d)
      PROVE  Fits'
  BY <1>0, ReachedMoves
<1>1. CASE \/ Connect(c) \/ Open(c) \/ StreamEnds(c) \/ TaskEnded(c) \/ Unregister(c)
           \/ ClientGone(c) \/ Sweep(c)
  <2>1. UNCHANGED <<queue, targets, accepted>> /\ UNCHANGED <<chan, received, pending>>
    BY <1>1 DEF Connect, Open, StreamEnds, TaskEnded, Unregister, ClientGone, Sweep
  <2> QED BY <1>0, <2>1, ReachedSame
<1>2. CASE Heartbeat(c) \/ Reply(c) \/ \E ch \in Channel : Subscribe(c, ch)
  <2>1. /\ SendFrame(c) /\ UNCHANGED <<received, pending>>
        /\ UNCHANGED <<queue, targets, accepted>>
    BY <1>2 DEF Heartbeat, Reply, Subscribe
  <2> QED BY <1>0, <2>1, FrameReaches
<1>3. CASE Drain(c)
  <2> DEFINE k == KeyFor(c)
  <2>1. k \in QueueKey /\ queue[k] \in Seq(Copy)
    BY KeyTypes DEF TypeOK
  <2>2. PICK n \in 0..Len(queue[k]) :
          pending' = [pending EXCEPT ![c] = SubSeq(queue[k], n + 1, Len(queue[k]))]
    BY <1>3 DEF Drain
  <2>3. /\ pending'[c] = SubSeq(queue[k], n + 1, Len(queue[k]))
        /\ \A d \in Conn \ {c} : pending'[d] = pending[d]
    BY <2>2 DEF TypeOK
  <2>4. Range(pending'[c]) \subseteq Range(queue[k])
    BY <2>1, <2>3, RangeSubSeq
  <2>5. /\ queue' = [queue EXCEPT ![k] = <<>>]
        /\ UNCHANGED <<chan, received, targets, accepted>>
    BY <1>3 DEF Drain
  <2>6. /\ Range(queue[k]) \subseteq Copy
        /\ \A x \in Range(queue[k]) : Target[x[1]].kind = "users" /\ KeyOf(x) = KeyFor(c)
    BY <2>1 DEF Fits, Range
  <2>7. \A x \in Range(pending'[c]) : Owns(c, x)
    BY <2>4, <2>6, QueuedFit
  <2> HIDE DEF k
  <2>8. \A d \in Conn : \A x \in Reached(d)' : x \in Reached(d) \/ (d = c /\ Owns(c, x))
    BY <2>3, <2>5, <2>7 DEF Reached
  <2>9. \A d \in Conn : \A x \in Reached(d)' : d \in accepted'[x] \/ Owns(d, x)
    BY <2>5, <2>8 DEF Fits
  <2>10. \A j \in QueueKey : Range(queue'[j]) \subseteq Range(queue[j])
    BY <2>1, <2>5, RangeEmpty DEF TypeOK
  <2>11. \A j \in QueueKey : \A x \in Range(queue'[j]) :
            Target[x[1]].kind = "users" /\ j = KeyOf(x)
    BY <2>10 DEF Fits
  <2>12. \A x \in Copy : \A d \in targets'[x] \cup accepted'[x] : Addressed(x, d)
    BY <2>5 DEF Fits
  <2> QED BY <2>9, <2>11, <2>12 DEF Fits
<1>4. CASE Replay(c)
  <2>1. pending[c] \in Seq(Copy) /\ pending[c] # <<>> /\ chan[c] \in Seq(Copy \cup {Frame})
    BY <1>4 DEF Replay, TypeOK
  <2>2. /\ chan'[c] = Append(chan[c], Head(pending[c])) /\ pending'[c] = Tail(pending[c])
        /\ \A d \in Conn \ {c} : chan'[d] = chan[d] /\ pending'[d] = pending[d]
        /\ UNCHANGED <<received, queue, targets, accepted>>
    BY <1>4 DEF Replay, TypeOK
  <2>3. /\ Head(pending[c]) \in Copy
        /\ Range(pending[c]) = {Head(pending[c])} \cup Range(Tail(pending[c]))
    BY <2>1, RangeTail
  <2>6. \A x \in Copy : Range(Append(chan[c], x)) = Range(chan[c]) \cup {x}
    BY <2>1, RangeAppend
  <2>4. Range(chan'[c]) = Range(chan[c]) \cup {Head(pending[c])}
    BY <2>2, <2>3, <2>6
  <2>5. \A d \in Conn : Reached(d)' = Reached(d)
    BY <2>2, <2>3, <2>4 DEF Reached
  <2> QED BY <1>0, <2>2, <2>5
<1>5. CASE Abandon(c) \/ DropReceiver(c)
  <2>1. /\ chan'[c] = <<>> /\ (pending'[c] = <<>> \/ pending'[c] = pending[c])
        /\ \A d \in Conn \ {c} : chan'[d] = chan[d] /\ pending'[d] = pending[d]
        /\ UNCHANGED <<received, queue, targets, accepted>>
    BY <1>5 DEF Abandon, DropReceiver, TypeOK
  <2>2. \A d \in Conn : Reached(d)' \subseteq Reached(d)
    BY <2>1, RangeEmpty DEF Reached
  <2> QED BY <2>1, <2>2, ReachedMoves
<1>6. CASE Forward(c)
  <2>1. /\ chan[c] \in Seq(Copy \cup {Frame}) /\ chan[c] # <<>> /\ received[c] \in Seq(Copy)
    BY <1>6 DEF Forward, TypeOK
  <2>2. /\ chan'[c] = Tail(chan[c])
        /\ \/ received'[c] = received[c]
           \/ Head(chan[c]) # Frame /\ received'[c] = Append(received[c], Head(chan[c]))
        /\ \A d \in Conn \ {c} : chan'[d] = chan[d] /\ received'[d] = received[d]
        /\ UNCHANGED <<pending, queue, targets, accepted>>
    BY <1>6 DEF Forward, TypeOK
  <2>3. /\ Head(chan[c]) \in Copy \cup {Frame}
        /\ Range(chan[c]) = {Head(chan[c])} \cup Range(Tail(chan[c]))
    BY <2>1, RangeTail
  <2>4. Head(chan[c]) # Frame =>
          Range(Append(received[c], Head(chan[c]))) = Range(received[c]) \cup {Head(chan[c])}
    BY <2>1, <2>3, RangeAppend
  <2>5. \A d \in Conn : Reached(d)' \subseteq Reached(d)
    BY <2>2, <2>3, <2>4 DEF Reached
  <2> QED BY <2>2, <2>5, ReachedMoves
<1> QED BY <1>1, <1>2, <1>3, <1>4, <1>5, <1>6 DEF Handle

\* No step brings a copy to a stranger.
LEMMA FitsStep == TypeOK /\ Fits /\ [Next]_vars => Fits'
<1> SUFFICES ASSUME TypeOK, Fits, [Next]_vars PROVE Fits'
  OBVIOUS
<1>1. CASE UNCHANGED vars
  <2>1. UNCHANGED <<targets, accepted, queue, chan, received, pending>>
    BY <1>1 DEF vars
  <2> QED BY <2>1, ReachedSame DEF Fits
<1> QED BY <1>1, DispatchFits, ConnectionFits DEF Next

\* What reaches a connection directly is addressed to its user and tenant; what is
\* replayed to it was queued for its own user and tenant, unless the tenant prefix of a
\* queue key makes the keys of two tenants the same.
THEOREM DeliveryNoStranger == Spec => []NoStranger
<1>1. Init => Fits
  BY RangeEmpty DEF Init, Fits, Reached
<1>2. TypeOK /\ Fits => NoStranger
  <2> SUFFICES ASSUME TypeOK, Fits, NEW c \in Conn, NEW x \in Reached(c)
               PROVE  IF Replayed(c, x) THEN Owns(c, x) ELSE Addressed(x, c)
    BY DEF NoStranger, Owns
  <2>1. x \in Copy
    BY ReachedType
  <2> QED BY <2>1 DEF Fits, Replayed
<1> QED BY <1>1, <1>2, FitsStep, DeliveryTypes, PTL DEF Spec

----------------------------------------------------------------------------
(* The queues implement MessageQueue                                       *)

\* A dispatch queues each copy once, under the key of the user listed: before, the copy
\* is under no key. So no copy is in a queue twice or in two queues, and a queue holds
\* nothing but what was put into it.
Once ==
    /\ \A x \in Copy : dpc[x[1]] = "new" \/ x \in offline =>
          \A k \in QueueKey : x \notin Range(enqueued[k])
    /\ \A k \in QueueKey : \A x \in Range(enqueued[k]) : k = KeyOf(x)
    /\ \A k \in QueueKey : IsInjective(queue[k]) /\ Range(queue[k]) \subseteq Range(enqueued[k])

Left == [k \in QueueKey |-> Range(enqueued[k]) \ Range(queue[k])]

\* An enqueue is a Put, and leaves every copy in its queue once.
LEMMA EnqueuePuts ==
    ASSUME TypeOK, Once, NEW m \in Msg, NEW x \in Copy, Enqueue(m, x)
    PROVE  Once' /\ KeyOf(x) \in QueueKey /\ Queues!Put(KeyOf(x), x)
<1> DEFINE k == KeyOf(x)
           q == queue[k]
           e == enqueued[k]
           w == Append(IF Len(q) >= MaxQueue THEN Tail(q) ELSE q, x)
           f == Append(e, x)
<1>1. k \in QueueKey /\ q \in Seq(Copy) /\ e \in Seq(Copy) /\ (Len(q) >= MaxQueue => q # <<>>)
  BY KeyTypes DEF TypeOK, Enqueue
<1>2. x \in offline /\ x \notin Range(e) /\ IsInjective(q) /\ Range(q) \subseteq Range(e)
  BY <1>1 DEF Enqueue, Once
<1>3. queue' = [queue EXCEPT ![k] = w] /\ enqueued' = [enqueued EXCEPT ![k] = f]
  BY <1>1 DEF Enqueue, TypeOK
<1>4. x[1] = m /\ offline' = offline \ {x} /\ \A n \in Msg : dpc'[n] = "new" => n # m /\ dpc[n] = "new"
  BY CopyFacts DEF Enqueue, TypeOK
<1> HIDE DEF k, q, e
<1>5. \A s \in Seq(Copy) : Range(Append(s, x)) = Range(s) \cup {x}
  BY RangeAppend
<1>6. \A s \in Seq(Copy) : IsInjective(s) /\ x \notin Range(s) => IsInjective(Append(s, x))
  BY InjectiveAppend
<1>7. Range(f) = Range(e) \cup {x}
  BY <1>1, <1>5
<1>8. /\ IsInjective(w) /\ Range(w) \subseteq Range(f)
      /\ Range(f) \ Range(w) = (Range(e) \ Range(q)) \cup (IF Len(q) >= MaxQueue THEN {Head(q)} ELSE {})
  <2>1. CASE Len(q) >= MaxQueue
    <3>1. /\ Tail(q) \in Seq(Copy) /\ Range(q) = {Head(q)} \cup Range(Tail(q))
          /\ IsInjective(Tail(q)) /\ Head(q) \notin Range(Tail(q))
      BY <1>1, <1>2, <2>1, RangeTail, InjectiveTail
    <3>2. w = Append(Tail(q), x)
      BY <2>1
    <3>3. Range(w) = Range(Tail(q)) \cup {x} /\ IsInjective(w)
      BY <1>2, <1>5, <1>6, <3>1, <3>2
    <3> HIDE DEF w, f
    <3> QED BY <1>2, <1>7, <2>1, <3>1, <3>3
  <2>2. CASE ~ Len(q) >= MaxQueue
    <3>1. w = Append(q, x)
      BY <2>2
    <3>2. Range(w) = Range(q) \cup {x} /\ IsInjective(w)
      BY <1>1, <1>2, <1>5, <1>6, <3>1
    <3> HIDE DEF w, f
    <3> QED BY <1>2, <1>7, <2>2, <3>2
  <2> QED BY <2>1, <2>2
<1> HIDE DEF w, f
<1>9. /\ queue'[k] = w /\ enqueued'[k] = f
      /\ \A j \in QueueKey \ {k} : queue'[j] = queue[j] /\ enqueued'[j] = enqueued[j]
  BY <1>1, <1>3 DEF TypeOK
<1>10. Once'
  <2>1. \A j \in QueueKey : IsInjective(queue'[j]) /\ Range(queue'[j]) \subseteq Range(enqueued'[j])
    BY <1>8, <1>9 DEF Once
  <2>2. \A j \in QueueKey : \A y :
           y \in Range(enqueued'[j]) => y \in Range(enqueued[j]) \/ (y = x /\ j = k)
    BY <1>7, <1>9 DEF e
  <2>3. \A j \in QueueKey : \A y \in Range(enqueued'[j]) : j = KeyOf(y)
    BY <2>2 DEF Once, k
  <2>4. \A y \in Copy : dpc'[y[1]] = "new" \/ y \in offline' =>
           y # x /\ (dpc[y[1]] = "new" \/ y \in offline)
    BY <1>4, CopyFacts
  <2>5. \A y \in Copy : dpc'[y[1]] = "new" \/ y \in offline' =>
           \A j \in QueueKey : y \notin Range(enqueued'[j])
    BY <2>2, <2>4 DEF Once
  <2> QED BY <2>1, <2>3, <2>5 DEF Once
<1>11. Queues!Put(k, x)
  <2>1. x \notin Range(q) \cup Left[k]
    BY <1>1, <1>2 DEF Left, q, e
  <2>2. queue' = [queue EXCEPT ![k] = Append(IF Len(queue[k]) >= MaxQueue THEN Tail(@) ELSE @, x)]
    BY DEF Enqueue, k
  <2>3. Left' = IF Len(q) >= MaxQueue THEN [Left EXCEPT ![k] = @ \cup {Head(q)}] ELSE Left
    <3>1. Left' = [j \in QueueKey |-> Range(enqueued'[j]) \ Range(queue'[j])]
      BY DEF Left
    <3>2. Left'[k] = Range(f) \ Range(w) /\ Left[k] = Range(e) \ Range(q)
      BY <1>1, <1>9, <3>1 DEF Left, q, e
    <3>3. \A j \in QueueKey \ {k} : Left'[j] = Left[j]
      BY <1>9, <3>1 DEF Left
    <3> QED BY <1>1, <1>8, <3>1, <3>2, <3>3 DEF Left
  <2>4. /\ x \notin Range(queue[k]) \cup Left[k]
        /\ Left' = IF Len(queue[k]) >= MaxQueue
                     THEN [Left EXCEPT ![k] = Left[k] \cup {Head(queue[k])}] ELSE Left
    BY <2>1, <2>3 DEF q
  <2>5. Queues!Range(queue[k]) = Range(queue[k])
    BY DEF Queues!Range, Range
  <2> QED BY <2>2, <2>4, <2>5, Zenon DEF Queues!Put, Left
<1> QED BY <1>1, <1>10, <1>11 DEF k

\* A drain is a Take.
LEMMA DrainTakes ==
    ASSUME TypeOK, Once, NEW c \in Conn, Drain(c)
    PROVE  Once' /\ Queues!Take(KeyFor(c))
<1> DEFINE k == KeyFor(c)
<1>1. k \in QueueKey
  BY KeyTypes
<1>2. /\ queue' = [queue EXCEPT ![k] = <<>>]
      /\ UNCHANGED <<enqueued, dpc, offline>>
  BY DEF Drain, dispatch
<1> HIDE DEF k
<1>3. queue'[k] = <<>> /\ \A j \in QueueKey \ {k} : queue'[j] = queue[j]
  BY <1>1, <1>2 DEF TypeOK
<1>4. Range(<<>>) = {} /\ IsInjective(<<>>)
  BY RangeEmpty DEF IsInjective
<1>5. Once'
  <2>1. \A j \in QueueKey : IsInjective(queue'[j]) /\ Range(queue'[j]) \subseteq Range(enqueued[j])
    BY <1>3, <1>4 DEF Once
  <2> QED BY <1>2, <2>1 DEF Once
<1>6. Queues!Take(k)
  <2>1. Left' = [j \in QueueKey |-> Range(enqueued[j]) \ Range(queue'[j])]
    BY <1>2 DEF Left
  <2>2. Left'[k] = Left[k] \cup Range(queue[k])
    BY <1>1, <1>3, <1>4, <2>1 DEF Left, Once
  <2>3. \A j \in QueueKey \ {k} : Left'[j] = Left[j]
    BY <1>3, <2>1 DEF Left
  <2>4. Left' = [Left EXCEPT ![k] = Left[k] \cup Range(queue[k])]
    BY <1>1, <2>1, <2>2, <2>3 DEF Left
  <2>5. Queues!Range(queue[k]) = Range(queue[k])
    BY DEF Queues!Range, Range
  <2> QED BY <1>2, <2>4, <2>5, Zenon DEF Queues!Take, Left
<1> QED BY <1>5, <1>6 DEF k

\* Every other step leaves the queues and their history alone, and only a Lookup finds
\* users offline, for copies that were never queued.
LEMMA OthersStutter ==
    ASSUME TypeOK, Once,
           \/ \E m \in Msg : \/ Lookup(m) \/ Finish(m)
                             \/ \E x \in Copy : Route(m, x) \/ \E c \in Conn : Send(m, x, c)
           \/ \E c \in Conn : \/ Connect(c) \/ Replay(c) \/ Open(c) \/ StreamEnds(c)
                              \/ TaskEnded(c) \/ Unregister(c) \/ Abandon(c) \/ Forward(c)
                              \/ DropReceiver(c) \/ ClientGone(c) \/ Sweep(c) \/ Heartbeat(c)
                              \/ Reply(c) \/ \E ch \in Channel : Subscribe(c, ch)
           \/ UNCHANGED vars
    PROVE  Once' /\ UNCHANGED <<queue, enqueued>>
<1> USE DEF handler, channel, dispatch, history
<1>0. ASSUME UNCHANGED <<queue, enqueued>>,
             \A x \in Copy : dpc'[x[1]] = "new" \/ x \in offline' =>
                dpc[x[1]] = "new" \/ x \in offline
      PROVE  Once'
  BY <1>0 DEF Once
<1>1. ASSUME NEW m \in Msg, Lookup(m) PROVE Once' /\ UNCHANGED <<queue, enqueued>>
  <2>1. /\ UNCHANGED <<queue, enqueued>> /\ dpc[m] = "new"
        /\ dpc'[m] # "new" /\ \A n \in Msg \ {m} : dpc'[n] = dpc[n]
        /\ \A x \in Copy : x \in offline' => x \in offline \/ x[1] = m
    BY <1>1, LookupEffect
  <2>2. \A x \in Copy : dpc'[x[1]] = "new" \/ x \in offline' => dpc[x[1]] = "new" \/ x \in offline
    BY <2>1, CopyFacts
  <2> QED BY <1>0, <2>1, <2>2
<1>2. ASSUME NEW m \in Msg,
             Finish(m) \/ \E x \in Copy : Route(m, x) \/ \E c \in Conn : Send(m, x, c)
      PROVE  Once' /\ UNCHANGED <<queue, enqueued>>
  <2>1. UNCHANGED <<queue, enqueued, offline>>
    BY <1>2 DEF Finish, Route, Send
  <2>2. \A n \in Msg : dpc'[n] = "new" => dpc[n] = "new"
    BY <1>2 DEF Finish, Route, Send, TypeOK
  <2> QED BY <1>0, <2>1, <2>2, CopyFacts
<1>3. ASSUME NEW c \in Conn,
             \/ Connect(c) \/ Replay(c) \/ Open(c) \/ StreamEnds(c) \/ TaskEnded(c)
             \/ Unregister(c) \/ Abandon(c) \/ Forward(c) \/ DropReceiver(c)
             \/ ClientGone(c) \/ Sweep(c) \/ Heartbeat(c) \/ Reply(c)
             \/ \E ch \in Channel : Subscribe(c, ch)
      PROVE  Once' /\ UNCHANGED <<queue, enqueued>>
  <2>1. UNCHANGED <<queue, enqueued, dpc, offline>>
    BY <1>3 DEF Connect, Replay, Open, StreamEnds, TaskEnded, Unregister, Abandon, Forward,
                DropReceiver, ClientGone, Sweep, Heartbeat, Reply, Subscribe
  <2> QED BY <1>0, <2>1
<1>4. CASE UNCHANGED vars
  BY <1>0, <1>4 DEF vars
<1> QED BY <1>1, <1>2, <1>3, <1>4

\* Every step is one of the abstract queues, or leaves them as they are.
LEMMA QueueStep ==
    ASSUME TypeOK, Once, [Next]_vars
    PROVE  Once' /\ [Queues!QueueNext]_<<queue, Left>>
<1>1. ASSUME NEW m \in Msg, NEW x \in Copy, Enqueue(m, x)
      PROVE  Once' /\ Queues!QueueNext
  BY <1>1, EnqueuePuts DEF Queues!QueueNext
<1>2. ASSUME NEW c \in Conn, Drain(c) PROVE Once' /\ Queues!QueueNext
  BY <1>2, DrainTakes, KeyTypes DEF Queues!QueueNext
<1>3. ASSUME UNCHANGED <<queue, enqueued>> PROVE UNCHANGED <<queue, Left>>
  BY <1>3 DEF Left
<1> QED BY <1>1, <1>2, <1>3, OthersStutter DEF Next, Dispatch, Handle

\* Under every interleaving of dispatches, devices that connect and failures, the
\* queues of the memory backend do what MessageQueue promises, of lists that name a
\* user repeatedly too.
THEOREM DeliveryKeepsQueues == Spec => QueuePromise
<1>1. Init => Once /\ Queues!QueueInit
  <2> SUFFICES ASSUME Init PROVE Once /\ Queues!QueueInit
    OBVIOUS
  <2>1. Range(<<>>) = {} /\ IsInjective(<<>>)
    BY RangeEmpty DEF IsInjective
  <2>2. Once
    BY <2>1 DEF Init, Once
  <2>3. Queues!QueueInit
    BY <2>1 DEF Init, Queues!QueueInit
  <2> QED BY <2>2, <2>3
<1>2. TypeOK /\ Once /\ [Next]_vars => Once'
  BY QueueStep
<1>3. TypeOK /\ Once /\ [Next]_vars => [Queues!QueueNext]_<<queue, Left>>
  BY QueueStep
<1> QED BY <1>1, <1>2, <1>3, DeliveryTypes, PTL DEF Spec, QueuePromise, Queues!QueueSpec, Left

----------------------------------------------------------------------------
(* What precedes what in a sequence                                        *)

\* Nothing precedes anything in an empty sequence.
LEMMA PrecedesEmpty == \A x, y : ~ Precedes(<<>>, x, y)
BY DEF Precedes

\* What precedes or is preceded is in the sequence.
LEMMA PrecedesRange ==
    ASSUME NEW s, NEW x, NEW y, Precedes(s, x, y)
    PROVE  x \in Range(s) /\ y \in Range(s)
BY DEF Precedes, Range

\* The appended element comes after everything else, and all else keeps its order.
LEMMA PrecedesAppend ==
    ASSUME NEW S, NEW s \in Seq(S), NEW e \in S, NEW x, NEW y
    PROVE  Precedes(Append(s, e), x, y) <=> Precedes(s, x, y) \/ (x \in Range(s) /\ y = e)
<1> DEFINE t == Append(s, e)
<1>1. /\ DOMAIN s = 1..Len(s) /\ DOMAIN t = 1..Len(s) + 1 /\ Len(s) \in Nat
      /\ \A i \in 1..Len(s) : t[i] = s[i]
      /\ t[Len(s) + 1] = e
  OBVIOUS
<1> HIDE DEF t
<1>2. ASSUME Precedes(s, x, y) PROVE Precedes(t, x, y)
  <2>1. PICK i, j \in DOMAIN s : i < j /\ s[i] = x /\ s[j] = y
    BY <1>2 DEF Precedes
  <2>2. i \in DOMAIN t /\ j \in DOMAIN t /\ t[i] = x /\ t[j] = y
    BY <1>1, <2>1
  <2> QED BY <2>1, <2>2 DEF Precedes
<1>3. ASSUME x \in Range(s), y = e PROVE Precedes(t, x, y)
  <2>1. PICK i \in DOMAIN s : s[i] = x
    BY <1>3 DEF Range
  <2>2. /\ i \in DOMAIN t /\ Len(s) + 1 \in DOMAIN t /\ i < Len(s) + 1
        /\ t[i] = x /\ t[Len(s) + 1] = y
    BY <1>1, <1>3, <2>1
  <2> QED BY <2>2 DEF Precedes
<1>4. ASSUME Precedes(t, x, y) PROVE Precedes(s, x, y) \/ (x \in Range(s) /\ y = e)
  <2>1. PICK i, j \in DOMAIN t : i < j /\ t[i] = x /\ t[j] = y
    BY <1>4 DEF Precedes
  <2>2. i \in DOMAIN s /\ s[i] = x
    BY <1>1, <2>1
  <2>3. CASE j = Len(s) + 1
    BY <1>1, <2>1, <2>2, <2>3 DEF Range
  <2>4. CASE j # Len(s) + 1
    <3>1. j \in DOMAIN s /\ s[j] = y
      BY <1>1, <2>1, <2>4
    <3> QED BY <2>1, <2>2, <3>1 DEF Precedes
  <2> QED BY <2>3, <2>4
<1> QED BY <1>2, <1>3, <1>4 DEF t

\* The head comes before everything in the tail.
LEMMA PrecedesTail ==
    ASSUME NEW S, NEW s \in Seq(S), s # <<>>, NEW x, NEW y
    PROVE  Precedes(s, x, y) <=> Precedes(Tail(s), x, y) \/ (x = Head(s) /\ y \in Range(Tail(s)))
<1> DEFINE t == Tail(s)
<1>1. /\ t \in Seq(S) /\ Len(t) = Len(s) - 1
      /\ \A i \in 1..Len(t) : t[i] = s[i + 1]
  BY HeadTailProperties
<1>2. Len(s) \in Nat \ {0} /\ Head(s) = s[1] /\ DOMAIN s = 1..Len(s)
  OBVIOUS
<1> HIDE DEF t
<1>3. DOMAIN t = 1..Len(t)
  BY <1>1
<1>4. ASSUME Precedes(t, x, y) PROVE Precedes(s, x, y)
  <2>1. PICK i, j \in DOMAIN t : i < j /\ t[i] = x /\ t[j] = y
    BY <1>4 DEF Precedes
  <2>2. /\ i + 1 \in DOMAIN s /\ j + 1 \in DOMAIN s /\ i + 1 < j + 1
        /\ s[i + 1] = x /\ s[j + 1] = y
    BY <1>1, <1>2, <1>3, <2>1
  <2> QED BY <2>2 DEF Precedes
<1>5. ASSUME x = Head(s), y \in Range(t) PROVE Precedes(s, x, y)
  <2>1. PICK j \in DOMAIN t : t[j] = y
    BY <1>5 DEF Range
  <2>2. /\ 1 \in DOMAIN s /\ j + 1 \in DOMAIN s /\ 1 < j + 1
        /\ s[1] = x /\ s[j + 1] = y
    BY <1>1, <1>2, <1>3, <1>5, <2>1
  <2> QED BY <2>2 DEF Precedes
<1>6. ASSUME Precedes(s, x, y) PROVE Precedes(t, x, y) \/ (x = Head(s) /\ y \in Range(t))
  <2>1. PICK i, j \in DOMAIN s : i < j /\ s[i] = x /\ s[j] = y
    BY <1>6 DEF Precedes
  <2>2. PICK b \in Nat : b = j - 1
    BY <1>2, <2>1
  <2>3. b \in DOMAIN t /\ t[b] = y
    <3>1. b \in 1..Len(t) /\ b + 1 = j
      BY <1>1, <1>2, <2>1, <2>2
    <3> QED BY <1>1, <1>3, <2>1, <3>1
  <2>4. CASE i = 1
    BY <1>2, <2>1, <2>3, <2>4 DEF Range
  <2>5. CASE i # 1
    <3>1. PICK a \in Nat : a = i - 1
      BY <1>2, <2>1
    <3>2. a \in 1..Len(t) /\ a + 1 = i /\ a < b
      BY <1>1, <1>2, <2>1, <2>2, <2>5, <3>1
    <3>3. a \in DOMAIN t /\ t[a] = x
      BY <1>1, <1>3, <2>1, <3>2
    <3> QED BY <2>3, <3>2, <3>3 DEF Precedes
  <2> QED BY <2>4, <2>5
<1> QED BY <1>4, <1>5, <1>6 DEF t

\* A suffix keeps the order of the sequence.
LEMMA PrecedesSubSeq ==
    ASSUME NEW S, NEW s \in Seq(S), NEW n \in 0..Len(s), NEW x, NEW y,
           Precedes(SubSeq(s, n + 1, Len(s)), x, y)
    PROVE  Precedes(s, x, y)
<1> DEFINE t == SubSeq(s, n + 1, Len(s))
<1>1. Len(s) \in Nat /\ \A i \in (n + 1)..Len(s) : s[i] \in S
  OBVIOUS
<1>2. /\ t \in Seq(S)
      /\ Len(t) = IF n + 1 <= Len(s) THEN Len(s) - (n + 1) + 1 ELSE 0
      /\ \A i \in 1..(Len(s) - (n + 1) + 1) : t[i] = s[(n + 1) + i - 1]
  BY <1>1, SubSeqProperties
<1>3. Precedes(t, x, y)
  OBVIOUS
<1> HIDE DEF t
<1>4. PICK i, j \in DOMAIN t : i < j /\ t[i] = x /\ t[j] = y
  BY <1>3 DEF Precedes
<1>5. i \in 1..Len(t) /\ j \in 1..Len(t)
  BY <1>2, <1>4
<1>6. Len(t) <= Len(s) - n /\ Len(t) \in Nat /\ n \in Nat
  BY <1>1, <1>2
<1>7. PICK a, b \in 1..Len(s) : a = (n + 1) + i - 1 /\ b = (n + 1) + j - 1
  <2>1. (n + 1) + i - 1 \in 1..Len(s)
    BY <1>1, <1>5, <1>6
  <2>2. (n + 1) + j - 1 \in 1..Len(s)
    BY <1>1, <1>5, <1>6
  <2> QED BY <2>1, <2>2
<1>8. i \in 1..(Len(s) - (n + 1) + 1) /\ j \in 1..(Len(s) - (n + 1) + 1)
  BY <1>1, <1>5, <1>6
<1>9. s[a] = x /\ s[b] = y
  BY <1>2, <1>4, <1>7, <1>8
<1>10. a < b
  BY <1>1, <1>4, <1>5, <1>7
<1>11. DOMAIN s = 1..Len(s)
  OBVIOUS
<1> QED BY <1>10, <1>11, <1>9 DEF Precedes

\* In a concatenation one comes before the other in one of the parts or across them.
LEMMA PrecedesConcat ==
    ASSUME NEW S, NEW s \in Seq(S), NEW t \in Seq(S), NEW x, NEW y, Precedes(s \o t, x, y)
    PROVE  \/ Precedes(s, x, y) \/ Precedes(t, x, y)
           \/ x \in Range(s) /\ y \in Range(t)
<1> DEFINE w == s \o t
<1>1. /\ Len(s) \in Nat /\ Len(t) \in Nat /\ DOMAIN w = 1..(Len(s) + Len(t))
      /\ DOMAIN s = 1..Len(s) /\ DOMAIN t = 1..Len(t)
      /\ \A i \in 1..(Len(s) + Len(t)) : w[i] = IF i <= Len(s) THEN s[i] ELSE t[i - Len(s)]
  OBVIOUS
<1>2. PICK i, j \in DOMAIN w : i < j /\ w[i] = x /\ w[j] = y
  BY DEF Precedes
<1> HIDE DEF w
<1>3. CASE j <= Len(s)
  <2>1. i \in DOMAIN s /\ j \in DOMAIN s /\ s[i] = x /\ s[j] = y
    BY <1>1, <1>2, <1>3
  <2> QED BY <1>2, <2>1 DEF Precedes
<1>4. CASE j > Len(s)
  <2>1. PICK b \in DOMAIN t : b = j - Len(s) /\ t[b] = y
    BY <1>1, <1>2, <1>4
  <2>2. CASE i <= Len(s)
    <3>1. i \in DOMAIN s /\ s[i] = x
      BY <1>1, <1>2, <2>2
    <3> QED BY <2>1, <3>1 DEF Range
  <2>3. CASE i > Len(s)
    <3>1. PICK a \in DOMAIN t : a = i - Len(s) /\ t[a] = x
      BY <1>1, <1>2, <2>3
    <3>2. a < b
      BY <1>1, <1>2, <2>1, <3>1
    <3> QED BY <2>1, <3>1, <3>2 DEF Precedes
  <2> QED BY <1>1, <1>2, <2>2, <2>3
<1> QED BY <1>1, <1>2, <1>3, <1>4

\* A concatenation holds nothing that neither part holds.
LEMMA RangeConcat ==
    ASSUME NEW S, NEW s \in Seq(S), NEW t \in Seq(S)
    PROVE  s \o t \in Seq(S) /\ Range(s \o t) \subseteq Range(s) \cup Range(t)
<1> DEFINE w == s \o t
<1>1. /\ Len(s) \in Nat /\ Len(t) \in Nat /\ DOMAIN w = 1..(Len(s) + Len(t))
      /\ DOMAIN s = 1..Len(s) /\ DOMAIN t = 1..Len(t) /\ w \in Seq(S)
      /\ \A i \in 1..(Len(s) + Len(t)) : w[i] = IF i <= Len(s) THEN s[i] ELSE t[i - Len(s)]
  OBVIOUS
<1> HIDE DEF w
<1>2. ASSUME NEW i \in DOMAIN w PROVE w[i] \in Range(s) \cup Range(t)
  <2>1. CASE i <= Len(s)
    BY <1>1, <2>1 DEF Range
  <2>2. CASE i > Len(s)
    <3>1. PICK b \in DOMAIN t : b = i - Len(s) /\ t[b] = w[i]
      BY <1>1, <2>2
    <3> QED BY <3>1 DEF Range
  <2> QED BY <1>1, <2>1, <2>2
<1> QED BY <1>1, <1>2 DEF Range, w

----------------------------------------------------------------------------
(* Where a copy is                                                         *)

\* The registry and the dispatches know only connections that exist, and nothing of the
\* queue is with a connection before it has drained. A dispatch that has not looked up
\* its targets has sent and queued nothing; it then sends a copy to each target once, and
\* never both sends a copy and queues it.
Placed ==
    /\ \A c \in Conn : hpc[c] = "new" =>
          c \notin registered /\ \A x \in Copy : c \notin targets[x] \cup accepted[x]
    /\ \A c \in Conn : hpc[c] \in {"new", "drain"} =>
          pending[c] = <<>> /\ taken[c] = {} /\ \A x \in Reached(c) : c \in accepted[x]
    /\ \A x \in Copy : dpc[x[1]] = "new" =>
          /\ x \notin offline /\ targets[x] = {} /\ accepted[x] = {}
          /\ \A c \in Conn : x \notin Reached(c)
    /\ \A x \in Copy : \A c \in targets[x] : x \notin Reached(c)
    /\ \A x \in Copy : x \in offline \/ (\E k \in QueueKey : x \in Range(enqueued[k])) =>
          targets[x] = {} /\ accepted[x] = {}

\* A replayed copy was queued under the key of the connection, has left the queue, and
\* is with one connection only.
Held ==
    /\ \A c \in Conn, x \in Copy : Replayed(c, x) =>
          x \in Range(enqueued[KeyFor(c)]) \ Range(queue[KeyFor(c)])
    /\ \A c, d \in Conn, x \in Copy : Replayed(c, x) /\ Replayed(d, x) => c = d

\* y comes after x on the way to the client of c.
Follows(c, x, y) ==
    \/ Precedes(received[c], x, y) \/ Precedes(chan[c], x, y) \/ Precedes(pending[c], x, y)
    \/ x \in Range(received[c]) /\ y \in Range(chan[c]) \cup Range(pending[c])
    \/ x \in Range(chan[c]) /\ y \in Range(pending[c])

\* Nothing comes twice, and the replayed copies keep the order they were queued in.
InOrder ==
    /\ \A c \in Conn, x \in Copy : ~ Follows(c, x, x)
    /\ \A c \in Conn, x, y \in Copy :
          Follows(c, x, y) /\ Replayed(c, x) /\ Replayed(c, y) =>
              Precedes(enqueued[KeyFor(c)], x, y)
    /\ \A k \in QueueKey, x, y \in Copy :
          Precedes(queue[k], x, y) => Precedes(enqueued[k], x, y)

\* A step that moves no copy leaves what reaches a connection, and its order, as it is.
LEMMA Still ==
    ASSUME UNCHANGED <<chan, received, pending>>
    PROVE  \A c \in Conn : /\ Reached(c)' = Reached(c)
                           /\ \A x, y : Follows(c, x, y)' <=> Follows(c, x, y)
BY DEF Reached, Follows

\* What the steps of the connections have in common, but for Connect and Drain: copies
\* are moved on to the client or, once the client has gone, lost; no other one comes.
Quiet ==
    /\ UNCHANGED <<queue, enqueued, discarded, taken, dpc, offline, targets, accepted>>
    /\ registered' \subseteq registered /\ online' \subseteq online
    /\ \A d \in Conn :
          /\ hpc'[d] = hpc[d] \/ (hpc[d] # "new" /\ hpc'[d] \notin {"new", "drain"})
          /\ hpc'[d] \in {"new", "drain"} => pending'[d] = pending[d]
          /\ Reached(d)' \subseteq Reached(d) /\ (d \in online => Reached(d) \subseteq Reached(d)')
          /\ \A x, y \in Copy : Follows(d, x, y)' => Follows(d, x, y)

\* A frame in the channel brings no copy before another.
LEMMA QuietFrame ==
    ASSUME TypeOK, NEW c \in Conn, SendFrame(c), UNCHANGED <<received, pending>>
    PROVE  \A d \in Conn, x, y \in Copy : Follows(d, x, y)' => Follows(d, x, y)
<1>1. CASE UNCHANGED chan
  BY <1>1, Still
<1>2. CASE chan' = [chan EXCEPT ![c] = Append(@, Frame)]
  <2>1. chan[c] \in Seq(Copy \cup {Frame}) /\ chan'[c] = Append(chan[c], Frame)
    BY <1>2 DEF TypeOK
  <2>2. Range(chan'[c]) = Range(chan[c]) \cup {Frame}
    BY <2>1, RangeAppend
  <2>3. \A x, y \in Copy : Precedes(chan'[c], x, y) => Precedes(chan[c], x, y)
    <3>1. \A x, y : Precedes(Append(chan[c], Frame), x, y) =>
                      Precedes(chan[c], x, y) \/ y = Frame
      BY <2>1, PrecedesAppend
    <3> QED BY <2>1, <3>1
  <2>4. \A d \in Conn \ {c} : chan'[d] = chan[d]
    BY <1>2 DEF TypeOK
  <2>5. \A x, y \in Copy : Follows(c, x, y)' => Follows(c, x, y)
    BY <2>2, <2>3 DEF Follows
  <2>6. \A d \in Conn \ {c} : \A x, y \in Copy : Follows(d, x, y)' => Follows(d, x, y)
    BY <2>4 DEF Follows
  <2> QED BY <2>5, <2>6
<1> QED BY <1>1, <1>2 DEF SendFrame

\* A replay moves the first pending copy behind all that is in the channel.
LEMMA QuietReplay ==
    ASSUME TypeOK, NEW c \in Conn, Replay(c)
    PROVE  Quiet
<1>1. pending[c] \in Seq(Copy) /\ pending[c] # <<>> /\ chan[c] \in Seq(Copy \cup {Frame})
  BY DEF Replay, TypeOK
<1>2. /\ chan'[c] = Append(chan[c], Head(pending[c])) /\ pending'[c] = Tail(pending[c])
      /\ \A d \in Conn \ {c} : chan'[d] = chan[d] /\ pending'[d] = pending[d]
      /\ UNCHANGED <<received, queue, enqueued, discarded, taken, dpc, offline, targets, accepted,
                     registered, online, hpc>>
      /\ hpc[c] = "replay"
  BY DEF Replay, TypeOK, dispatch, history
<1> DEFINE h == Head(pending[c])
           t == Tail(pending[c])
<1>3. h \in Copy /\ Range(pending[c]) = {h} \cup Range(t)
  BY <1>1, RangeTail
<1>4. \A x, y : Precedes(pending[c], x, y) <=> Precedes(t, x, y) \/ (x = h /\ y \in Range(t))
  BY <1>1, PrecedesTail
<1>5. \A e \in Copy : /\ Range(Append(chan[c], e)) = Range(chan[c]) \cup {e}
                     /\ \A x, y : Precedes(Append(chan[c], e), x, y) <=>
                                    Precedes(chan[c], x, y) \/ (x \in Range(chan[c]) /\ y = e)
  BY <1>1, RangeAppend, PrecedesAppend
<1> HIDE DEF h, t
<1>6. /\ Range(chan'[c]) = Range(chan[c]) \cup {h} /\ pending'[c] = t
      /\ \A x, y : Precedes(chan'[c], x, y) <=>
                     Precedes(chan[c], x, y) \/ (x \in Range(chan[c]) /\ y = h)
  <2>1. chan'[c] = Append(chan[c], h) /\ pending'[c] = t
    BY <1>2 DEF h, t
  <2>2. PICK w : w = Append(chan[c], h)
    OBVIOUS
  <2>3. /\ Range(w) = Range(chan[c]) \cup {h}
        /\ \A x, y : Precedes(w, x, y) <=>
                       Precedes(chan[c], x, y) \/ (x \in Range(chan[c]) /\ y = h)
    BY <1>3, <1>5, <2>2, Zenon
  <2>4. chan'[c] = w
    BY <2>1, <2>2, Zenon
  <2> QED BY <2>1, <2>3, <2>4
<1>7. Reached(c)' = Reached(c)
  BY <1>2, <1>3, <1>6 DEF Reached
<1>8. \A x, y \in Copy : Follows(c, x, y)' => Follows(c, x, y)
  <2> SUFFICES ASSUME NEW x \in Copy, NEW y \in Copy, Follows(c, x, y)' PROVE Follows(c, x, y)
    OBVIOUS
  <2> QED BY <1>2, <1>3, <1>4, <1>6 DEF Follows
<1>9. \A d \in Conn \ {c} : /\ Reached(d)' = Reached(d)
                            /\ \A x, y \in Copy : Follows(d, x, y)' => Follows(d, x, y)
  BY <1>2 DEF Reached, Follows
<1> QED BY <1>2, <1>7, <1>8, <1>9 DEF Quiet

\* A forward moves the first copy of the channel behind all that was received.
LEMMA QuietForward ==
    ASSUME TypeOK, NEW c \in Conn, Forward(c)
    PROVE  Quiet
<1>1. chan[c] \in Seq(Copy \cup {Frame}) /\ chan[c] # <<>> /\ received[c] \in Seq(Copy)
  BY DEF Forward, TypeOK
<1>2. /\ chan'[c] = Tail(chan[c])
      /\ \/ received'[c] = received[c] /\ (c \notin online \/ Head(chan[c]) = Frame)
         \/ Head(chan[c]) # Frame /\ received'[c] = Append(received[c], Head(chan[c]))
      /\ \A d \in Conn \ {c} : chan'[d] = chan[d] /\ received'[d] = received[d]
      /\ UNCHANGED <<pending, queue, enqueued, discarded, taken, dpc, offline, targets, accepted,
                     registered, online, hpc>>
  BY DEF Forward, TypeOK, handler, dispatch, history
<1> DEFINE h == Head(chan[c])
           t == Tail(chan[c])
<1>3. h \in Copy \cup {Frame} /\ Range(chan[c]) = {h} \cup Range(t)
  BY <1>1, RangeTail
<1>4. \A x, y : Precedes(chan[c], x, y) <=> Precedes(t, x, y) \/ (x = h /\ y \in Range(t))
  BY <1>1, PrecedesTail
<1>5. \A e \in Copy : /\ Range(Append(received[c], e)) = Range(received[c]) \cup {e}
                     /\ \A x, y : Precedes(Append(received[c], e), x, y) <=>
                                    Precedes(received[c], x, y) \/ (x \in Range(received[c]) /\ y = e)
  BY <1>1, RangeAppend, PrecedesAppend
<1> HIDE DEF h, t
<1>6. /\ chan'[c] = t
      /\ \/ received'[c] = received[c] /\ (c \notin online \/ h = Frame)
         \/ /\ h \in Copy /\ h # Frame
            /\ Range(received'[c]) = Range(received[c]) \cup {h}
            /\ \A x, y : Precedes(received'[c], x, y) <=>
                           Precedes(received[c], x, y) \/ (x \in Range(received[c]) /\ y = h)
  <2>1. /\ chan'[c] = t
        /\ \/ received'[c] = received[c] /\ (c \notin online \/ h = Frame)
           \/ h # Frame /\ received'[c] = Append(received[c], h)
    BY <1>2 DEF h, t
  <2>2. CASE received'[c] = received[c] /\ (c \notin online \/ h = Frame)
    BY <2>1, <2>2
  <2>3. CASE h # Frame /\ received'[c] = Append(received[c], h)
    <3>1. h \in Copy
      BY <1>3, <2>3
    <3>2. PICK w : w = Append(received[c], h)
      OBVIOUS
    <3>3. /\ Range(w) = Range(received[c]) \cup {h}
          /\ \A x, y : Precedes(w, x, y) <=>
                         Precedes(received[c], x, y) \/ (x \in Range(received[c]) /\ y = h)
      BY <1>5, <3>1, <3>2, Zenon
    <3>4. received'[c] = w
      BY <2>3, <3>2, Zenon
    <3> QED BY <2>1, <2>3, <3>1, <3>3, <3>4
  <2> QED BY <2>1, <2>2, <2>3
<1>7. Reached(c)' \subseteq Reached(c) /\ (c \in online => Reached(c) \subseteq Reached(c)')
  BY <1>2, <1>3, <1>6 DEF Reached
<1>8. \A x, y \in Copy : Follows(c, x, y)' => Follows(c, x, y)
  <2> SUFFICES ASSUME NEW x \in Copy, NEW y \in Copy, Follows(c, x, y)' PROVE Follows(c, x, y)
    OBVIOUS
  <2> QED BY <1>2, <1>3, <1>4, <1>6 DEF Follows
<1>9. \A d \in Conn \ {c} : /\ Reached(d)' = Reached(d)
                            /\ \A x, y \in Copy : Follows(d, x, y)' => Follows(d, x, y)
  BY <1>2 DEF Reached, Follows
<1> QED BY <1>2, <1>7, <1>8, <1>9 DEF Quiet

\* A step of a connection that has not to do with the registry or the queue is quiet.
LEMMA QuietStep ==
    ASSUME TypeOK, NEW c \in Conn,
           \/ Replay(c) \/ Open(c) \/ StreamEnds(c) \/ TaskEnded(c) \/ Unregister(c) \/ Abandon(c)
           \/ Forward(c) \/ DropReceiver(c) \/ ClientGone(c) \/ Sweep(c)
           \/ Heartbeat(c) \/ Reply(c) \/ \E ch \in Channel : Subscribe(c, ch)
    PROVE  Quiet
<1> USE DEF handler, channel, dispatch, history
<1>1. CASE Open(c) \/ StreamEnds(c) \/ TaskEnded(c) \/ Unregister(c) \/ ClientGone(c) \/ Sweep(c)
  <2>1. /\ UNCHANGED <<queue, enqueued, discarded, taken, dpc, offline, targets, accepted>>
        /\ UNCHANGED <<chan, received, pending>>
        /\ registered' \subseteq registered /\ online' \subseteq online
    BY <1>1 DEF Open, StreamEnds, TaskEnded, Unregister, ClientGone, Sweep
  <2>2. \A d \in Conn : hpc'[d] = hpc[d] \/ (hpc[d] # "new" /\ hpc'[d] \notin {"new", "drain"})
    BY <1>1 DEF Open, StreamEnds, TaskEnded, Unregister, ClientGone, Sweep, TypeOK
  <2> QED BY <2>1, <2>2, Still DEF Quiet
<1>2. CASE Heartbeat(c) \/ Reply(c) \/ \E ch \in Channel : Subscribe(c, ch)
  <2>1. /\ SendFrame(c) /\ UNCHANGED <<received, pending>>
        /\ UNCHANGED <<queue, enqueued, discarded, taken, dpc, offline, targets, accepted,
                       registered, online, hpc>>
    BY <1>2 DEF Heartbeat, Reply, Subscribe
  <2> QED BY <2>1, FrameReaches, QuietFrame DEF Quiet
<1>3. CASE Abandon(c) \/ DropReceiver(c)
  <2>1. /\ chan'[c] = <<>> /\ (pending'[c] = <<>> \/ pending'[c] = pending[c])
        /\ \A d \in Conn \ {c} : chan'[d] = chan[d] /\ pending'[d] = pending[d]
        /\ UNCHANGED <<received, queue, enqueued, discarded, taken, dpc, offline, targets, accepted,
                       registered, online>>
        /\ c \notin online
    BY <1>3 DEF Abandon, DropReceiver, TypeOK
  <2>2. /\ hpc'[c] \notin {"new", "drain"} /\ hpc[c] # "new"
        /\ \A d \in Conn \ {c} : hpc'[d] = hpc[d]
    BY <1>3 DEF Abandon, DropReceiver, Spawned, TypeOK
  <2>3. Reached(c)' \subseteq Reached(c)
    BY <2>1, RangeEmpty DEF Reached
  <2>4. \A x, y \in Copy : Follows(c, x, y)' => Follows(c, x, y)
    BY <2>1, RangeEmpty, PrecedesEmpty DEF Follows
  <2>5. \A d \in Conn \ {c} : /\ Reached(d)' = Reached(d)
                              /\ \A x, y \in Copy : Follows(d, x, y)' => Follows(d, x, y)
    BY <2>1 DEF Reached, Follows
  <2> QED BY <2>1, <2>2, <2>3, <2>4, <2>5 DEF Quiet
<1> QED BY <1>1, <1>2, <1>3, QuietReplay, QuietForward

\* What follows or is followed has been reached.
LEMMA FollowsReached ==
    ASSUME NEW c \in Conn, NEW x \in Copy, NEW y \in Copy, Follows(c, x, y)
    PROVE  x \in Reached(c) /\ y \in Reached(c)
BY PrecedesRange DEF Follows, Reached

\* A send puts its copy behind what is in the channel, or leaves all as it is.
LEMMA SendEffect ==
    ASSUME TypeOK, NEW m \in Msg, NEW z \in Copy, NEW c \in Conn, Send(m, z, c)
    PROVE  /\ dpc[z[1]] = "send" /\ c \in targets[z]
           /\ targets'[z] = targets[z] \ {c}
           /\ \A x \in Copy \ {z} : targets'[x] = targets[x] /\ accepted'[x] = accepted[x]
           /\ UNCHANGED <<queue, enqueued, discarded, taken, dpc, offline, registered, online,
                          hpc, pending>>
           /\ \A d \in Conn \ {c} :
                 /\ Reached(d)' = Reached(d)
                 /\ \A x, y \in Copy : Follows(d, x, y)' => Follows(d, x, y)
           /\ \/ /\ accepted'[z] = accepted[z] /\ Reached(c)' = Reached(c)
                 /\ \A x, y \in Copy : Follows(c, x, y)' => Follows(c, x, y)
              \/ /\ accepted'[z] = accepted[z] \cup {c} /\ Reached(c)' = Reached(c) \cup {z}
                 /\ \A x, y \in Copy : Follows(c, x, y)' =>
                       \/ Follows(c, x, y)
                       \/ x \in Reached(c) /\ y = z
                       \/ x = z /\ y \in Reached(c)
<1>0. dpc[z[1]] = "send"
  BY CopyFacts DEF Send
<1>1. /\ c \in targets[z]
      /\ targets'[z] = targets[z] \ {c}
      /\ \A x \in Copy \ {z} : targets'[x] = targets[x] /\ accepted'[x] = accepted[x]
      /\ UNCHANGED <<queue, enqueued, discarded, taken, dpc, offline, registered, online, hpc,
                     pending, received>>
      /\ \/ UNCHANGED <<chan, accepted>>
         \/ /\ chan' = [chan EXCEPT ![c] = Append(@, z)]
            /\ accepted'[z] = accepted[z] \cup {c}
  BY DEF Send, TypeOK, handler, history
<1>2. CASE UNCHANGED <<chan, accepted>>
  BY <1>0, <1>1, <1>2, Still
<1>3. CASE chan' = [chan EXCEPT ![c] = Append(@, z)] /\ accepted'[z] = accepted[z] \cup {c}
  <2>1. chan[c] \in Seq(Copy \cup {Frame}) /\ chan'[c] = Append(chan[c], z)
    BY <1>3 DEF TypeOK
  <2>2. Range(chan'[c]) = Range(chan[c]) \cup {z}
    BY <2>1, RangeAppend
  <2>3. \A x, y : Precedes(chan'[c], x, y) => Precedes(chan[c], x, y) \/ (x \in Range(chan[c]) /\ y = z)
    <3> SUFFICES ASSUME NEW x, NEW y, Precedes(chan'[c], x, y)
                 PROVE  Precedes(chan[c], x, y) \/ (x \in Range(chan[c]) /\ y = z)
      OBVIOUS
    <3>1. z \in Copy \cup {Frame}
      OBVIOUS
    <3>2. Precedes(Append(chan[c], z), x, y) <=>
            Precedes(chan[c], x, y) \/ (x \in Range(chan[c]) /\ y = z)
      BY <2>1, <3>1, PrecedesAppend
    <3>3. Precedes(Append(chan[c], z), x, y)
      BY <2>1, Zenon
    <3> QED BY <3>2, <3>3, Zenon
  <2>4. \A d \in Conn \ {c} : chan'[d] = chan[d]
    BY <1>3 DEF TypeOK
  <2>5. Reached(c)' = Reached(c) \cup {z}
    BY <1>1, <2>2 DEF Reached
  <2>6. ASSUME NEW x \in Copy, NEW y \in Copy, Follows(c, x, y)'
        PROVE  \/ Follows(c, x, y)
               \/ x \in Reached(c) /\ y = z
               \/ x = z /\ y \in Reached(c)
    BY <1>1, <2>2, <2>3, <2>6 DEF Follows, Reached
  <2>7. \A d \in Conn \ {c} : /\ Reached(d)' = Reached(d)
                              /\ \A x, y \in Copy : Follows(d, x, y)' => Follows(d, x, y)
    BY <1>1, <2>4 DEF Reached, Follows
  <2> QED BY <1>0, <1>1, <1>3, <2>5, <2>6, <2>7
<1> QED BY <1>1, <1>2, <1>3

\* What SubSeq leaves out of a sequence is its beginning.
LEMMA RangeSplit ==
    ASSUME NEW S, NEW s \in Seq(S), NEW n \in 0..Len(s), NEW j \in 1..Len(s), j > n
    PROVE  s[j] \in Range(SubSeq(s, n + 1, Len(s)))
<1> DEFINE t == SubSeq(s, n + 1, Len(s))
<1>1. Len(s) \in Nat /\ \A i \in (n + 1)..Len(s) : s[i] \in S
  OBVIOUS
<1>2. /\ t \in Seq(S)
      /\ Len(t) = IF n + 1 <= Len(s) THEN Len(s) - (n + 1) + 1 ELSE 0
      /\ \A i \in 1..(Len(s) - (n + 1) + 1) : t[i] = s[(n + 1) + i - 1]
  BY <1>1, SubSeqProperties
<1> HIDE DEF t
<1>3. PICK i \in 1..(Len(s) - (n + 1) + 1) : (n + 1) + i - 1 = j
  <2>1. j - n \in 1..(Len(s) - (n + 1) + 1) /\ (n + 1) + (j - n) - 1 = j
    BY <1>1
  <2> QED BY <2>1
<1>4. t[i] = s[j] /\ i \in DOMAIN t
  BY <1>1, <1>2, <1>3
<1> QED BY <1>4 DEF Range, t

\* A drain moves the queue, but for what expired, behind all that is with the connection.
LEMMA DrainEffect ==
    ASSUME TypeOK, Placed, NEW c \in Conn, Drain(c)
    PROVE  /\ hpc[c] = "drain" /\ hpc'[c] = "replay" /\ \A d \in Conn \ {c} : hpc'[d] = hpc[d]
           /\ UNCHANGED <<registered, online, dpc, offline, targets, accepted, enqueued>>
           /\ \A d \in Conn \ {c} :
                 /\ Reached(d)' = Reached(d) /\ pending'[d] = pending[d] /\ taken'[d] = taken[d]
                 /\ \A x, y \in Copy : Follows(d, x, y)' => Follows(d, x, y)
           /\ queue'[KeyFor(c)] = <<>>
           /\ \A j \in QueueKey \ {KeyFor(c)} : queue'[j] = queue[j]
           /\ Reached(c) \subseteq Reached(c)'
           /\ Reached(c)' \subseteq Reached(c) \cup Range(queue[KeyFor(c)])
           /\ discarded \subseteq discarded'
           /\ \A x \in Range(queue[KeyFor(c)]) :
                 (x \in taken'[c] /\ x \in Reached(c)') \/ x \in discarded'
           /\ \A x, y \in Copy : Follows(c, x, y)' =>
                 \/ Follows(c, x, y)
                 \/ Precedes(queue[KeyFor(c)], x, y)
                 \/ x \in Reached(c) /\ y \in Range(queue[KeyFor(c)])
<1> DEFINE k == KeyFor(c)
<1>1. k \in QueueKey /\ queue[k] \in Seq(Copy)
  BY KeyTypes DEF TypeOK
<1>2. PICK n \in 0..Len(queue[k]) :
        /\ pending' = [pending EXCEPT ![c] = SubSeq(queue[k], n + 1, Len(queue[k]))]
        /\ discarded' = discarded \cup {queue[k][i] : i \in 1..n}
        /\ taken' = [taken EXCEPT ![c] = {queue[k][i] : i \in n + 1..Len(queue[k])}]
  BY DEF Drain
<1>3. /\ pending'[c] = SubSeq(queue[k], n + 1, Len(queue[k]))
      /\ taken'[c] = {queue[k][i] : i \in n + 1..Len(queue[k])}
      /\ \A d \in Conn \ {c} : pending'[d] = pending[d] /\ taken'[d] = taken[d]
  BY <1>2 DEF TypeOK
<1>4. /\ hpc[c] = "drain" /\ hpc'[c] = "replay" /\ \A d \in Conn \ {c} : hpc'[d] = hpc[d]
      /\ UNCHANGED <<registered, online, dpc, offline, targets, accepted, enqueued, chan, received>>
      /\ queue'[k] = <<>> /\ \A j \in QueueKey \ {k} : queue'[j] = queue[j]
  BY <1>1 DEF Drain, TypeOK, channel, dispatch
<1>5. pending[c] = <<>> /\ Range(pending[c]) = {}
  BY <1>4, RangeEmpty DEF Placed
<1> DEFINE p == SubSeq(queue[k], n + 1, Len(queue[k]))
<1>6. /\ Range(p) \subseteq Range(queue[k])
      /\ \A x, y : Precedes(p, x, y) => Precedes(queue[k], x, y)
      /\ \A x \in Range(queue[k]) : (x \in Range(p) /\ x \in taken'[c]) \/ x \in discarded'
  <2>1. Range(p) \subseteq Range(queue[k])
    BY <1>1, RangeSubSeq
  <2>2. \A x, y : Precedes(p, x, y) => Precedes(queue[k], x, y)
    BY <1>1, PrecedesSubSeq
  <2>3. ASSUME NEW x \in Range(queue[k])
        PROVE  (x \in Range(p) /\ x \in taken'[c]) \/ x \in discarded'
    <3>1. PICK j \in 1..Len(queue[k]) : queue[k][j] = x
      BY <1>1 DEF Range
    <3>2. CASE j <= n
      <4>1. j \in 1..n
        BY <1>1, <3>1, <3>2
      <4>2. x \in {queue[k][i] : i \in 1..n}
        BY <3>1, <4>1
      <4> QED BY <1>2, <4>2
    <3>3. CASE j > n
      <4>1. j \in n + 1..Len(queue[k])
        BY <1>1, <3>1, <3>3
      <4>2. x \in taken'[c]
        BY <1>3, <3>1, <4>1
      <4>3. queue[k][j] \in Range(p)
        BY <1>1, <3>1, <3>3, RangeSplit
      <4> QED BY <3>1, <4>2, <4>3
    <3> QED BY <1>1, <3>1, <3>2, <3>3
  <2> QED BY <2>1, <2>2, <2>3
<1>7. pending'[c] = p /\ Range(queue[k]) \subseteq Copy
  BY <1>1, <1>3 DEF Range
<1> HIDE DEF k, p
<1>8. Reached(c)' = Reached(c) \cup Range(p)
  BY <1>4, <1>5, <1>7 DEF Reached
<1>9. \A x \in Range(queue[k]) : (x \in taken'[c] /\ x \in Reached(c)') \/ x \in discarded'
  BY <1>6, <1>8
<1>10. ASSUME NEW x \in Copy, NEW y \in Copy, Follows(c, x, y)'
       PROVE  \/ Follows(c, x, y) \/ Precedes(queue[k], x, y)
              \/ x \in Reached(c) /\ y \in Range(queue[k])
  BY <1>4, <1>6, <1>7, <1>10 DEF Follows, Reached
<1>11. \A d \in Conn \ {c} : /\ Reached(d)' = Reached(d)
                             /\ \A x, y \in Copy : Follows(d, x, y)' => Follows(d, x, y)
  BY <1>3, <1>4 DEF Reached, Follows
<1>12. discarded \subseteq discarded' /\ Reached(c) \subseteq Reached(c)'
       /\ Reached(c)' \subseteq Reached(c) \cup Range(queue[k])
  BY <1>2, <1>6, <1>8
<1> QED BY <1>3, <1>4, <1>9, <1>10, <1>11, <1>12 DEF k

\* An enqueue puts its copy behind the queue, which may lose its oldest one.
LEMMA EnqueueEffect ==
    ASSUME TypeOK, Once, NEW m \in Msg, NEW z \in Copy, Enqueue(m, z)
    PROVE  /\ KeyOf(z) \in QueueKey /\ z \in offline /\ offline' = offline \ {z}
           /\ \A i \in QueueKey : z \notin Range(enqueued[i])
           /\ \A n \in Msg : dpc'[n] = "new" => dpc[n] = "new"
           /\ UNCHANGED <<targets, accepted, registered, online, hpc, pending, chan, received, taken>>
           /\ \A j \in QueueKey \ {KeyOf(z)} : queue'[j] = queue[j] /\ enqueued'[j] = enqueued[j]
           /\ Range(enqueued'[KeyOf(z)]) = Range(enqueued[KeyOf(z)]) \cup {z}
           /\ \A x, y : Precedes(enqueued'[KeyOf(z)], x, y) <=>
                 \/ Precedes(enqueued[KeyOf(z)], x, y)
                 \/ x \in Range(enqueued[KeyOf(z)]) /\ y = z
           /\ z \in Range(queue'[KeyOf(z)])
           /\ Range(queue'[KeyOf(z)]) \subseteq Range(queue[KeyOf(z)]) \cup {z}
           /\ discarded \subseteq discarded'
           /\ \A x \in Range(queue[KeyOf(z)]) : x \in Range(queue'[KeyOf(z)]) \/ x \in discarded'
           /\ \A x, y : Precedes(queue'[KeyOf(z)], x, y) =>
                 \/ Precedes(queue[KeyOf(z)], x, y)
                 \/ x \in Range(queue[KeyOf(z)]) /\ y = z
<1> DEFINE k == KeyOf(z)
           q == queue[k]
           e == enqueued[k]
<1>1. k \in QueueKey /\ q \in Seq(Copy) /\ e \in Seq(Copy) /\ (Len(q) >= MaxQueue => q # <<>>)
  BY KeyTypes DEF TypeOK, Enqueue
<1>2. z \in offline /\ \A i \in QueueKey : z \notin Range(enqueued[i])
  BY DEF Enqueue, Once
<1>3. /\ queue' = [queue EXCEPT ![k] = Append(IF Len(q) >= MaxQueue THEN Tail(q) ELSE q, z)]
      /\ discarded' = IF Len(q) >= MaxQueue THEN discarded \cup {Head(q)} ELSE discarded
      /\ enqueued' = [enqueued EXCEPT ![k] = Append(e, z)]
  BY <1>1 DEF Enqueue, TypeOK
<1>4. /\ offline' = offline \ {z}
      /\ \A n \in Msg : dpc'[n] = "new" => dpc[n] = "new"
      /\ UNCHANGED <<targets, accepted, registered, online, hpc, pending, chan, received, taken>>
  BY DEF Enqueue, TypeOK, handler, channel
<1> HIDE DEF k, q, e
<1>5. ASSUME NEW s \in Seq(Copy), NEW w, w = Append(s, z)
      PROVE  /\ Range(w) = Range(s) \cup {z}
             /\ \A x, y : Precedes(w, x, y) <=> Precedes(s, x, y) \/ (x \in Range(s) /\ y = z)
  BY <1>5, RangeAppend, PrecedesAppend
<1>6. /\ \A j \in QueueKey \ {k} : queue'[j] = queue[j] /\ enqueued'[j] = enqueued[j]
      /\ enqueued'[k] = Append(e, z)
      /\ queue'[k] = Append(IF Len(q) >= MaxQueue THEN Tail(q) ELSE q, z)
  BY <1>1, <1>3 DEF TypeOK
<1>7. /\ Range(enqueued'[k]) = Range(e) \cup {z}
      /\ \A x, y : Precedes(enqueued'[k], x, y) <=> Precedes(e, x, y) \/ (x \in Range(e) /\ y = z)
  BY <1>1, <1>5, <1>6
<1>8. /\ z \in Range(queue'[k]) /\ Range(queue'[k]) \subseteq Range(q) \cup {z}
      /\ discarded \subseteq discarded'
      /\ \A x \in Range(q) : x \in Range(queue'[k]) \/ x \in discarded'
      /\ \A x, y : Precedes(queue'[k], x, y) => Precedes(q, x, y) \/ (x \in Range(q) /\ y = z)
  <2>1. CASE Len(q) >= MaxQueue
    <3>1. Tail(q) \in Seq(Copy) /\ Range(q) = {Head(q)} \cup Range(Tail(q))
      BY <1>1, <2>1, RangeTail
    <3>2. \A x, y : Precedes(q, x, y) <=>
                      Precedes(Tail(q), x, y) \/ (x = Head(q) /\ y \in Range(Tail(q)))
      BY <1>1, <2>1, PrecedesTail
    <3>3. PICK t \in Seq(Copy) : t = Tail(q)
      BY <3>1
    <3>4. queue'[k] = Append(t, z)
      BY <1>6, <2>1, <3>3
    <3>5. /\ Range(queue'[k]) = Range(t) \cup {z}
          /\ \A x, y : Precedes(queue'[k], x, y) <=> Precedes(t, x, y) \/ (x \in Range(t) /\ y = z)
      BY <1>5, <3>4
    <3>6. PICK h : h = Head(q)
      OBVIOUS
    <3>7. Range(q) = {h} \cup Range(t) /\ \A x, y : Precedes(t, x, y) => Precedes(q, x, y)
      BY <3>1, <3>2, <3>3, <3>6
    <3>8. discarded' = discarded \cup {h}
      BY <1>3, <2>1, <3>6
    <3> QED BY <3>5, <3>7, <3>8
  <2>2. CASE ~ Len(q) >= MaxQueue
    <3>1. queue'[k] = Append(q, z) /\ discarded' = discarded
      BY <1>3, <1>6, <2>2
    <3>2. /\ Range(queue'[k]) = Range(q) \cup {z}
          /\ \A x, y : Precedes(queue'[k], x, y) <=> Precedes(q, x, y) \/ (x \in Range(q) /\ y = z)
      BY <1>1, <1>5, <3>1
    <3> QED BY <3>1, <3>2
  <2> QED BY <2>1, <2>2
<1> QED BY <1>1, <1>2, <1>4, <1>6, <1>7, <1>8 DEF k, q, e

\* A lookup, by the dispatcher or of a routed message, finds registered connections, and
\* none for a copy whose user it found offline.
LEMMA FindEffect ==
    ASSUME TypeOK, NEW m \in Msg, Lookup(m) \/ (\E z \in Copy : Route(m, z))
    PROVE  /\ dpc[m] = "new" /\ dpc'[m] # "new" /\ \A n \in Msg \ {m} : dpc'[n] = dpc[n]
           /\ UNCHANGED <<queue, enqueued, discarded, taken, accepted, registered, online, hpc,
                          pending, chan, received>>
           /\ \A x \in Copy : x \in offline' => x \in offline \/ (x[1] = m /\ targets'[x] = {})
           /\ \A x \in Copy : targets'[x] = targets[x] \/ (x[1] = m /\ targets'[x] \subseteq registered)
<1> USE DEF handler, channel, history
<1>1. CASE Lookup(m)
  <2>1. \A x \in Copy : targets'[x] = targets[x] \/ (x[1] = m /\ targets'[x] = Recipients(x))
    BY <1>1, LookupEffect
  <2>2. \A x \in Copy : targets'[x] = targets[x] \/ (x[1] = m /\ targets'[x] \subseteq registered)
    BY <2>1, RecipientsFound
  <2> QED BY <1>1, <2>2, LookupEffect
<1>2. ASSUME NEW z \in Copy, Route(m, z)
      PROVE  /\ dpc[m] = "new" /\ dpc'[m] # "new" /\ \A n \in Msg \ {m} : dpc'[n] = dpc[n]
             /\ UNCHANGED <<queue, enqueued, discarded, taken, accepted, registered, online, hpc,
                            pending, chan, received, offline>>
             /\ \A x \in Copy : targets'[x] = targets[x] \/ (x[1] = m /\ targets'[x] \subseteq registered)
  <2>1. z[1] = m /\ Recipients(z) \subseteq registered
    BY <1>2, CopyFacts, RecipientsFound DEF Route
  <2>2. targets' = [targets EXCEPT ![z] = Recipients(z)]
    BY <1>2 DEF Route
  <2>3. \A x \in Copy : targets'[x] = targets[x] \/ (x = z /\ targets'[x] = Recipients(z))
    BY <2>2 DEF TypeOK
  <2>4. \A x \in Copy : targets'[x] = targets[x] \/ (x[1] = m /\ targets'[x] \subseteq registered)
    BY <2>1, <2>3
  <2> QED BY <1>2, <2>4 DEF Route, TypeOK
<1> QED BY <1>1, <1>2

\* Nothing that was queued is sent.
LEMMA NotBoth ==
    ASSUME TypeOK, Placed, NEW k \in QueueKey, NEW x \in Range(enqueued[k])
    PROVE  x \in Copy /\ targets[x] = {} /\ accepted[x] = {}
<1>1. x \in Copy
  BY DEF TypeOK, Range
<1> QED BY <1>1 DEF Placed

\* Every step leaves each copy where its dispatch and the handlers may have put it.
LEMMA PlacedStep ==
    ASSUME TypeOK, Once, Placed, [Next]_vars
    PROVE  Placed'
<1> USE DEF Placed
<1>0. \A x \in Copy : targets[x] \subseteq Conn /\ x[1] \in Msg
  BY CopyFacts DEF TypeOK
<1>1. CASE Quiet
  <2>1. /\ UNCHANGED <<enqueued, taken, dpc, offline, targets, accepted>>
        /\ registered' \subseteq registered
        /\ \A d \in Conn : Reached(d)' \subseteq Reached(d)
        /\ \A d \in Conn : hpc'[d] \in {"new", "drain"} =>
              hpc'[d] = hpc[d] /\ pending'[d] = pending[d]
    BY <1>1 DEF Quiet
  <2>2. \A d \in Conn : hpc'[d] = "new" =>
          d \notin registered' /\ \A x \in Copy : d \notin targets'[x] \cup accepted'[x]
    BY <2>1
  <2>3. \A d \in Conn : hpc'[d] \in {"new", "drain"} =>
          pending'[d] = <<>> /\ taken'[d] = {} /\ \A x \in Reached(d)' : d \in accepted'[x]
    BY <2>1
  <2>4. \A x \in Copy : dpc'[x[1]] = "new" =>
          /\ x \notin offline' /\ targets'[x] = {} /\ accepted'[x] = {}
          /\ \A d \in Conn : x \notin Reached(d)'
    BY <2>1
  <2>5. \A x \in Copy : \A d \in targets'[x] : x \notin Reached(d)'
    BY <1>0, <2>1
  <2> QED BY <2>1, <2>2, <2>3, <2>4, <2>5
<1>2. ASSUME NEW c \in Conn, Connect(c) PROVE Placed'
  <2>1. /\ UNCHANGED <<chan, received, pending, queue, enqueued, taken, dpc, offline, targets, accepted>>
        /\ hpc[c] = "new" /\ hpc'[c] = "drain" /\ \A d \in Conn \ {c} : hpc'[d] = hpc[d]
        /\ registered' = registered \cup {c}
    BY <1>2 DEF Connect, TypeOK, dispatch, history
  <2>2. \A d \in Conn : Reached(d)' = Reached(d)
    BY <2>1, Still
  <2>3. \A d \in Conn : hpc'[d] = "new" =>
          d \notin registered' /\ \A x \in Copy : d \notin targets'[x] \cup accepted'[x]
    BY <2>1
  <2>4. \A d \in Conn : hpc'[d] \in {"new", "drain"} =>
          pending'[d] = <<>> /\ taken'[d] = {} /\ \A x \in Reached(d)' : d \in accepted'[x]
    BY <2>1, <2>2
  <2>5. \A x \in Copy : \A d \in targets'[x] : x \notin Reached(d)'
    BY <1>0, <2>1, <2>2
  <2>6. \A x \in Copy : dpc'[x[1]] = "new" =>
          /\ x \notin offline' /\ targets'[x] = {} /\ accepted'[x] = {}
          /\ \A d \in Conn : x \notin Reached(d)'
    BY <2>1, <2>2
  <2> QED BY <2>1, <2>3, <2>4, <2>5, <2>6
<1>3. ASSUME NEW c \in Conn, Drain(c) PROVE Placed'
  <2> DEFINE q == Range(queue[KeyFor(c)])
  <2>1. /\ hpc[c] = "drain" /\ hpc'[c] = "replay" /\ \A d \in Conn \ {c} : hpc'[d] = hpc[d]
        /\ UNCHANGED <<registered, online, dpc, offline, targets, accepted, enqueued>>
        /\ \A d \in Conn \ {c} :
              Reached(d)' = Reached(d) /\ pending'[d] = pending[d] /\ taken'[d] = taken[d]
        /\ Reached(c)' \subseteq Reached(c) \cup q
    BY <1>3, DrainEffect
  <2>2. q \subseteq Range(enqueued[KeyFor(c)]) /\ KeyFor(c) \in QueueKey
    BY KeyTypes DEF Once
  <2>3. \A x \in q : x \in Copy /\ c \notin targets[x] /\ dpc[x[1]] # "new"
    BY <2>2, NotBoth DEF Once
  <2> HIDE DEF q
  <2>4. \A d \in Conn : hpc'[d] \in {"new", "drain"} =>
          pending'[d] = <<>> /\ taken'[d] = {} /\ \A x \in Reached(d)' : d \in accepted'[x]
    BY <2>1
  <2>5. \A x \in Copy : dpc'[x[1]] = "new" => \A d \in Conn : x \notin Reached(d)'
    BY <2>1, <2>3
  <2>6. \A x \in Copy : \A d \in targets'[x] : x \notin Reached(d)'
    BY <1>0, <2>1, <2>3
  <2> QED BY <2>1, <2>4, <2>5, <2>6
<1>4. ASSUME NEW m \in Msg, Lookup(m) \/ (\E z \in Copy : Route(m, z)) PROVE Placed'
  <2>1. /\ dpc[m] = "new" /\ dpc'[m] # "new" /\ \A n \in Msg \ {m} : dpc'[n] = dpc[n]
        /\ UNCHANGED <<enqueued, taken, accepted, registered, hpc, pending, chan, received>>
        /\ \A x \in Copy : x \in offline' => x \in offline \/ (x[1] = m /\ targets'[x] = {})
        /\ \A x \in Copy : targets'[x] = targets[x] \/ (x[1] = m /\ targets'[x] \subseteq registered)
    BY <1>4, FindEffect
  <2>2. \A x \in Copy : x[1] = m =>
          /\ x \notin offline /\ targets[x] = {} /\ accepted[x] = {}
          /\ \A c \in Conn : x \notin Reached(c)
          /\ \A k \in QueueKey : x \notin Range(enqueued[k])
    BY <2>1 DEF Once
  <2>3. \A c \in Conn : Reached(c)' = Reached(c)
    BY <2>1, Still
  <2>4. \A x \in Copy : \A c \in targets'[x] : c \in Conn
    BY <1>0, <2>1 DEF TypeOK
  <2>5. \A x \in Copy : \A c \in targets'[x] : x \notin Reached(c)'
    BY <2>1, <2>2, <2>3, <2>4
  <2>6. \A x \in Copy : x \in offline' \/ (\E k \in QueueKey : x \in Range(enqueued'[k])) =>
          targets'[x] = {} /\ accepted'[x] = {}
    BY <2>1, <2>2
  <2>7. \A c \in Conn : hpc'[c] = "new" =>
          c \notin registered' /\ \A x \in Copy : c \notin targets'[x] \cup accepted'[x]
    BY <2>1
  <2>8. \A x \in Copy : dpc'[x[1]] = "new" =>
          /\ x \notin offline' /\ targets'[x] = {} /\ accepted'[x] = {}
          /\ \A c \in Conn : x \notin Reached(c)'
    BY <1>0, <2>1, <2>3
  <2>9. \A c \in Conn : hpc'[c] \in {"new", "drain"} =>
          pending'[c] = <<>> /\ taken'[c] = {} /\ \A x \in Reached(c)' : c \in accepted'[x]
    BY <2>1, <2>3
  <2> QED BY <2>5, <2>6, <2>7, <2>8, <2>9
<1>5. ASSUME NEW m \in Msg, NEW z \in Copy, Enqueue(m, z) PROVE Placed'
  <2> HIDE DEF Placed
  <2>1. PICK k \in QueueKey : k = KeyOf(z)
    BY <1>5, EnqueueEffect
  <2>2. z \in offline /\ offline' = offline \ {z}
    BY <1>5, EnqueueEffect
  <2>3. \A n \in Msg : dpc'[n] = "new" => dpc[n] = "new"
    BY <1>5, EnqueueEffect
  <2>4. UNCHANGED <<targets, accepted, registered, online, hpc, pending, chan, received, taken>>
    BY <1>5, EnqueueEffect
  <2>5. \A j \in QueueKey \ {k} : enqueued'[j] = enqueued[j]
    BY <1>5, <2>1, EnqueueEffect
  <2>6. Range(enqueued'[k]) = Range(enqueued[k]) \cup {z}
    BY <1>5, <2>1, EnqueueEffect
  <2> USE DEF Placed
  <2>7. \A c \in Conn : Reached(c)' = Reached(c)
    BY <2>4, Still
  <2>8. \A x \in Copy : x \in offline' \/ (\E j \in QueueKey : x \in Range(enqueued'[j])) =>
          x \in offline \/ (\E j \in QueueKey : x \in Range(enqueued[j]))
    BY <2>2, <2>5, <2>6
  <2>9. \A x \in Copy : x \in offline' \/ (\E j \in QueueKey : x \in Range(enqueued'[j])) =>
          targets'[x] = {} /\ accepted'[x] = {}
    BY <2>4, <2>8
  <2>10. \A x \in Copy : dpc'[x[1]] = "new" =>
          /\ x \notin offline' /\ targets'[x] = {} /\ accepted'[x] = {}
          /\ \A c \in Conn : x \notin Reached(c)'
    BY <1>0, <2>2, <2>3, <2>4, <2>7
  <2>11. \A x \in Copy : \A c \in targets'[x] : x \notin Reached(c)'
    BY <1>0, <2>4, <2>7
  <2>12. \A d \in Conn : hpc'[d] \in {"new", "drain"} =>
          pending'[d] = <<>> /\ taken'[d] = {} /\ \A x \in Reached(d)' : d \in accepted'[x]
    BY <2>4, <2>7
  <2>13. \A d \in Conn : hpc'[d] = "new" =>
          d \notin registered' /\ \A x \in Copy : d \notin targets'[x] \cup accepted'[x]
    BY <2>4
  <2> QED BY <2>9, <2>10, <2>11, <2>12, <2>13
<1>6. ASSUME NEW m \in Msg, NEW z \in Copy, NEW c \in Conn, Send(m, z, c) PROVE Placed'
  <2>1. /\ dpc[z[1]] = "send" /\ c \in targets[z] /\ targets'[z] = targets[z] \ {c}
        /\ \A x \in Copy \ {z} : targets'[x] = targets[x] /\ accepted'[x] = accepted[x]
        /\ UNCHANGED <<queue, enqueued, taken, dpc, offline, registered, hpc, pending>>
        /\ \A d \in Conn \ {c} : Reached(d)' = Reached(d)
        /\ \/ accepted'[z] = accepted[z] /\ Reached(c)' = Reached(c)
           \/ accepted'[z] = accepted[z] \cup {c} /\ Reached(c)' = Reached(c) \cup {z}
    BY <1>6, SendEffect
  <2>2. \A d \in Conn : Reached(d) \subseteq Copy
    BY ReachedType
  <2>3. \A d \in Conn : hpc'[d] = "new" =>
          d \notin registered' /\ \A x \in Copy : d \notin targets'[x] \cup accepted'[x]
    BY <2>1
  <2>4. \A d \in Conn : hpc'[d] \in {"new", "drain"} =>
          pending'[d] = <<>> /\ taken'[d] = {} /\ \A x \in Reached(d)' : d \in accepted'[x]
    <3>1. \A x \in Copy : accepted[x] \subseteq accepted'[x]
      BY <2>1
    <3>2. \A d \in Conn : \A x \in Reached(d)' :
             x \in Reached(d) \/ (d = c /\ x = z /\ d \in accepted'[z])
      BY <2>1
    <3> QED BY <2>1, <2>2, <3>1, <3>2
  <2>5. \A x \in Copy : \A d \in targets'[x] : x \notin Reached(d)'
    BY <1>0, <2>1, <2>2
  <2>6. \A x \in Copy : x \in offline' \/ (\E k \in QueueKey : x \in Range(enqueued'[k])) =>
          targets'[x] = {} /\ accepted'[x] = {}
    BY <2>1
  <2>7. \A x \in Copy : dpc'[x[1]] = "new" =>
          /\ x \notin offline' /\ targets'[x] = {} /\ accepted'[x] = {}
          /\ \A d \in Conn : x \notin Reached(d)'
    BY <2>1
  <2> QED BY <2>3, <2>4, <2>5, <2>6, <2>7
<1>7. ASSUME NEW m \in Msg, Finish(m) PROVE Placed'
  <2>1. /\ UNCHANGED <<chan, received, pending, enqueued, taken, offline, targets, accepted,
                       registered, hpc>>
        /\ \A n \in Msg : dpc'[n] = "new" => dpc[n] = "new"
    BY <1>7 DEF Finish, TypeOK, handler, channel, history
  <2>2. \A c \in Conn : Reached(c)' = Reached(c)
    BY <2>1, Still
  <2>3. \A x \in Copy : \A c \in targets'[x] : x \notin Reached(c)'
    BY <1>0, <2>1, <2>2
  <2>4. \A d \in Conn : hpc'[d] \in {"new", "drain"} =>
          pending'[d] = <<>> /\ taken'[d] = {} /\ \A x \in Reached(d)' : d \in accepted'[x]
    BY <2>1, <2>2
  <2>5. \A x \in Copy : dpc'[x[1]] = "new" =>
          /\ x \notin offline' /\ targets'[x] = {} /\ accepted'[x] = {}
          /\ \A d \in Conn : x \notin Reached(d)'
    BY <1>0, <2>1, <2>2
  <2>6. \A d \in Conn : hpc'[d] = "new" =>
          d \notin registered' /\ \A x \in Copy : d \notin targets'[x] \cup accepted'[x]
    BY <2>1
  <2>7. \A x \in Copy : x \in offline' \/ (\E k \in QueueKey : x \in Range(enqueued'[k])) =>
          targets'[x] = {} /\ accepted'[x] = {}
    BY <2>1
  <2> QED BY <2>3, <2>4, <2>5, <2>6, <2>7
<1>8. CASE UNCHANGED vars
  <2> HIDE DEF Placed
  <2>1. Quiet
    BY <1>8, Still DEF Quiet, vars
  <2> QED BY <1>1, <2>1
<1>9. ASSUME NEW c \in Conn,
             \/ Replay(c) \/ Open(c) \/ StreamEnds(c) \/ TaskEnded(c) \/ Unregister(c) \/ Abandon(c)
             \/ Forward(c) \/ DropReceiver(c) \/ ClientGone(c) \/ Sweep(c)
             \/ Heartbeat(c) \/ Reply(c) \/ \E ch \in Channel : Subscribe(c, ch)
      PROVE  Placed'
  BY <1>1, <1>9, QuietStep
<1> QED BY <1>2, <1>3, <1>4, <1>5, <1>6, <1>7, <1>8, <1>9 DEF Next, Dispatch, Handle

\* A step is a lookup, an enqueue, a send or the end of a dispatch, a connect or a drain, or
\* it is quiet.
LEMMA StepCases ==
    ASSUME TypeOK, [Next]_vars
    PROVE  \/ Quiet
           \/ \E c \in Conn : Connect(c) \/ Drain(c)
           \/ \E m \in Msg : \/ Lookup(m) \/ (\E z \in Copy : Route(m, z)) \/ Finish(m)
                             \/ (\E z \in Copy : Enqueue(m, z))
                             \/ (\E z \in Copy, c \in Conn : Send(m, z, c))
<1>1. CASE UNCHANGED vars
  BY <1>1, Still DEF Quiet, vars
<1>2. CASE \E m \in Msg : Dispatch(m)
  BY <1>2 DEF Dispatch
<1>3. ASSUME NEW c \in Conn,
             \/ Replay(c) \/ Open(c) \/ StreamEnds(c) \/ TaskEnded(c) \/ Unregister(c) \/ Abandon(c)
             \/ Forward(c) \/ DropReceiver(c) \/ ClientGone(c) \/ Sweep(c)
             \/ Heartbeat(c) \/ Reply(c) \/ \E ch \in Channel : Subscribe(c, ch)
      PROVE  Quiet
  BY <1>3, QuietStep
<1> QED BY <1>1, <1>2, <1>3 DEF Next, Handle

\* What the steps that only concern a dispatch or a registration leave alone.
LEMMA PassiveStep ==
    ASSUME TypeOK,
           \/ \E c \in Conn : Connect(c)
           \/ \E m \in Msg : Lookup(m) \/ (\E z \in Copy : Route(m, z)) \/ Finish(m)
    PROVE  UNCHANGED <<chan, received, pending, queue, enqueued, discarded, taken, accepted>>
BY DEF Connect, Lookup, Route, Finish, handler, channel, dispatch, history

\* Only a drain hands out queued copies: no other step makes a copy a replayed one.
LEMMA ReplayedBefore ==
    ASSUME TypeOK, Once, [Next]_vars, NEW c \in Conn, NEW x \in Copy,
           Replayed(c, x)', ~ Drain(c)
    PROVE  Replayed(c, x)
<1>1. CASE Quiet
  BY <1>1 DEF Quiet, Replayed
<1>2. CASE \/ \E d \in Conn : Connect(d)
           \/ \E n \in Msg : Lookup(n) \/ (\E z \in Copy : Route(n, z)) \/ Finish(n)
  <2>1. UNCHANGED <<chan, received, pending, accepted>>
    BY <1>2, PassiveStep
  <2> QED BY <2>1, Still DEF Replayed
<1>3. ASSUME NEW d \in Conn, Drain(d) PROVE Replayed(c, x)
  <2>1. c # d
    BY <1>3
  <2>2. accepted' = accepted /\ chan' = chan /\ received' = received /\ pending'[c] = pending[c]
    BY <1>3, <2>1 DEF Drain, TypeOK, channel, dispatch
  <2> QED BY <2>2 DEF Replayed, Reached
<1>4. ASSUME NEW n \in Msg, NEW z \in Copy, Enqueue(n, z) PROVE Replayed(c, x)
  <2>1. UNCHANGED <<accepted, pending, chan, received>>
    BY <1>4, EnqueueEffect
  <2> QED BY <2>1, Still DEF Replayed
<1>5. ASSUME NEW n \in Msg, NEW z \in Copy, NEW d \in Conn, Send(n, z, d) PROVE Replayed(c, x)
  <2>1. /\ \A y \in Copy \ {z} : accepted'[y] = accepted[y]
        /\ \A e \in Conn \ {d} : Reached(e)' = Reached(e)
        /\ \/ accepted'[z] = accepted[z] /\ Reached(d)' = Reached(d)
           \/ accepted'[z] = accepted[z] \cup {d} /\ Reached(d)' = Reached(d) \cup {z}
    BY <1>5, SendEffect
  <2> QED BY <2>1 DEF Replayed
<1> QED BY <1>1, <1>2, <1>3, <1>4, <1>5, StepCases

\* A copy that has left a queue stays out of it.
LEMMA LeftStays ==
    ASSUME TypeOK, Once, [Next]_vars, NEW k \in QueueKey
    PROVE  Range(enqueued[k]) \ Range(queue[k]) \subseteq Range(enqueued'[k]) \ Range(queue'[k])
<1>1. CASE Quiet
  BY <1>1 DEF Quiet
<1>2. CASE \/ \E d \in Conn : Connect(d)
           \/ \E n \in Msg : Lookup(n) \/ (\E z \in Copy : Route(n, z)) \/ Finish(n)
  BY <1>2, PassiveStep
<1>3. ASSUME NEW d \in Conn, Drain(d)
      PROVE  Range(enqueued[k]) \ Range(queue[k]) \subseteq Range(enqueued'[k]) \ Range(queue'[k])
  <2>1. enqueued' = enqueued /\ (queue'[k] = queue[k] \/ queue'[k] = <<>>)
    BY <1>3 DEF Drain, TypeOK
  <2> QED BY <2>1, RangeEmpty
<1>4. ASSUME NEW n \in Msg, NEW z \in Copy, Enqueue(n, z)
      PROVE  Range(enqueued[k]) \ Range(queue[k]) \subseteq Range(enqueued'[k]) \ Range(queue'[k])
  <2>1. PICK j \in QueueKey : j = KeyOf(z)
    BY <1>4, EnqueueEffect
  <2>2. z \notin Range(enqueued[j])
    BY <1>4, <2>1, EnqueueEffect
  <2>3. Range(enqueued'[j]) = Range(enqueued[j]) \cup {z}
    BY <1>4, <2>1, EnqueueEffect
  <2>4. Range(queue'[j]) \subseteq Range(queue[j]) \cup {z}
    BY <1>4, <2>1, EnqueueEffect
  <2>5. \A i \in QueueKey \ {j} : queue'[i] = queue[i] /\ enqueued'[i] = enqueued[i]
    BY <1>4, <2>1, EnqueueEffect
  <2> QED BY <2>2, <2>3, <2>4, <2>5
<1>5. CASE \E n \in Msg, z \in Copy, d \in Conn : Send(n, z, d)
  BY <1>5 DEF Send, history
<1> QED BY <1>1, <1>2, <1>3, <1>4, <1>5, StepCases

\* A copy is under one key only.
LEMMA OneKey ==
    ASSUME Once, NEW j \in QueueKey, NEW k \in QueueKey, NEW x,
           x \in Range(enqueued[j]), x \in Range(enqueued[k])
    PROVE  j = k
BY DEF Once

\* A drain hands the copies it takes to one connection, and nobody else has them.
LEMMA HeldStep ==
    ASSUME TypeOK, Once, Placed, Held, [Next]_vars
    PROVE  Held'
<1>1. \A k \in QueueKey :
         Range(enqueued[k]) \ Range(queue[k]) \subseteq Range(enqueued'[k]) \ Range(queue'[k])
  BY LeftStays
<1>2. \A c \in Conn : KeyFor(c) \in QueueKey
  BY KeyTypes
<1>3. CASE \A c \in Conn : ~ Drain(c)
  <2>1. \A c \in Conn, x \in Copy : Replayed(c, x)' => Replayed(c, x)
    BY <1>3, ReplayedBefore
  <2>2. \A c \in Conn, x \in Copy : Replayed(c, x)' =>
           x \in Range(enqueued'[KeyFor(c)]) \ Range(queue'[KeyFor(c)])
    BY <1>1, <1>2, <2>1 DEF Held
  <2>3. \A c, d \in Conn, x \in Copy : Replayed(c, x)' /\ Replayed(d, x)' => c = d
    BY <2>1 DEF Held
  <2> QED BY <2>2, <2>3 DEF Held
<1>4. ASSUME NEW c \in Conn, Drain(c) PROVE Held'
  <2> DEFINE k == KeyFor(c)
  <2>1. /\ UNCHANGED <<accepted, enqueued>>
        /\ queue'[k] = <<>> /\ \A j \in QueueKey \ {k} : queue'[j] = queue[j]
        /\ Reached(c)' \subseteq Reached(c) \cup Range(queue[k])
        /\ \A d \in Conn \ {c} : Reached(d)' = Reached(d)
    BY <1>4, DrainEffect
  <2>2. Range(queue[k]) \subseteq Range(enqueued[k])
    BY <1>2 DEF Once
  <2>3. Range(queue'[k]) = {}
    BY <2>1, RangeEmpty
  <2>4. \A x \in Copy : Replayed(c, x)' => Replayed(c, x) \/ x \in Range(queue[k])
    BY <2>1 DEF Replayed
  <2>5. \A d \in Conn \ {c} : \A x \in Copy : Replayed(d, x)' => Replayed(d, x)
    BY <2>1 DEF Replayed
  <2>6. \A d \in Conn, x \in Copy : Replayed(d, x) =>
           x \in Range(enqueued[KeyFor(d)]) \ Range(queue[KeyFor(d)])
    BY DEF Held
  <2>7. \A d \in Conn, x \in Copy : Replayed(d, x)' =>
           x \in Range(enqueued'[KeyFor(d)]) \ Range(queue'[KeyFor(d)])
    <3>1. ASSUME NEW x \in Copy, Replayed(c, x)' PROVE x \in Range(enqueued'[k]) \ Range(queue'[k])
      BY <2>1, <2>2, <2>3, <2>4, <2>6, <3>1
    <3>2. ASSUME NEW d \in Conn \ {c}, NEW x \in Copy, Replayed(d, x)'
          PROVE  x \in Range(enqueued'[KeyFor(d)]) \ Range(queue'[KeyFor(d)])
      BY <1>1, <1>2, <2>5, <2>6, <3>2
    <3> QED BY <3>1, <3>2
  <2>8. \A d, e \in Conn, x \in Copy : Replayed(d, x)' /\ Replayed(e, x)' => d = e
    <3>1. ASSUME NEW d \in Conn \ {c}, NEW x \in Copy, Replayed(c, x)', Replayed(d, x)'
          PROVE  FALSE
      <4>1. Replayed(d, x) /\ x \in Range(enqueued[KeyFor(d)]) \ Range(queue[KeyFor(d)])
        BY <2>5, <2>6, <3>1
      <4>2. x \notin Range(queue[k])
        <5> SUFFICES ASSUME x \in Range(queue[k]) PROVE FALSE
          OBVIOUS
        <5>1. KeyFor(d) = k
          BY <1>2, <2>2, <4>1, OneKey
        <5> QED BY <4>1, <5>1
      <4>3. Replayed(c, x)
        BY <2>4, <3>1, <4>2
      <4> QED BY <4>1, <4>3 DEF Held
    <3>2. ASSUME NEW d \in Conn \ {c}, NEW e \in Conn \ {c}, NEW x \in Copy,
                 Replayed(d, x)', Replayed(e, x)'
          PROVE  d = e
      BY <2>5, <3>2 DEF Held
    <3> QED BY <3>1, <3>2
  <2> QED BY <2>7, <2>8 DEF Held
<1> QED BY <1>3, <1>4

\* The history of a queue only grows at its end, and the queue keeps its order.
LEMMA QueueOrder ==
    ASSUME TypeOK, Once, InOrder, [Next]_vars, NEW k \in QueueKey, NEW x \in Copy, NEW y \in Copy
    PROVE  /\ Precedes(enqueued[k], x, y) => Precedes(enqueued'[k], x, y)
           /\ Precedes(queue'[k], x, y) => Precedes(enqueued'[k], x, y)
<1>0. Precedes(queue[k], x, y) => Precedes(enqueued[k], x, y)
  BY DEF InOrder
<1>1. CASE Quiet
  BY <1>0, <1>1 DEF Quiet
<1>2. CASE \/ \E d \in Conn : Connect(d)
           \/ \E n \in Msg : Lookup(n) \/ (\E z \in Copy : Route(n, z)) \/ Finish(n)
  BY <1>0, <1>2, PassiveStep
<1>3. CASE \E d \in Conn : Drain(d)
  <2>1. enqueued' = enqueued /\ (queue'[k] = queue[k] \/ queue'[k] = <<>>)
    BY <1>3 DEF Drain, TypeOK
  <2> QED BY <1>0, <2>1, PrecedesEmpty
<1>4. ASSUME NEW m \in Msg, NEW z \in Copy, Enqueue(m, z)
      PROVE  /\ Precedes(enqueued[k], x, y) => Precedes(enqueued'[k], x, y)
             /\ Precedes(queue'[k], x, y) => Precedes(enqueued'[k], x, y)
  <2>1. PICK j \in QueueKey : j = KeyOf(z)
    BY <1>4, EnqueueEffect
  <2>2. \A i \in QueueKey \ {j} : queue'[i] = queue[i] /\ enqueued'[i] = enqueued[i]
    BY <1>4, <2>1, EnqueueEffect
  <2>3. Precedes(enqueued'[j], x, y) <=>
           Precedes(enqueued[j], x, y) \/ (x \in Range(enqueued[j]) /\ y = z)
    <3>1. \A a, b : Precedes(enqueued'[KeyOf(z)], a, b) <=>
             \/ Precedes(enqueued[KeyOf(z)], a, b)
             \/ a \in Range(enqueued[KeyOf(z)]) /\ b = z
      BY <1>4, EnqueueEffect
    <3> QED BY <2>1, <3>1, Zenon
  <2>4. Precedes(queue'[j], x, y) =>
           Precedes(queue[j], x, y) \/ (x \in Range(queue[j]) /\ y = z)
    <3>1. \A a, b : Precedes(queue'[KeyOf(z)], a, b) =>
             \/ Precedes(queue[KeyOf(z)], a, b)
             \/ a \in Range(queue[KeyOf(z)]) /\ b = z
      BY <1>4, EnqueueEffect
    <3> QED BY <2>1, <3>1
  <2>5. Range(queue[k]) \subseteq Range(enqueued[k])
    BY DEF Once
  <2> QED BY <1>0, <2>2, <2>3, <2>4, <2>5
<1>5. CASE \E n \in Msg, z \in Copy, d \in Conn : Send(n, z, d)
  <2>1. UNCHANGED <<queue, enqueued>>
    BY <1>5 DEF Send, history
  <2> QED BY <1>0, <2>1
<1> QED BY <1>1, <1>2, <1>3, <1>4, <1>5, StepCases

\* The order on the way to c only changes by a drain of c or a send to c.
LEMMA OrderElsewhere ==
    ASSUME TypeOK, Once, Placed, [Next]_vars, NEW c \in Conn,
           ~ Drain(c), \A m \in Msg, z \in Copy : ~ Send(m, z, c)
    PROVE  \A x, y \in Copy : Follows(c, x, y)' => Follows(c, x, y)
<1>1. CASE Quiet
  BY <1>1 DEF Quiet
<1>2. CASE \/ \E d \in Conn : Connect(d)
           \/ \E n \in Msg : Lookup(n) \/ (\E z \in Copy : Route(n, z)) \/ Finish(n)
  <2>1. UNCHANGED <<chan, received, pending>>
    BY <1>2, PassiveStep
  <2> QED BY <2>1, Still
<1>3. CASE \E d \in Conn \ {c} : Drain(d)
  BY <1>3, DrainEffect
<1>4. CASE \E n \in Msg, z \in Copy : Enqueue(n, z)
  <2>1. UNCHANGED <<chan, received, pending>>
    BY <1>4 DEF Enqueue, handler, channel
  <2> QED BY <2>1, Still
<1>5. CASE \E n \in Msg, z \in Copy, d \in Conn \ {c} : Send(n, z, d)
  BY <1>5, SendEffect
<1> QED BY <1>1, <1>2, <1>3, <1>4, <1>5, StepCases

\* In a sequence without repetitions nothing precedes itself.
LEMMA InjectiveOrder ==
    ASSUME NEW S, NEW s \in Seq(S), IsInjective(s), NEW x
    PROVE  ~ Precedes(s, x, x)
<1> SUFFICES ASSUME Precedes(s, x, x) PROVE FALSE
  OBVIOUS
<1>1. PICK i, j \in DOMAIN s : i < j /\ s[i] = x /\ s[j] = x
  BY DEF Precedes
<1>2. i = j /\ i \in Nat
  BY <1>1 DEF IsInjective
<1> QED BY <1>1, <1>2

\* No step repeats a copy on the way to a client or reorders the replayed ones.
LEMMA InOrderStep ==
    ASSUME TypeOK, Once, Placed, Held, InOrder, [Next]_vars
    PROVE  InOrder'
<1>1. /\ \A k \in QueueKey, x, y \in Copy :
            /\ Precedes(enqueued[k], x, y) => Precedes(enqueued'[k], x, y)
            /\ Precedes(queue'[k], x, y) => Precedes(enqueued'[k], x, y)
      /\ \A c \in Conn : KeyFor(c) \in QueueKey
  BY QueueOrder, KeyTypes
<1>2. /\ \A c \in Conn, x \in Copy : ~ Follows(c, x, x)
      /\ \A c \in Conn, x, y \in Copy :
            Follows(c, x, y) /\ Replayed(c, x) /\ Replayed(c, y) =>
                Precedes(enqueued[KeyFor(c)], x, y)
  BY DEF InOrder
<1> SUFFICES ASSUME NEW c \in Conn, NEW x \in Copy, NEW y \in Copy, Follows(c, x, y)'
             PROVE  /\ x # y
                    /\ Replayed(c, x)' /\ Replayed(c, y)' => Precedes(enqueued'[KeyFor(c)], x, y)
  BY <1>1 DEF InOrder
<1>3. CASE ~ Drain(c) /\ \A m \in Msg, z \in Copy : ~ Send(m, z, c)
  <2>1. Follows(c, x, y)
    BY <1>3, OrderElsewhere
  <2>2. /\ Replayed(c, x)' => Replayed(c, x)
        /\ Replayed(c, y)' => Replayed(c, y)
    BY <1>3, ReplayedBefore
  <2> QED BY <1>1, <1>2, <2>1, <2>2
<1>4. CASE Drain(c)
  <2> DEFINE k == KeyFor(c)
  <2>1. /\ hpc[c] = "drain" /\ UNCHANGED accepted
        /\ \/ Follows(c, x, y) \/ Precedes(queue[k], x, y)
           \/ x \in Reached(c) /\ y \in Range(queue[k])
    BY <1>4, DrainEffect
  <2>2. \A z \in Reached(c) : c \in accepted[z]
    BY <2>1 DEF Placed
  <2>3. \A z \in Range(queue[k]) : z \notin Reached(c)
    <3>1. Range(queue[k]) \subseteq Range(enqueued[k])
      BY <1>1 DEF Once
    <3>2. \A z \in Range(queue[k]) : c \notin accepted[z]
      BY <1>1, <3>1, NotBoth
    <3> QED BY <2>2, <3>2
  <2>4. CASE Follows(c, x, y)
    <3>1. x # y /\ x \in Reached(c)
      BY <1>2, <2>4, FollowsReached
    <3> QED BY <2>1, <2>2, <3>1 DEF Replayed
  <2>5. CASE Precedes(queue[k], x, y)
    <3>1. Precedes(enqueued[k], x, y)
      BY <1>1, <2>5 DEF InOrder
    <3>2. x # y
      <4>1. queue[k] \in Seq(Copy) /\ IsInjective(queue[k])
        BY <1>1 DEF TypeOK, Once
      <4> QED BY <2>5, <4>1, InjectiveOrder
    <3> QED BY <1>1, <3>1, <3>2
  <2>6. CASE x \in Reached(c) /\ y \in Range(queue[k])
    BY <2>1, <2>2, <2>3, <2>6 DEF Replayed
  <2> QED BY <2>1, <2>4, <2>5, <2>6
<1>5. ASSUME NEW m \in Msg, NEW z \in Copy, Send(m, z, c)
      PROVE  /\ x # y
             /\ Replayed(c, x)' /\ Replayed(c, y)' => Precedes(enqueued'[KeyFor(c)], x, y)
  <2>1. z \notin Reached(c)
    BY <1>5, SendEffect DEF Placed
  <2>2. ~ Drain(c)
    <3>1. hpc' = hpc
      BY <1>5, SendEffect
    <3> QED BY <3>1 DEF Drain, TypeOK
  <2>3. /\ Replayed(c, x)' => Replayed(c, x)
        /\ Replayed(c, y)' => Replayed(c, y)
    BY <2>2, ReplayedBefore
  <2>4. CASE Follows(c, x, y)
    BY <1>1, <1>2, <2>3, <2>4
  <2>5. CASE ~ Follows(c, x, y)
    <3>1. /\ accepted'[z] = accepted[z] \cup {c}
          /\ (x \in Reached(c) /\ y = z) \/ (x = z /\ y \in Reached(c))
      BY <1>5, <2>5, SendEffect
    <3>2. ~ Replayed(c, z)'
      BY <3>1 DEF Replayed
    <3> QED BY <2>1, <3>1, <3>2
  <2> QED BY <2>4, <2>5
<1> QED BY <1>3, <1>4, <1>5

----------------------------------------------------------------------------
(* Nothing is lost in silence                                              *)

\* The drain of c took x, and x is still with c or c's client has gone.
Carries(c, x) == x \in taken[c] /\ (x \in Reached(c) \/ c \notin online)

\* Whoever carries a copy goes on to do so until its client has gone.
LEMMA CarriedStays ==
    ASSUME TypeOK, Once, Placed, [Next]_vars, NEW c \in Conn, NEW x, Carries(c, x)
    PROVE  Carries(c, x)'
<1>0. x \in taken[c] /\ hpc[c] \notin {"new", "drain"} /\ (x \in Reached(c) \/ c \notin online)
  BY DEF Carries, Placed
<1>1. CASE Quiet
  <2>1. /\ taken' = taken /\ online' \subseteq online
        /\ c \in online => Reached(c) \subseteq Reached(c)'
    BY <1>1 DEF Quiet
  <2> QED BY <1>0, <2>1 DEF Carries
<1>2. ASSUME NEW d \in Conn, Connect(d) PROVE Carries(c, x)'
  <2>1. /\ (c \in online' => c \in online)
        /\ UNCHANGED <<chan, received, pending, taken>>
    BY <1>0, <1>2 DEF Connect, TypeOK, history
  <2> QED BY <1>0, <2>1, Still DEF Carries
<1>3. ASSUME NEW n \in Msg, Lookup(n) \/ (\E z \in Copy : Route(n, z)) \/ Finish(n)
      PROVE  Carries(c, x)'
  <2>1. UNCHANGED <<chan, received, pending, taken, online>>
    BY <1>3 DEF Lookup, Route, Finish, handler, channel, history
  <2> QED BY <1>0, <2>1, Still DEF Carries
<1>4. ASSUME NEW d \in Conn, Drain(d) PROVE Carries(c, x)'
  <2>1. /\ UNCHANGED online /\ hpc[d] = "drain"
        /\ \A e \in Conn \ {d} : Reached(e)' = Reached(e) /\ taken'[e] = taken[e]
    BY <1>4, DrainEffect
  <2> QED BY <1>0, <2>1 DEF Carries
<1>5. ASSUME NEW n \in Msg, NEW z \in Copy, Enqueue(n, z) PROVE Carries(c, x)'
  <2>1. UNCHANGED <<chan, received, pending, taken, online>>
    BY <1>5 DEF Enqueue, handler, channel
  <2> QED BY <1>0, <2>1, Still DEF Carries
<1>6. ASSUME NEW n \in Msg, NEW z \in Copy, NEW d \in Conn, Send(n, z, d) PROVE Carries(c, x)'
  <2>1. /\ UNCHANGED <<taken, online>>
        /\ \A e \in Conn \ {d} : Reached(e)' = Reached(e)
        /\ Reached(d) \subseteq Reached(d)'
    BY <1>6, SendEffect
  <2> QED BY <1>0, <2>1 DEF Carries
<1> QED BY <1>1, <1>2, <1>3, <1>4, <1>5, <1>6, StepCases

\* A queued copy stays in the queue, is evicted or expires, or is handed to a
\* connection by its drain; a copy that enters the history enters the queue.
LEMMA QueuedStays ==
    ASSUME TypeOK, Once, Placed, [Next]_vars, NEW k \in QueueKey
    PROVE  /\ discarded \subseteq discarded'
           /\ Range(enqueued'[k]) \subseteq Range(enqueued[k]) \cup Range(queue'[k])
           /\ \A x \in Range(queue[k]) :
                 x \in Range(queue'[k]) \/ x \in discarded' \/ \E c \in Conn : Carries(c, x)'
<1>1. CASE Quiet
  BY <1>1 DEF Quiet
<1>2. CASE \/ \E d \in Conn : Connect(d)
           \/ \E n \in Msg : Lookup(n) \/ (\E z \in Copy : Route(n, z)) \/ Finish(n)
  BY <1>2, PassiveStep
<1>3. ASSUME NEW d \in Conn, Drain(d)
      PROVE  /\ discarded \subseteq discarded'
             /\ Range(enqueued'[k]) \subseteq Range(enqueued[k]) \cup Range(queue'[k])
             /\ \A x \in Range(queue[k]) :
                   x \in Range(queue'[k]) \/ x \in discarded' \/ \E c \in Conn : Carries(c, x)'
  <2>1. /\ UNCHANGED enqueued /\ discarded \subseteq discarded'
        /\ \A j \in QueueKey \ {KeyFor(d)} : queue'[j] = queue[j]
        /\ \A x \in Range(queue[KeyFor(d)]) :
              (x \in taken'[d] /\ x \in Reached(d)') \/ x \in discarded'
    BY <1>3, DrainEffect
  <2>2. CASE KeyFor(d) # k
    BY <2>1, <2>2
  <2>3. CASE KeyFor(d) = k
    <3>1. \A x \in Range(queue[k]) : Carries(d, x)' \/ x \in discarded'
      BY <2>1, <2>3 DEF Carries
    <3> QED BY <2>1, <3>1
  <2> QED BY <2>2, <2>3
<1>4. ASSUME NEW n \in Msg, NEW z \in Copy, Enqueue(n, z)
      PROVE  /\ discarded \subseteq discarded'
             /\ Range(enqueued'[k]) \subseteq Range(enqueued[k]) \cup Range(queue'[k])
             /\ \A x \in Range(queue[k]) : x \in Range(queue'[k]) \/ x \in discarded'
  <2>1. PICK j \in QueueKey : j = KeyOf(z)
    BY <1>4, EnqueueEffect
  <2>2. discarded \subseteq discarded'
    BY <1>4, EnqueueEffect
  <2>3. \A i \in QueueKey \ {j} : queue'[i] = queue[i] /\ enqueued'[i] = enqueued[i]
    BY <1>4, <2>1, EnqueueEffect
  <2>4. Range(enqueued'[j]) = Range(enqueued[j]) \cup {z}
    BY <1>4, <2>1, EnqueueEffect
  <2>5. z \in Range(queue'[j])
    BY <1>4, <2>1, EnqueueEffect
  <2>6. \A x \in Range(queue[j]) : x \in Range(queue'[j]) \/ x \in discarded'
    BY <1>4, <2>1, EnqueueEffect
  <2>7. CASE k = j
    BY <2>2, <2>4, <2>5, <2>6, <2>7
  <2>8. CASE k # j
    BY <2>2, <2>3, <2>8
  <2> QED BY <2>7, <2>8
<1>5. CASE \E n \in Msg, z \in Copy, d \in Conn : Send(n, z, d)
  BY <1>5 DEF Send, history
<1> QED BY <1>1, <1>2, <1>3, <1>4, <1>5, StepCases

\* A copy a channel took reaches the client, or the client has gone.
LEMMA AcceptedStays ==
    ASSUME TypeOK, Once, Placed, [Next]_vars, NEW x \in Copy, NEW c \in accepted'[x],
           c \in accepted[x] => x \in Reached(c) \/ c \notin online
    PROVE  x \in Reached(c)' \/ c \notin online'
<1>0. accepted[x] \subseteq Conn
  BY DEF TypeOK
<1>1. CASE Quiet
  <2>1. /\ accepted' = accepted /\ online' \subseteq online
        /\ \A d \in Conn : d \in online => Reached(d) \subseteq Reached(d)'
    BY <1>1 DEF Quiet
  <2> QED BY <1>0, <2>1
<1>2. ASSUME NEW d \in Conn, Connect(d) PROVE x \in Reached(c)' \/ c \notin online'
  <2>1. /\ hpc[d] = "new" /\ online' = online \cup {d}
        /\ UNCHANGED <<chan, received, pending, accepted>>
    BY <1>2 DEF Connect, dispatch
  <2>2. c # d
    BY <2>1 DEF Placed
  <2> QED BY <1>0, <2>1, <2>2, Still
<1>3. ASSUME NEW n \in Msg, Lookup(n) \/ (\E z \in Copy : Route(n, z)) \/ Finish(n)
      PROVE  x \in Reached(c)' \/ c \notin online'
  <2>1. UNCHANGED <<chan, received, pending, accepted, online>>
    BY <1>3 DEF Lookup, Route, Finish, handler, channel
  <2> QED BY <1>0, <2>1, Still
<1>4. ASSUME NEW d \in Conn, Drain(d) PROVE x \in Reached(c)' \/ c \notin online'
  <2>1. /\ UNCHANGED <<online, accepted>>
        /\ \A e \in Conn : Reached(e) \subseteq Reached(e)'
    BY <1>4, DrainEffect
  <2> QED BY <1>0, <2>1
<1>5. ASSUME NEW n \in Msg, NEW z \in Copy, Enqueue(n, z)
      PROVE  x \in Reached(c)' \/ c \notin online'
  <2>1. UNCHANGED <<chan, received, pending, accepted, online>>
    BY <1>5 DEF Enqueue, handler, channel
  <2> QED BY <1>0, <2>1, Still
<1>6. ASSUME NEW n \in Msg, NEW z \in Copy, NEW d \in Conn, Send(n, z, d)
      PROVE  x \in Reached(c)' \/ c \notin online'
  <2>1. /\ UNCHANGED online
        /\ \A y \in Copy \ {z} : accepted'[y] = accepted[y]
        /\ \A e \in Conn \ {d} : Reached(e)' = Reached(e)
        /\ \/ accepted'[z] = accepted[z] /\ Reached(d)' = Reached(d)
           \/ accepted'[z] = accepted[z] \cup {d} /\ Reached(d)' = Reached(d) \cup {z}
    BY <1>6, SendEffect
  <2> QED BY <1>0, <2>1
<1> QED BY <1>1, <1>2, <1>3, <1>4, <1>5, <1>6, StepCases

\* No step loses a copy in silence.
LEMMA LossStep ==
    ASSUME TypeOK, Once, Placed, NoSilentLoss, [Next]_vars
    PROVE  NoSilentLoss'
<1>1. ASSUME NEW k \in QueueKey, NEW x \in Range(enqueued'[k])
      PROVE  x \in Range(queue'[k]) \/ x \in discarded' \/ \E c \in Conn : Carries(c, x)'
  <2>1. /\ discarded \subseteq discarded'
        /\ Range(enqueued'[k]) \subseteq Range(enqueued[k]) \cup Range(queue'[k])
        /\ x \in Range(queue[k]) =>
              x \in Range(queue'[k]) \/ x \in discarded' \/ \E c \in Conn : Carries(c, x)'
    BY QueuedStays
  <2>2. CASE x \in Range(enqueued[k])
    <3>1. x \in Range(queue[k]) \/ x \in discarded \/ \E c \in Conn : Carries(c, x)
      BY <2>2 DEF NoSilentLoss, Carries
    <3>2. ASSUME NEW c \in Conn, Carries(c, x) PROVE Carries(c, x)'
      BY <3>2, CarriedStays
    <3> QED BY <2>1, <3>1, <3>2
  <2> QED BY <1>1, <2>1, <2>2
<1>2. ASSUME NEW x \in Copy, NEW c \in accepted'[x]
      PROVE  x \in Reached(c)' \/ c \notin online'
  <2>1. c \in accepted[x] => x \in Reached(c) \/ c \notin online
    BY DEF NoSilentLoss
  <2> QED BY <2>1, AcceptedStays
<1> QED BY <1>1, <1>2 DEF NoSilentLoss, Carries

----------------------------------------------------------------------------
(* What the client sees                                                    *)

\* The order of the stream is the one Follows describes part by part.
LEMMA StreamOrder ==
    ASSUME TypeOK, NEW c \in Conn, NEW x, NEW y, Precedes(Stream(c), x, y)
    PROVE  Follows(c, x, y)
<1>1. /\ received[c] \in Seq(Copy \cup {Frame}) /\ chan[c] \in Seq(Copy \cup {Frame})
      /\ pending[c] \in Seq(Copy \cup {Frame})
  BY DEF TypeOK
<1>2. PICK r, s, p \in Seq(Copy \cup {Frame}) : r = received[c] /\ s = chan[c] /\ p = pending[c]
  BY <1>1
<1>3. PICK f \in Seq(Copy \cup {Frame}) : f = r \o s
  BY RangeConcat
<1>4. Precedes(f \o p, x, y)
  BY <1>2, <1>3 DEF Stream
<1>5. Precedes(f, x, y) \/ Precedes(p, x, y) \/ (x \in Range(f) /\ y \in Range(p))
  BY <1>4, PrecedesConcat
<1>6. Precedes(f, x, y) => Precedes(r, x, y) \/ Precedes(s, x, y) \/ (x \in Range(r) /\ y \in Range(s))
  BY <1>3, PrecedesConcat
<1>7. Range(f) \subseteq Range(r) \cup Range(s)
  BY <1>3, RangeConcat
<1> QED BY <1>2, <1>5, <1>6, <1>7 DEF Follows

\* Every copy for a client is where its dispatch stands.
Standing == Once /\ Placed /\ Held /\ InOrder

\* At the start nothing has been sent, queued or handed out.
LEMMA StandingInit == Init => Standing /\ NoSilentLoss
<1> SUFFICES ASSUME Init PROVE Standing /\ NoSilentLoss
  OBVIOUS
<1>1. Range(<<>>) = {} /\ IsInjective(<<>>) /\ \A x, y : ~ Precedes(<<>>, x, y)
  BY RangeEmpty, PrecedesEmpty DEF IsInjective
<1>2. /\ \A k \in QueueKey : enqueued[k] = <<>> /\ queue[k] = <<>>
      /\ \A c \in Conn : received[c] = <<>> /\ chan[c] = <<>> /\ pending[c] = <<>> /\ taken[c] = {}
      /\ \A x \in Copy : targets[x] = {} /\ accepted[x] = {}
      /\ registered = {} /\ offline = {}
  BY DEF Init
<1>3. /\ \A c \in Conn : Reached(c) = {} /\ \A x, y : ~ Follows(c, x, y)
      /\ \A k \in QueueKey : Range(enqueued[k]) = {} /\ Range(queue[k]) = {}
  BY <1>1, <1>2 DEF Reached, Follows
<1>4. Once
  BY <1>1, <1>2, <1>3 DEF Once
<1>5. Placed
  BY <1>2, <1>3 DEF Placed
<1>6. Held
  BY <1>3 DEF Held, Replayed
<1>7. InOrder
  BY <1>1, <1>2, <1>3 DEF InOrder
<1>8. NoSilentLoss
  BY <1>2, <1>3 DEF NoSilentLoss
<1> QED BY <1>4, <1>5, <1>6, <1>7, <1>8 DEF Standing

\* Whatever the interleaving of dispatches, drains, replays and failures, each copy is where
\* Once, Placed, Held and InOrder say: the inductive invariant of the next three theorems.
THEOREM DeliveryStanding == Spec => []Standing
<1>1. TypeOK /\ Standing /\ [Next]_vars => Standing'
  BY QueueStep, PlacedStep, HeldStep, InOrderStep DEF Standing
<1> QED BY <1>1, StandingInit, DeliveryTypes, PTL DEF Spec

\* A client gets no copy of a message twice, by a send and a replay or from two devices
\* that drain the queue at the same time, for any number of connections and any sizes:
\* it gets a message as often as the target lists its user, and no more often.
THEOREM DeliveryNoDuplicate == Spec => []NoDuplicate
<1>1. TypeOK /\ Standing => NoDuplicate
  <2> SUFFICES ASSUME TypeOK, Standing PROVE NoDuplicate
    OBVIOUS
  <2>1. ASSUME NEW c \in Conn, NEW x \in Reached(c) PROVE ~ Precedes(Stream(c), x, x)
    <3>1. x \in Copy
      BY ReachedType
    <3> QED BY <3>1, StreamOrder DEF Standing, InOrder
  <2>2. ASSUME NEW k \in QueueKey, NEW x \in Copy, NEW c \in Conn, Replayed(c, x)
        PROVE  x \notin Range(queue[k])
    <3> SUFFICES ASSUME x \in Range(queue[k]) PROVE FALSE
      OBVIOUS
    <3>1. x \in Range(enqueued[k]) /\ KeyFor(c) \in QueueKey
      BY KeyTypes DEF Standing, Once
    <3>2. x \in Range(enqueued[KeyFor(c)]) \ Range(queue[KeyFor(c)])
      BY <2>2 DEF Standing, Held
    <3>3. KeyFor(c) = k
      BY <3>1, <3>2, OneKey DEF Standing
    <3> QED BY <3>2, <3>3
  <2>3. \A x \in Copy, c, d \in Conn : Replayed(c, x) /\ Replayed(d, x) => c = d
    BY DEF Standing, Held
  <2> QED BY <2>1, <2>2, <2>3 DEF NoDuplicate
<1> QED BY <1>1, DeliveryTypes, DeliveryStanding, PTL

\* The replayed copies reach a client in the order the queue took them in, whatever
\* evictions, expiries, live messages and heartbeats come between them.
THEOREM DeliveryInOrder == Spec => []ReplayInOrder
<1>1. TypeOK /\ Standing => ReplayInOrder
  <2> SUFFICES ASSUME TypeOK, Standing, NEW c \in Conn, NEW x \in Reached(c), NEW y \in Reached(c),
                      Replayed(c, x), Replayed(c, y), Precedes(Stream(c), x, y)
               PROVE  Precedes(enqueued[KeyFor(c)], x, y)
    BY DEF ReplayInOrder
  <2>1. x \in Copy /\ y \in Copy
    BY ReachedType
  <2> QED BY <2>1, StreamOrder DEF Standing, InOrder
<1> QED BY <1>1, DeliveryTypes, DeliveryStanding, PTL

\* What was queued is only lost to a full queue, to the TTL, or with the client of the
\* very connection whose handler drained it; what a channel took is only lost with the
\* client of that connection.
THEOREM DeliveryNoLoss == Spec => []NoSilentLoss
<1>1. TypeOK /\ Standing /\ NoSilentLoss /\ [Next]_vars => NoSilentLoss'
  BY LossStep DEF Standing
<1> QED BY <1>1, StandingInit, DeliveryTypes, DeliveryStanding, PTL DEF Spec
=============================================================================

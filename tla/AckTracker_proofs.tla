------------------------- MODULE AckTracker_proofs -------------------------
(* Proofs about AckTracker: who can be told "acked", for every set of      *)
(* notifications, users and devices and every choice of backends.          *)
EXTENDS AckTracker, FiniteSetTheorems, TLAPS

AckInv == TypeOK /\ Entitled /\ OnlyAddressee

(* What the entries say is not disturbed by steps that send nothing new. *)
LEMMA AddressedGrows ==
    ASSUME NEW n, NEW u, sent \subseteq sent', Addressed(n, u)
    PROVE  Addressed(n, u)'
BY DEF Addressed, Devices

(* Init establishes the invariant: nothing is pending. *)
LEMMA InitAck ==
    ASSUME Init
    PROVE  AckInv
<1> USE ConstantsOK
<1>2. TypeOK
  BY DEF Init, TypeOK
<1>3. Entitled /\ OnlyAddressee
  BY DEF Init, Entitled, OnlyAddressee
<1> QED BY <1>2, <1>3 DEF AckInv

(* Every step preserves typing. *)
LEMMA NextTypes ==
    ASSUME TypeOK, [Next]_vars
    PROVE  TypeOK'
<1> USE ConstantsOK DEF TypeOK, tracking, job, answers
<1>1. ASSUME NEW n \in Note, NEW d \in Device, Send(n, d) PROVE TypeOK'
  BY <1>1 DEF Send
<1>2. ASSUME NEW n \in Note, NEW d \in Device, Replay(n, d) PROVE TypeOK'
  BY <1>2 DEF Replay
<1>3. ASSUME NEW n \in Note, NEW d \in Device, Track(n, d) PROVE TypeOK'
  BY <1>3 DEF Track, Written, Conflict, CanFail, GivesWay, Cause
<1>4. ASSUME NEW n \in Note, SetTtl(n) PROVE TypeOK'
  BY <1>4 DEF SetTtl
<1>5. ASSUME NEW n \in Note, TtlPasses(n) PROVE TypeOK'
  BY <1>5 DEF TtlPasses, GivesWay, Cause
<1>6. ASSUME NEW n \in Note, NEW d \in Device, AckMemory(d, n) PROVE TypeOK'
  BY <1>6 DEF AckMemory, Ask, Refuse, Step, Matches
<1>7. ASSUME NEW d \in Device, Restore(d) PROVE TypeOK'
  BY <1>7 DEF Restore, Refuse, Step, GivesWay, Cause
<1>8. ASSUME NEW n \in Note, NEW d \in Device, AckPostgres(d, n) PROVE TypeOK'
  BY <1>8 DEF AckPostgres, Ask, Refuse, Step, Matches, GivesWay, Cause
<1>9. ASSUME NEW n \in Note, NEW d \in Device, AckRedis(d, n) PROVE TypeOK'
  BY <1>9 DEF AckRedis, Ask, Refuse, Step, Matches
<1>10. ASSUME NEW d \in Device, DeleteRedis(d) PROVE TypeOK'
  BY <1>10 DEF DeleteRedis, Step, GivesWay, Cause
<1>11. ASSUME NEW d \in Device, Answer(d) PROVE TypeOK'
  BY <1>11 DEF Answer, Step
<1>12. CASE UNCHANGED vars
  BY <1>12 DEF vars
<1> QED BY <1>1, <1>2, <1>3, <1>4, <1>5, <1>6, <1>7, <1>8, <1>9, <1>10, <1>11, <1>12
        DEF Next

(* Entries are written by a track of a device that was sent the notification, *)
(* moved between the map and a handler, and never made up.                    *)
LEMMA NextEntitled ==
    ASSUME AckInv, [Next]_vars
    PROVE  Entitled' /\ OnlyAddressee'
<1> USE ConstantsOK DEF AckInv, TypeOK
<1>0. SUFFICES ASSUME sent \subseteq sent' PROVE Entitled' /\ OnlyAddressee'
  BY DEF Next, vars, tracking, Send, Replay, Track, SetTtl, TtlPasses, AckMemory, Restore,
         AckPostgres, AckRedis, DeleteRedis, Answer
<1>a. \A n \in Note, u \in User : Addressed(n, u) => Addressed(n, u)'
  BY <1>0, AddressedGrows
<1> USE <1>a
<1>1. ASSUME NEW n \in Note, NEW d \in Device, Send(n, d) PROVE Entitled' /\ OnlyAddressee'
  BY <1>1 DEF Send, Entitled, OnlyAddressee, job, answers
<1>2. ASSUME NEW n \in Note, NEW d \in Device, Replay(n, d) PROVE Entitled' /\ OnlyAddressee'
  BY <1>2 DEF Replay, Entitled, OnlyAddressee, job, answers
<1>3. ASSUME NEW n \in Note, NEW d \in Device, Track(n, d) PROVE Entitled' /\ OnlyAddressee'
  <2>1. Addressed(n, UserOf[d])
    BY <1>3 DEF Track, Addressed, Devices
  <2> QED BY <1>3, <2>1 DEF Track, Written, Conflict, CanFail, Entitled, OnlyAddressee, job, answers
<1>4. ASSUME NEW n \in Note, SetTtl(n) PROVE Entitled' /\ OnlyAddressee'
  BY <1>4 DEF SetTtl, Entitled, OnlyAddressee, job, answers
<1>5. ASSUME NEW n \in Note, TtlPasses(n) PROVE Entitled' /\ OnlyAddressee'
  BY <1>5 DEF TtlPasses, Entitled, OnlyAddressee, job, answers
<1>6. ASSUME NEW n \in Note, NEW d \in Device, AckMemory(d, n)
      PROVE  Entitled' /\ OnlyAddressee'
  BY <1>6 DEF AckMemory, Ask, Refuse, Step, Matches, Entitled, OnlyAddressee, job, answers
<1>7. ASSUME NEW d \in Device, Restore(d) PROVE Entitled' /\ OnlyAddressee'
  BY <1>7 DEF Restore, Refuse, Step, Entitled, OnlyAddressee
<1>8. ASSUME NEW n \in Note, NEW d \in Device, AckPostgres(d, n)
      PROVE  Entitled' /\ OnlyAddressee'
  BY <1>8 DEF AckPostgres, Ask, Refuse, Step, Matches, Entitled, OnlyAddressee, job, answers
<1>9. ASSUME NEW n \in Note, NEW d \in Device, AckRedis(d, n)
      PROVE  Entitled' /\ OnlyAddressee'
  BY <1>9 DEF AckRedis, Ask, Refuse, Step, Matches, Entitled, OnlyAddressee, job, answers
<1>10. ASSUME NEW d \in Device, DeleteRedis(d) PROVE Entitled' /\ OnlyAddressee'
  BY <1>10 DEF DeleteRedis, Step, Entitled, OnlyAddressee, answers
<1>11. ASSUME NEW d \in Device, Answer(d) PROVE Entitled' /\ OnlyAddressee'
  BY <1>11 DEF Answer, Step, Entitled, OnlyAddressee
<1>12. CASE UNCHANGED vars
  BY <1>12 DEF vars, Entitled, OnlyAddressee
<1> QED BY <1>1, <1>2, <1>3, <1>4, <1>5, <1>6, <1>7, <1>8, <1>9, <1>10, <1>11, <1>12
        DEF Next

(* The invariant holds in every reachable state. *)
LEMMA AckInvariance == Spec => []AckInv
<1>1. Init => AckInv
  BY InitAck
<1>2. AckInv /\ [Next]_vars => AckInv'
  BY NextTypes, NextEntitled DEF AckInv
<1> QED BY <1>1, <1>2, PTL DEF Spec

(* Every reachable state of the acknowledgement tracker is well typed. *)
THEOREM AckTypeCorrect == Spec => []TypeOK
<1>1. AckInv => TypeOK
  BY DEF AckInv
<1> QED BY <1>1, AckInvariance, PTL

(* Nobody is told "acked" for a notification that was sent to other users     *)
(* only, whatever the backend and however Acks and tracks interleave          *)
(* (acknowledge in the three backends, handle_ack).                           *)
THEOREM AckedOnlyAddressee == Spec => []OnlyAddressee
<1>1. AckInv => OnlyAddressee
  BY DEF AckInv
<1> QED BY <1>1, AckInvariance, PTL

----------------------------------------------------------------------------
(* What was stored is not lost *)

(* What only one backend does. *)
OneBackend ==
    /\ mortal # {} => backend = "redis"
    /\ \A n \in Note : tpc[n] = "ttl" => backend = "redis"
    /\ \A d \in Device : /\ jpc[d] = "restore" => backend = "memory"
                         /\ jpc[d] = "delete" => backend = "redis"

(* The handler of d holds the entry of u, and will answer or put it back. *)
Holds(d, n, u) ==
    /\ jnote[d] = n
    /\ (jpc[d] = "restore" /\ jheld[d] = u) \/ (jpc[d] = "answer" /\ UserOf[d] = u)

(* An entry that ended without an accepted Ack ended in a way of the backend. *)
Ended(n, u) == \E c \in Endings[backend] : <<n, u, c>> \in lost

Accepted(n, u) == \E d \in Devices(u) : <<n, d>> \in confirmed

(* The inductive invariant: also while handlers are at work, an entry that    *)
(* was written is pending, held by a handler, accepted or ended.              *)
Kept ==
    \A n \in Note, u \in User : <<n, u>> \in owed =>
        \/ pending[n] = u \/ (\E d \in Device : Holds(d, n, u))
        \/ Accepted(n, u) \/ Ended(n, u)

(* A step keeps to its backend. *)
LEMMA NextOneBackend ==
    ASSUME AckInv, OneBackend, [Next]_vars
    PROVE  OneBackend' /\ backend' = backend
<1> USE ConstantsOK DEF AckInv, TypeOK, OneBackend, tracking, job, answers
<1>1. ASSUME NEW n \in Note, NEW d \in Device, Send(n, d) \/ Replay(n, d)
      PROVE  OneBackend' /\ backend' = backend
  BY <1>1 DEF Send, Replay
<1>2. ASSUME NEW n \in Note, NEW d \in Device, Track(n, d)
      PROVE  OneBackend' /\ backend' = backend
  BY <1>2 DEF Track
<1>3. ASSUME NEW n \in Note, SetTtl(n) \/ TtlPasses(n)
      PROVE  OneBackend' /\ backend' = backend
  BY <1>3 DEF SetTtl, TtlPasses
<1>4. ASSUME NEW n \in Note, NEW d \in Device, AckMemory(d, n)
      PROVE  OneBackend' /\ backend' = backend
  BY <1>4 DEF AckMemory, Ask, Step
<1>5. ASSUME NEW n \in Note, NEW d \in Device, AckPostgres(d, n)
      PROVE  OneBackend' /\ backend' = backend
  BY <1>5 DEF AckPostgres, Ask, Step
<1>6. ASSUME NEW n \in Note, NEW d \in Device, AckRedis(d, n)
      PROVE  OneBackend' /\ backend' = backend
  BY <1>6 DEF AckRedis, Ask, Step
<1>7. ASSUME NEW d \in Device, Restore(d) \/ DeleteRedis(d) \/ Answer(d)
      PROVE  OneBackend' /\ backend' = backend
  BY <1>7 DEF Restore, DeleteRedis, Answer, Step
<1>8. CASE UNCHANGED vars
  BY <1>8 DEF vars
<1> QED BY <1>1, <1>2, <1>3, <1>4, <1>5, <1>6, <1>7, <1>8 DEF Next

(* An entry that gives way to another user's, or to none, is on record. *)
LEMMA WayGiven ==
    ASSUME AckInv, NEW n \in Note, NEW w \in User \cup {Nobody}, NEW cause,
           GivesWay(n, w, cause), cause \in Endings[backend], backend' = backend
    PROVE  \A u \in User : pending[n] = u => u = w \/ Ended(n, u)'
BY ConstantsOK DEF GivesWay, Ended

(* What a step of one handler must show for the entries of one notification.  *)
LEMMA KeptSteps ==
    ASSUME AckInv, Kept, backend' = backend, lost \subseteq lost', confirmed \subseteq confirmed',
           NEW n \in Note,
           \A u \in User : <<n, u>> \in owed' =>
               \/ <<n, u>> \in owed
               \/ pending'[n] = u,
           \A k \in Note \ {n} : pending'[k] = pending[k],
           \A k \in Note \ {n}, u \in User : <<k, u>> \in owed' => <<k, u>> \in owed,
           \A k \in Note \ {n}, u \in User, d \in Device : Holds(d, k, u) => Holds(d, k, u)',
           \A u \in User, d \in Device : Holds(d, n, u) =>
               Holds(d, n, u)' \/ pending'[n] = u \/ Accepted(n, u)',
           \A u \in User : pending[n] = u =>
               \/ pending'[n] = u \/ Ended(n, u)'
               \/ \E d \in Device : Holds(d, n, u)'
    PROVE  Kept'
<1>1. \A k \in Note, u \in User : /\ Accepted(k, u) => Accepted(k, u)'
                                  /\ Ended(k, u) => Ended(k, u)'
  BY DEF Accepted, Ended, Devices
<1> SUFFICES ASSUME NEW k \in Note, NEW u \in User, <<k, u>> \in owed'
             PROVE  \/ pending'[k] = u \/ (\E d \in Device : Holds(d, k, u)')
                    \/ Accepted(k, u)' \/ Ended(k, u)'
  BY DEF Kept
<1> HIDE DEF Holds, Accepted, Ended
<1>2. CASE k = n
  BY <1>1, <1>2 DEF Kept
<1>3. CASE k # n
  BY <1>1, <1>3 DEF Kept
<1> QED BY <1>2, <1>3

(* Only Acks and later entries take an entry away: an Ack leaves its handler  *)
(* about to answer or to put the entry back, and the rest is on record.       *)
LEMMA NextKept ==
    ASSUME AckInv, OneBackend, Kept, [Next]_vars
    PROVE  Kept'
<1>0. backend' = backend
  BY NextOneBackend
<1>a. ASSUME UNCHANGED <<pending, jpc, jnote, jheld, confirmed, lost, owed>> PROVE Kept'
  BY <1>0, <1>a DEF Kept, Holds, Accepted, Ended
<1> USE ConstantsOK DEF AckInv, TypeOK, tracking, job, answers
<1>1. ASSUME NEW n \in Note, NEW d \in Device, Send(n, d) \/ Replay(n, d) PROVE Kept'
  BY <1>a, <1>1 DEF Send, Replay
<1>2. ASSUME NEW n \in Note, NEW d \in Device, Track(n, d) PROVE Kept'
  <2>1. UNCHANGED <<jpc, jnote, jheld, confirmed>>
    BY <1>2 DEF Track
  <2>2. CASE UNCHANGED <<pending, owed, lost>>
    BY <1>a, <2>1, <2>2
  <2>3. CASE /\ pending' = [pending EXCEPT ![n] = Written(n, d)]
             /\ owed' = owed \cup {<<n, Written(n, d)>>}
             /\ GivesWay(n, Written(n, d), "overwritten")
    <3>1. Written(n, d) \in User
      BY DEF Written, Conflict
    <3>2. \A u \in User : pending[n] = u => u = Written(n, d) \/ Ended(n, u)'
      <4>1. CASE backend = "postgres"
        BY <4>1 DEF Written, Conflict
      <4>2. CASE backend # "postgres"
        <5>1. "overwritten" \in Endings[backend]
          BY <4>2 DEF Endings
        <5> QED BY <1>0, <2>3, <3>1, <5>1, WayGiven
      <4> QED BY <4>1, <4>2
    <3>3. \A k \in Note, u \in User, e \in Device : Holds(e, k, u)' = Holds(e, k, u)
      BY <2>1 DEF Holds
    <3>4. lost \subseteq lost'
      BY <2>3 DEF GivesWay
    <3>5. \A u \in User : <<n, u>> \in owed' => <<n, u>> \in owed \/ pending'[n] = u
      BY <2>3
    <3>6. /\ \A k \in Note \ {n} : pending'[k] = pending[k]
          /\ \A k \in Note \ {n}, u \in User : <<k, u>> \in owed' => <<k, u>> \in owed
      BY <2>3
    <3>7. \A u \in User : pending[n] = u => pending'[n] = u \/ Ended(n, u)'
      BY <2>3, <3>2
    <3> HIDE DEF Holds, Ended, Written, GivesWay
    <3> QED BY <1>0, <2>1, <3>3, <3>4, <3>5, <3>6, <3>7, KeptSteps
  <2> QED BY <1>2, <2>2, <2>3 DEF Track
<1>3. ASSUME NEW n \in Note, SetTtl(n) PROVE Kept'
  BY <1>a, <1>3 DEF SetTtl
<1>4. ASSUME NEW n \in Note, TtlPasses(n) PROVE Kept'
  <2>1. UNCHANGED <<owed, jpc, jnote, jheld, confirmed>>
    BY <1>4 DEF TtlPasses
  <2>2. "expired" \in Endings[backend]
    BY <1>4 DEF TtlPasses, OneBackend, Endings
  <2>3. \A u \in User : pending[n] = u => Ended(n, u)'
    BY <1>0, <1>4, <2>2, WayGiven DEF TtlPasses
  <2>4. \A k \in Note, u \in User, e \in Device : Holds(e, k, u)' = Holds(e, k, u)
    BY <2>1 DEF Holds
  <2>5. lost \subseteq lost' /\ \A k \in Note \ {n} : pending'[k] = pending[k]
    BY <1>4 DEF TtlPasses, GivesWay
  <2> HIDE DEF Holds, Ended
  <2> QED BY <1>0, <2>1, <2>3, <2>4, <2>5, KeptSteps
<1>b. ASSUME NEW n \in Note, NEW d \in Device, jpc[d] = "idle",
             \A e \in Device \ {d} : jnote'[e] = jnote[e] /\ jpc'[e] = jpc[e] /\ jheld'[e] = jheld[e]
      PROVE  \A k \in Note, u \in User, e \in Device : Holds(e, k, u) => Holds(e, k, u)'
  BY <1>b DEF Holds
<1>5. ASSUME NEW n \in Note, NEW d \in Device, AckMemory(d, n) PROVE Kept'
  <2>1. UNCHANGED <<owed, confirmed, lost>> /\ jpc[d] = "idle"
    BY <1>5 DEF AckMemory, Ask, Refuse
  <2>2. \A k \in Note \ {n} : pending'[k] = pending[k]
    BY <1>5 DEF AckMemory
  <2>3. \A u \in User : pending[n] = u => Holds(d, n, u)'
    BY <1>5 DEF AckMemory, Step, Holds, Matches
  <2>4. \A e \in Device \ {d} : jnote'[e] = jnote[e] /\ jpc'[e] = jpc[e] /\ jheld'[e] = jheld[e]
    BY <1>5 DEF AckMemory, Step
  <2>5. \A k \in Note, u \in User, e \in Device : Holds(e, k, u) => Holds(e, k, u)'
    BY <1>b, <2>1, <2>4
  <2> HIDE DEF Holds, Ended
  <2> QED BY <1>0, <2>1, <2>2, <2>3, <2>5, KeptSteps
<1>6. ASSUME NEW n \in Note, NEW d \in Device, AckPostgres(d, n) PROVE Kept'
  <2>1. UNCHANGED <<owed, confirmed>> /\ jpc[d] = "idle" /\ lost \subseteq lost'
    BY <1>6 DEF AckPostgres, Ask, Refuse, GivesWay
  <2>2. \A k \in Note \ {n} : pending'[k] = pending[k]
    BY <1>6 DEF AckPostgres
  <2>3. "unanswered" \in Endings[backend]
    BY <1>6 DEF AckPostgres, Endings
  <2>4. GivesWay(n, Nobody, "unanswered") => \A u \in User : pending[n] = u => Ended(n, u)'
    BY <1>0, <2>3, WayGiven
  <2>5. \A u \in User : pending[n] = u =>
            pending'[n] = u \/ Holds(d, n, u)' \/ GivesWay(n, Nobody, "unanswered")
    <3> HIDE DEF GivesWay
    <3> QED BY <1>6 DEF AckPostgres, Step, Holds, Matches
  <2>6. \A e \in Device \ {d} : jnote'[e] = jnote[e] /\ jpc'[e] = jpc[e] /\ jheld'[e] = jheld[e]
    BY <1>6 DEF AckPostgres, Step
  <2>7. \A k \in Note, u \in User, e \in Device : Holds(e, k, u) => Holds(e, k, u)'
    BY <1>b, <2>1, <2>6
  <2> HIDE DEF Holds, Ended, GivesWay
  <2> QED BY <1>0, <2>1, <2>2, <2>4, <2>5, <2>7, KeptSteps
<1>7. ASSUME NEW n \in Note, NEW d \in Device, AckRedis(d, n) PROVE Kept'
  <2>1. UNCHANGED <<owed, confirmed, lost, pending>> /\ jpc[d] = "idle"
    BY <1>7 DEF AckRedis, Ask, Refuse
  <2>2. \A e \in Device \ {d} : jnote'[e] = jnote[e] /\ jpc'[e] = jpc[e] /\ jheld'[e] = jheld[e]
    BY <1>7 DEF AckRedis, Step
  <2>3. \A k \in Note, u \in User, e \in Device : Holds(e, k, u) => Holds(e, k, u)'
    BY <1>b, <2>1, <2>2
  <2> HIDE DEF Holds, Ended
  <2> QED BY <1>0, <2>1, <2>3, KeptSteps
<1>8. ASSUME NEW d \in Device, Restore(d) PROVE Kept'
  <2>1. PICK n \in Note : n = jnote[d]
    BY <1>8 DEF Restore
  <2>2. jheld[d] \in User /\ backend = "memory"
    BY <1>8 DEF Restore, Entitled, OneBackend
  <2>3. /\ UNCHANGED <<owed, confirmed>> /\ lost \subseteq lost'
        /\ pending'[n] = jheld[d] /\ \A k \in Note \ {n} : pending'[k] = pending[k]
    BY <1>8, <2>1 DEF Restore, Refuse, GivesWay
  <2>4. \A u \in User : pending[n] = u => u = jheld[d] \/ Ended(n, u)'
    BY <1>0, <1>8, <2>1, <2>2, WayGiven DEF Restore, Endings
  <2>5. \A e \in Device \ {d} : jnote'[e] = jnote[e] /\ jpc'[e] = jpc[e] /\ jheld'[e] = jheld[e]
    BY <1>8 DEF Restore, Step
  <2>6. \A k \in Note, u \in User, e \in Device :
            Holds(e, k, u) => Holds(e, k, u)' \/ (k = n /\ u = jheld[d])
    BY <1>8, <2>1, <2>5 DEF Holds, Restore
  <2> HIDE DEF Holds, Ended
  <2> QED BY <1>0, <2>1, <2>2, <2>3, <2>4, <2>6, KeptSteps
<1>9. ASSUME NEW d \in Device, DeleteRedis(d) PROVE Kept'
  <2>1. PICK n \in Note : n = jnote[d]
    BY <1>9 DEF DeleteRedis
  <2>2. backend = "redis" /\ "deleted" \in Endings[backend] /\ UserOf[d] \in User
    BY <1>9 DEF DeleteRedis, OneBackend, Endings
  <2>3. /\ UNCHANGED <<owed, confirmed>> /\ lost \subseteq lost'
        /\ \A k \in Note \ {n} : pending'[k] = pending[k]
    BY <1>9, <2>1 DEF DeleteRedis, GivesWay
  <2>4. pending'[n] = pending[n] \/ GivesWay(n, UserOf[d], "deleted")
    <3> HIDE DEF GivesWay
    <3> QED BY <1>9, <2>1 DEF DeleteRedis
  <2>5. \A u \in User : pending[n] = u => pending'[n] = u \/ u = UserOf[d] \/ Ended(n, u)'
    <3>1. GivesWay(n, UserOf[d], "deleted")
            => \A u \in User : pending[n] = u => u = UserOf[d] \/ Ended(n, u)'
      BY <1>0, <2>2, WayGiven
    <3> HIDE DEF Ended, GivesWay
    <3> QED BY <2>4, <3>1
  <2>6. \A e \in Device \ {d} : jnote'[e] = jnote[e] /\ jpc'[e] = jpc[e] /\ jheld'[e] = jheld[e]
    BY <1>9 DEF DeleteRedis, Step
  <2>7. \A k \in Note, u \in User, e \in Device : Holds(e, k, u) => Holds(e, k, u)'
    BY <1>9, <2>6 DEF Holds, DeleteRedis
  <2>8. Holds(d, n, UserOf[d])'
    BY <1>9, <2>1 DEF DeleteRedis, Step, Holds
  <2> HIDE DEF Holds, Ended
  <2> QED BY <1>0, <2>1, <2>2, <2>3, <2>5, <2>7, <2>8, KeptSteps
<1>10. ASSUME NEW d \in Device, Answer(d) PROVE Kept'
  <2>1. PICK n \in Note : n = jnote[d]
    BY <1>10 DEF Answer
  <2>2. UNCHANGED <<owed, pending, lost>> /\ confirmed \subseteq confirmed'
    BY <1>10 DEF Answer
  <2>3. Accepted(n, UserOf[d])'
    BY <1>10, <2>1 DEF Answer, Accepted, Devices
  <2>4. \A e \in Device \ {d} : jnote'[e] = jnote[e] /\ jpc'[e] = jpc[e] /\ jheld'[e] = jheld[e]
    BY <1>10 DEF Answer, Step
  <2>5. \A k \in Note, u \in User, e \in Device :
            Holds(e, k, u) => Holds(e, k, u)' \/ (k = n /\ u = UserOf[d])
    BY <1>10, <2>1, <2>4 DEF Holds, Answer
  <2> HIDE DEF Holds, Ended, Accepted
  <2> QED BY <1>0, <2>1, <2>2, <2>3, <2>5, KeptSteps
<1>11. CASE UNCHANGED vars
  BY <1>a, <1>11 DEF vars
<1> QED BY <1>1, <1>2, <1>3, <1>4, <1>5, <1>6, <1>7, <1>8, <1>9, <1>10, <1>11 DEF Next

(* What was written for a user stays pending for that user until the user's   *)
(* Ack is accepted, but for the ends that the backend has: an entry of        *)
(* another user in its place (insert, HSET, the re-insert after a refused     *)
(* Ack), the DEL of another user's Ack, the TTL, and the committed DELETE     *)
(* whose answer was lost.                                                     *)
THEOREM AckStaysPending == Spec => []StaysPending
<1>1. Init => OneBackend /\ Kept
  BY DEF Init, OneBackend, Kept
<1>2. AckInv /\ OneBackend /\ Kept /\ [Next]_vars => OneBackend' /\ Kept'
  BY NextOneBackend, NextKept
<1>3. AckInv /\ Kept => StaysPending
  <2> SUFFICES ASSUME AckInv, Kept, Quiet PROVE StaysPending
    BY DEF StaysPending
  <2>1. \A d \in Device : jpc[d] = "idle"
    BY DEF Quiet
  <2>2. \A d \in Device, n \in Note, u \in User : ~ Holds(d, n, u)
    BY <2>1 DEF Holds
  <2> QED BY <2>2 DEF Kept, StaysPending, Accepted, Ended
<1> QED BY <1>1, <1>2, <1>3, AckInvariance, PTL DEF Spec

----------------------------------------------------------------------------
(* One entry, one accepted Ack *)

(* The handlers that have taken the entry of n out of the map. *)
Claims(n) == {d \in Device : jpc[d] \in {"restore", "answer"} /\ jnote[d] = n}

Entry(n) == IF pending[n] = Nobody THEN 0 ELSE 1

(* Where reading an entry removes it, every stored entry is in one place at   *)
(* most: in the map, with one handler, or confirmed.                          *)
Counted ==
    backend # "redis" =>
        /\ \A d \in Device : jpc[d] # "delete"
        /\ \A n \in Note : /\ IsFiniteSet(Claims(n))
                           /\ Cardinality(Claims(n)) + Entry(n) + confirmations[n] <= stored[n]

(* A handler that takes or gives up an entry changes the claims on it by one. *)
LEMMA ClaimsChange ==
    ASSUME NEW S, NEW d, IsFiniteSet(S)
    PROVE  /\ Cardinality(S) \in Nat
           /\ IsFiniteSet(S \cup {d}) /\ Cardinality(S \cup {d}) <= Cardinality(S) + 1
           /\ IsFiniteSet(S \ {d})
           /\ d \in S => Cardinality(S \ {d}) = Cardinality(S) - 1
<1>1. Cardinality(S) \in Nat
  BY FS_CardinalityType
<1>2. /\ IsFiniteSet(S \cup {d})
      /\ Cardinality(S \cup {d}) = IF d \in S THEN Cardinality(S) ELSE Cardinality(S) + 1
  BY FS_AddElement
<1>3. /\ IsFiniteSet(S \ {d})
      /\ Cardinality(S \ {d}) = IF d \in S THEN Cardinality(S) - 1 ELSE Cardinality(S)
  BY FS_RemoveElement
<1> QED BY <1>1, <1>2, <1>3

(* A step may move an entry between the map, a handler and the count of       *)
(* confirmations; only a track adds one, and counts it.                       *)
LEMMA CountedMoves ==
    ASSUME AckInv, Counted, backend # "redis", NEW n \in Note,
           \/ /\ Claims(n)' = Claims(n)
              /\ Entry(n)' + confirmations'[n] - stored'[n]
                    <= Entry(n) + confirmations[n] - stored[n]
           \/ /\ \E d \in Device : Claims(n)' = Claims(n) \cup {d}
              /\ Entry(n)' + confirmations'[n] - stored'[n]
                    <= Entry(n) + confirmations[n] - stored[n] - 1
           \/ /\ \E d \in Claims(n) : Claims(n)' = Claims(n) \ {d}
              /\ Entry(n)' + confirmations'[n] - stored'[n]
                    <= Entry(n) + confirmations[n] - stored[n] + 1,
           Entry(n)' \in Nat, confirmations'[n] \in Nat, stored'[n] \in Nat
    PROVE  /\ IsFiniteSet(Claims(n)')
           /\ Cardinality(Claims(n)') + Entry(n)' + confirmations'[n] <= stored'[n]
<1>1. /\ IsFiniteSet(Claims(n)) /\ Entry(n) \in Nat
      /\ confirmations[n] \in Nat /\ stored[n] \in Nat
      /\ Cardinality(Claims(n)) + Entry(n) + confirmations[n] <= stored[n]
  BY DEF Counted, Entry, AckInv, TypeOK
<1>2. Cardinality(Claims(n)) \in Nat
  BY <1>1, ClaimsChange
<1>3. \A d : /\ IsFiniteSet(Claims(n) \cup {d}) /\ IsFiniteSet(Claims(n) \ {d})
             /\ Cardinality(Claims(n) \cup {d}) \in Nat /\ Cardinality(Claims(n) \ {d}) \in Nat
             /\ Cardinality(Claims(n) \cup {d}) <= Cardinality(Claims(n)) + 1
             /\ d \in Claims(n) => Cardinality(Claims(n) \ {d}) = Cardinality(Claims(n)) - 1
  BY <1>1, ClaimsChange
<1> HIDE DEF Claims, Entry
<1>4. CASE /\ Claims(n)' = Claims(n)
           /\ Entry(n)' + confirmations'[n] - stored'[n]
                 <= Entry(n) + confirmations[n] - stored[n]
  BY <1>1, <1>2, <1>4
<1>5. CASE /\ \E d \in Device : Claims(n)' = Claims(n) \cup {d}
           /\ Entry(n)' + confirmations'[n] - stored'[n]
                 <= Entry(n) + confirmations[n] - stored[n] - 1
  BY <1>1, <1>2, <1>3, <1>5
<1>6. CASE /\ \E d \in Claims(n) : Claims(n)' = Claims(n) \ {d}
           /\ Entry(n)' + confirmations'[n] - stored'[n]
                 <= Entry(n) + confirmations[n] - stored[n] + 1
  <2>1. PICK d \in Claims(n) : Claims(n)' = Claims(n) \ {d}
    BY <1>6
  <2>2. /\ IsFiniteSet(Claims(n)') /\ Cardinality(Claims(n)') \in Nat
        /\ Cardinality(Claims(n)') = Cardinality(Claims(n)) - 1
    BY <1>3, <2>1
  <2> QED BY <1>1, <1>2, <1>6, <2>2
<1> QED BY <1>4, <1>5, <1>6

\* Every step keeps the account of who was accepted how often.
LEMMA NextCounted ==
    ASSUME AckInv, AckInv', Counted, [Next]_vars
    PROVE  Counted'
<1> SUFFICES ASSUME backend' # "redis" PROVE Counted'
  BY DEF Counted
<1>0. backend' = backend /\ backend # "redis"
  BY DEF Next, vars, Send, Replay, Track, SetTtl, TtlPasses, AckMemory, Restore, AckPostgres,
         AckRedis, DeleteRedis, Answer
<1>a. /\ \A n \in Note : confirmations[n] \in Nat /\ stored[n] \in Nat
      /\ \A n \in Note : confirmations'[n] \in Nat /\ stored'[n] \in Nat
      /\ \A n \in Note : Entry(n) \in {0, 1} /\ Entry(n)' \in {0, 1}
      /\ \A d \in Device : jpc[d] # "delete"
  BY <1>0 DEF AckInv, TypeOK, Entry, Counted
<1> USE ConstantsOK DEF tracking, job, answers
<1>b. ASSUME \A d \in Device : jpc'[d] # "delete",
             NEW k \in Note,
             \A n \in Note \ {k} : /\ Claims(n)' = Claims(n) /\ Entry(n)' = Entry(n)
                                   /\ confirmations'[n] = confirmations[n] /\ stored'[n] = stored[n],
             \/ /\ Claims(k)' = Claims(k)
                /\ Entry(k)' + confirmations'[k] - stored'[k]
                      <= Entry(k) + confirmations[k] - stored[k]
             \/ /\ \E d \in Device : Claims(k)' = Claims(k) \cup {d}
                /\ Entry(k)' + confirmations'[k] - stored'[k]
                      <= Entry(k) + confirmations[k] - stored[k] - 1
             \/ /\ \E d \in Claims(k) : Claims(k)' = Claims(k) \ {d}
                /\ Entry(k)' + confirmations'[k] - stored'[k]
                      <= Entry(k) + confirmations[k] - stored[k] + 1
      PROVE  Counted'
  <2> HIDE DEF Claims, Entry
  <2>1. \A n \in Note : /\ IsFiniteSet(Claims(n)')
                        /\ Cardinality(Claims(n)') + Entry(n)' + confirmations'[n] <= stored'[n]
    <3> SUFFICES ASSUME NEW n \in Note
                 PROVE  /\ IsFiniteSet(Claims(n)')
                        /\ Cardinality(Claims(n)') + Entry(n)' + confirmations'[n] <= stored'[n]
      OBVIOUS
    <3>1. CASE n = k
      BY <1>0, <1>a, <1>b, <3>1, CountedMoves
    <3>2. CASE n # k
      <4>1. Entry(n)' + confirmations'[n] - stored'[n] <= Entry(n) + confirmations[n] - stored[n]
        BY <1>a, <1>b, <3>2
      <4> QED BY <1>0, <1>a, <1>b, <3>2, <4>1, CountedMoves
    <3> QED BY <3>1, <3>2
  <2> QED BY <1>b, <2>1 DEF Counted
<1>c. ASSUME UNCHANGED <<jpc, jnote, stored, confirmations>>,
             \A n \in Note : pending'[n] = pending[n] \/ pending'[n] = Nobody
      PROVE  Counted'
  <2>1. \A n \in Note : Claims(n)' = Claims(n) /\ Entry(n)' <= Entry(n)
    BY <1>c DEF Claims, Entry
  <2>2. \A n \in Note : IsFiniteSet(Claims(n)) /\ Cardinality(Claims(n)) \in Nat
    BY <1>0, FS_CardinalityType DEF Counted
  <2>3. \A n \in Note : Cardinality(Claims(n)') + Entry(n)' + confirmations'[n] <= stored'[n]
    <3> HIDE DEF Claims, Entry
    <3> QED BY <1>c, <1>0, <1>a, <2>1, <2>2 DEF Counted
  <2> QED BY <1>c, <1>a, <2>1, <2>2, <2>3 DEF Counted
<1>1. ASSUME NEW n \in Note, NEW d \in Device, Send(n, d) \/ Replay(n, d) PROVE Counted'
  BY <1>1, <1>c DEF Send, Replay
<1>2. ASSUME NEW n \in Note, NEW d \in Device, Track(n, d) PROVE Counted'
  <2>1. UNCHANGED <<jpc, jnote, confirmations>>
    BY <1>2 DEF Track
  <2>2. \A k \in Note \ {n} : pending'[k] = pending[k] /\ stored'[k] = stored[k]
    BY <1>2 DEF Track, AckInv, TypeOK
  <2>3. (pending'[n] = pending[n] /\ stored'[n] = stored[n]) \/ stored'[n] = stored[n] + 1
    BY <1>2 DEF Track, Written, Conflict, AckInv, TypeOK
  <2>4. \A k \in Note : Claims(k)' = Claims(k)
    BY <2>1 DEF Claims
  <2>5. \A k \in Note \ {n} : Entry(k)' = Entry(k)
    BY <2>2 DEF Entry
  <2>6. Entry(n)' - stored'[n] <= Entry(n) - stored[n]
    BY <1>a, <2>3 DEF Entry
  <2> HIDE DEF Claims, Entry
  <2>7. Entry(n)' + confirmations'[n] - stored'[n] <= Entry(n) + confirmations[n] - stored[n]
    BY <1>a, <2>1, <2>6
  <2> QED BY <1>a, <1>b, <2>1, <2>2, <2>4, <2>5, <2>7
<1>3. ASSUME NEW n \in Note, SetTtl(n) \/ TtlPasses(n) PROVE Counted'
  BY <1>3, <1>c DEF SetTtl, TtlPasses, AckInv, TypeOK
<1>4. ASSUME NEW n \in Note, NEW d \in Device, AckMemory(d, n) \/ AckPostgres(d, n)
      PROVE  Counted'
  <2>1. UNCHANGED <<stored, confirmations>> /\ jpc[d] = "idle"
    BY <1>4 DEF AckMemory, AckPostgres, Ask, Refuse
  <2>2. \A k \in Note \ {n} : pending'[k] = pending[k]
    BY <1>4 DEF AckMemory, AckPostgres, AckInv, TypeOK
  <2>3. \A e \in Device \ {d} : jnote'[e] = jnote[e] /\ jpc'[e] = jpc[e]
    BY <1>4 DEF AckMemory, AckPostgres, Step, AckInv, TypeOK
  <2>4. \/ /\ pending'[n] = pending[n] /\ jnote'[d] = jnote[d] /\ jpc'[d] = jpc[d]
        \/ /\ pending[n] # Nobody /\ pending'[n] = Nobody
           /\ jnote'[d] = n /\ jpc'[d] \in {"restore", "answer"}
        \/ /\ pending'[n] = Nobody /\ jnote'[d] = jnote[d] /\ jpc'[d] = jpc[d]
    BY <1>4 DEF AckMemory, AckPostgres, Step, Matches, AckInv, TypeOK
  <2>5. \A k \in Note \ {n} : Claims(k)' = Claims(k) /\ Entry(k)' = Entry(k)
    BY <2>1, <2>2, <2>3, <2>4 DEF Claims, Entry
  <2>6. \A e \in Device : jpc'[e] # "delete"
    BY <1>a, <2>3, <2>4
  <2>7. \/ Claims(n)' = Claims(n) /\ Entry(n)' <= Entry(n)
        \/ Claims(n)' = Claims(n) \cup {d} /\ Entry(n)' = Entry(n) - 1
    BY <2>1, <2>3, <2>4 DEF Claims, Entry
  <2> HIDE DEF Claims, Entry
  <2>8. \/ /\ Claims(n)' = Claims(n)
           /\ Entry(n)' + confirmations'[n] - stored'[n]
                 <= Entry(n) + confirmations[n] - stored[n]
        \/ /\ Claims(n)' = Claims(n) \cup {d}
           /\ Entry(n)' + confirmations'[n] - stored'[n]
                 <= Entry(n) + confirmations[n] - stored[n] - 1
    BY <1>a, <2>1, <2>7
  <2> QED BY <1>b, <2>1, <2>5, <2>6, <2>8
<1>5. ASSUME NEW d \in Device, Restore(d) \/ Answer(d) PROVE Counted'
  <2>0. jnote[d] \in Note /\ jpc[d] \in {"restore", "answer"}
    BY <1>5 DEF Restore, Answer, AckInv, TypeOK
  <2>1. PICK n \in Note : n = jnote[d]
    BY <2>0
  <2>2. \A e \in Device \ {d} : jnote'[e] = jnote[e] /\ jpc'[e] = jpc[e]
    BY <1>5 DEF Restore, Answer, Step, AckInv, TypeOK
  <2>3. jpc'[d] = "idle" /\ stored' = stored
    BY <1>5 DEF Restore, Answer, Step, AckInv, TypeOK
  <2>4. \A k \in Note \ {n} : pending'[k] = pending[k] /\ confirmations'[k] = confirmations[k]
    BY <1>5, <2>1 DEF Restore, Answer, Refuse, AckInv, TypeOK
  <2>5. \/ confirmations'[n] = confirmations[n]
        \/ confirmations'[n] = confirmations[n] + 1 /\ pending'[n] = pending[n]
    <3>1. CASE Restore(d)
      BY <3>1 DEF Restore, Refuse
    <3>2. CASE Answer(d)
      BY <2>1, <3>2 DEF Answer, AckInv, TypeOK
    <3> QED BY <1>5, <3>1, <3>2
  <2>6. \A k \in Note \ {n} : Claims(k)' = Claims(k) /\ Entry(k)' = Entry(k)
    BY <2>0, <2>1, <2>2, <2>3, <2>4 DEF Claims, Entry
  <2>7. d \in Claims(n) /\ Claims(n)' = Claims(n) \ {d}
    BY <2>0, <2>1, <2>2, <2>3 DEF Claims
  <2>8. confirmations'[n] = confirmations[n]
        \/ (confirmations'[n] = confirmations[n] + 1 /\ Entry(n)' = Entry(n))
    BY <2>5 DEF Entry
  <2> HIDE DEF Claims, Entry
  <2>9. Entry(n)' + confirmations'[n] - stored'[n] <= Entry(n) + confirmations[n] - stored[n] + 1
    BY <1>a, <2>1, <2>3, <2>8
  <2>10. \A e \in Device : jpc'[e] # "delete"
    BY <1>a, <2>2, <2>3
  <2> QED BY <1>b, <2>1, <2>3, <2>4, <2>6, <2>7, <2>9, <2>10
<1>6. ASSUME NEW n \in Note, NEW d \in Device, AckRedis(d, n) PROVE Counted'
  BY <1>0, <1>6 DEF AckRedis
<1>7. ASSUME NEW d \in Device, DeleteRedis(d) PROVE Counted'
  BY <1>a, <1>7 DEF DeleteRedis
<1>8. CASE UNCHANGED vars
  BY <1>8, <1>c DEF vars
<1> QED BY <1>1, <1>2, <1>3, <1>4, <1>5, <1>6, <1>7, <1>8 DEF Next

(* The memory and the PostgreSQL backend accept no more Acks than entries     *)
(* were stored, for any number of devices that acknowledge at once.           *)
THEOREM AckAcceptedOnce == Spec => []AcceptedOnce
<1>1. Init => Counted
  <2> SUFFICES ASSUME Init PROVE Counted
    OBVIOUS
  <2>1. \A n \in Note : Claims(n) = {} /\ Entry(n) = 0
    BY DEF Init, Claims, Entry
  <2>2. IsFiniteSet({}) /\ Cardinality({}) = 0
    BY FS_EmptySet
  <2> QED BY <2>1, <2>2 DEF Init, Counted
<1>2. AckInv /\ AckInv' /\ Counted /\ [Next]_vars => Counted'
  BY NextCounted
<1>3. AckInv /\ Counted => AcceptedOnce
  <2> SUFFICES ASSUME AckInv, Counted, backend # "redis", NEW n \in Note
               PROVE  confirmations[n] <= stored[n]
    BY DEF AcceptedOnce
  <2>1. Cardinality(Claims(n)) \in Nat
    BY FS_CardinalityType DEF Counted
  <2> QED BY <2>1 DEF Counted, Entry, AckInv, TypeOK
<1> QED BY <1>1, <1>2, <1>3, AckInvariance, PTL DEF Spec
=============================================================================

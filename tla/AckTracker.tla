----------------------------- MODULE AckTracker -----------------------------
(***************************************************************************)
(* Client acknowledgements: the dispatcher tracks a notification after it  *)
(* sent it to a device, the WebSocket handler of a device answers the      *)
(* client's Ack with "acked" or INVALID_ACK. The three backends (DashMap,  *)
(* Redis, PostgreSQL) keep one pending entry per notification, whoever it  *)
(* was sent to, and differ in what is atomic.                              *)
(*                                                                         *)
(* cleanup_expired has no caller in the program and is left out, and with  *)
(* it the timeout set of the Redis backend, which only it and a statistic  *)
(* read. A dispatch awaits every track, so the tracks of one notification  *)
(* follow one another; those of different notifications interleave.        *)
(***************************************************************************)
EXTENDS Integers

CONSTANTS
    Note, User, Device,
    UserOf,        \* the user of a device
    Backends,      \* the values of ACK_BACKEND under consideration
    Nobody, NoNote,
    MaxAcks        \* bound: Ack messages of one device

ASSUME ConstantsOK ==
    /\ UserOf \in [Device -> User]
    /\ Nobody \notin User /\ NoNote \notin Note
    /\ Backends \subseteq {"memory", "redis", "postgres"}
    /\ MaxAcks \in Nat

VARIABLES
    backend,     \* chosen by create_ack_backend at start-up
    pending,     \* pending[n]: the user n is pending for, or Nobody
    mortal,      \* the notifications whose Redis entry has a TTL
    sent,        \* the <<n, d>> that reached a device
    replayed,    \* the ones among them that came from the offline queue
    untracked,   \* the <<n, d>> sent by the dispatcher and not yet tracked
    tpc,         \* tpc[n]: where the track of n stands
    jpc, jnote, jheld, \* the handler of a device: its step, the Ack, the entry removed
    asked,       \* asked[d]: Ack messages d sent
    confirmed, refused, \* the <<n, d>> answered "acked" and INVALID_ACK
    stored, confirmations, \* history: entries written and Acks accepted, by n
    owed,        \* history: the <<n, u>> an entry was written for
    lost         \* history: the <<n, u, c>> whose entry ended by c, unconfirmed

tracking == <<sent, replayed, untracked, tpc, stored, owed>>
job      == <<jpc, jnote, jheld>>
answers  == <<confirmed, refused, confirmations>>
vars == <<backend, pending, mortal, sent, replayed, untracked, tpc, jpc, jnote, jheld, asked,
          confirmed, refused, stored, confirmations, owed, lost>>

\* How an entry ends without an accepted Ack of its user.
Cause == {"overwritten", "deleted", "expired", "unanswered"}

TypeOK ==
    /\ backend \in Backends
    /\ pending \in [Note -> User \cup {Nobody}]
    /\ mortal \subseteq Note
    /\ owed \subseteq Note \X User /\ lost \subseteq Note \X User \X Cause
    /\ untracked \subseteq sent /\ replayed \subseteq sent /\ sent \subseteq Note \X Device
    /\ tpc \in [Note -> {"idle", "ttl"}]
    /\ jpc \in [Device -> {"idle", "restore", "delete", "answer"}]
    /\ jnote \in [Device -> Note \cup {NoNote}]
    /\ \A d \in Device : jpc[d] # "idle" => jnote[d] \in Note
    /\ jheld \in [Device -> User \cup {Nobody}]
    /\ asked \in [Device -> 0..MaxAcks]
    /\ confirmed \subseteq Note \X Device /\ refused \subseteq Note \X Device
    /\ stored \in [Note -> Nat] /\ confirmations \in [Note -> Nat]

Init ==
    /\ backend \in Backends
    /\ pending = [n \in Note |-> Nobody]
    /\ mortal = {} /\ owed = {} /\ lost = {} /\ sent = {} /\ replayed = {} /\ untracked = {}
    /\ tpc = [n \in Note |-> "idle"]
    /\ jpc = [d \in Device |-> "idle"]
    /\ jnote = [d \in Device |-> NoNote]
    /\ jheld = [d \in Device |-> Nobody]
    /\ asked = [d \in Device |-> 0]
    /\ confirmed = {} /\ refused = {}
    /\ stored = [n \in Note |-> 0]
    /\ confirmations = [n \in Note |-> 0]

----------------------------------------------------------------------------
(* Delivery and track                                                      *)

Devices(u) == {d \in Device : UserOf[d] = u}

\* handle.send accepted n: the client may answer before the dispatcher tracks.
\* A user whom the dispatcher found offline gets n from the queue instead.
Send(n, d) ==
    /\ <<n, d>> \notin sent
    /\ \A e \in Devices(UserOf[d]) : <<n, e>> \notin replayed
    /\ sent' = sent \cup {<<n, d>>}
    /\ untracked' = untracked \cup {<<n, d>>}
    /\ UNCHANGED <<backend, pending, mortal, replayed, tpc, stored, owed, job, asked,
                   answers, lost>>

\* The handler of d replays the queue of its user; it tracks nothing.
Replay(n, d) ==
    /\ \A e \in Devices(UserOf[d]) : <<n, e>> \notin sent
    /\ sent' = sent \cup {<<n, d>>}
    /\ replayed' = replayed \cup {<<n, d>>}
    /\ UNCHANGED <<backend, pending, mortal, untracked, tpc, stored, owed, job, asked,
                   answers, lost>>

Conflict(n) == backend = "postgres" /\ pending[n] # Nobody

\* Fault: the connection is stored in place of the user.
WrittenDevice(n, d) == d

\* insert and HSET overwrite the entry of n; the row of n is inserted
\* ON CONFLICT DO NOTHING.
Written(n, d) == IF Conflict(n) THEN pending[n] ELSE UserOf[d]

\* Records that the entry of n gives way to that of u (or to none).
GivesWay(n, u, cause) ==
    lost' = IF pending[n] \in {u, Nobody} THEN lost ELSE lost \cup {<<n, pending[n], cause>>}

\* A command to Redis or PostgreSQL may fail; track then gives up.
CanFail == backend # "memory"

Track(n, d) ==
    /\ tpc[n] = "idle" /\ <<n, d>> \in untracked
    /\ untracked' = untracked \ {<<n, d>>}
    /\ \/ /\ pending' = [pending EXCEPT ![n] = Written(n, d)]
          /\ stored' = [stored EXCEPT ![n] = IF Conflict(n) THEN @ ELSE @ + 1]
          /\ owed' = owed \cup {<<n, Written(n, d)>>}
          /\ GivesWay(n, Written(n, d), "overwritten")
          /\ tpc' = [tpc EXCEPT ![n] = IF backend = "redis" THEN "ttl" ELSE "idle"]
       \/ CanFail /\ UNCHANGED <<pending, stored, owed, lost, tpc>>
    /\ UNCHANGED <<backend, mortal, sent, replayed, job, asked, answers>>

\* EXPIRE: it may fail, and does nothing to an entry that is gone.
SetTtl(n) ==
    /\ tpc[n] = "ttl"
    /\ tpc' = [tpc EXCEPT ![n] = "idle"]
    /\ mortal' \in {mortal, IF pending[n] = Nobody THEN mortal ELSE mortal \cup {n}}
    /\ UNCHANGED <<backend, pending, sent, replayed, untracked, stored, owed, job, asked,
                   answers, lost>>

TtlPasses(n) ==
    /\ n \in mortal
    /\ pending' = [pending EXCEPT ![n] = Nobody]
    /\ mortal' = mortal \ {n}
    /\ GivesWay(n, Nobody, "expired")
    /\ UNCHANGED <<backend, tracking, job, asked, answers>>

----------------------------------------------------------------------------
(* acknowledge, executed by the receive task of device d                   *)

Step(d, n, label) ==
    /\ jpc' = [jpc EXCEPT ![d] = label]
    /\ jnote' = [jnote EXCEPT ![d] = n]

Ask(d) ==
    /\ jpc[d] = "idle" /\ asked[d] < MaxAcks
    /\ asked' = [asked EXCEPT ![d] = @ + 1]

Refuse(d, n) ==
    /\ refused' = refused \cup {<<n, d>>}
    /\ UNCHANGED <<confirmed, confirmations>>

\* Fault: the entry is handed out to whoever asks.
MatchesAnybody(n, d) == pending[n] # Nobody

\* The Ack is for a pending notification of the device's user.
Matches(n, d) == pending[n] = UserOf[d]

\* Fault: the user is checked on a copy of the entry, which is left in place.
AckMemoryByReading(d, n) ==
    /\ backend = "memory" /\ Ask(d)
    /\ IF Matches(n, d)
       THEN Step(d, n, "answer") /\ UNCHANGED answers
       ELSE Refuse(d, n) /\ UNCHANGED <<jpc, jnote>>
    /\ UNCHANGED <<backend, pending, mortal, tracking, jheld, lost>>

\* The entry is removed first, and put back when it is another user's.
AckMemory(d, n) ==
    /\ backend = "memory" /\ Ask(d)
    /\ pending' = [pending EXCEPT ![n] = Nobody]
    /\ \/ /\ pending[n] = Nobody
          /\ Refuse(d, n)
          /\ UNCHANGED job
       \/ /\ Matches(n, d)
          /\ Step(d, n, "answer")
          /\ UNCHANGED <<jheld, answers>>
       \/ /\ pending[n] # Nobody /\ ~ Matches(n, d)
          /\ Step(d, n, "restore")
          /\ jheld' = [jheld EXCEPT ![d] = pending[n]]
          /\ UNCHANGED answers
    /\ UNCHANGED <<backend, mortal, tracking, lost>>

\* Fault: the entry of the other user is not put back.
RestoreNothing(d) ==
    /\ jpc[d] = "restore"
    /\ jheld' = [jheld EXCEPT ![d] = Nobody]
    /\ Step(d, NoNote, "idle")
    /\ Refuse(d, jnote[d])
    /\ UNCHANGED <<backend, pending, mortal, tracking, asked, lost>>

\* The re-insert replaces what was tracked since the remove.
Restore(d) ==
    /\ jpc[d] = "restore"
    /\ pending' = [pending EXCEPT ![jnote[d]] = jheld[d]]
    /\ jheld' = [jheld EXCEPT ![d] = Nobody]
    /\ Step(d, NoNote, "idle")
    /\ GivesWay(jnote[d], jheld[d], "overwritten")
    /\ Refuse(d, jnote[d])
    /\ UNCHANGED <<backend, mortal, tracking, asked>>

\* DELETE ... WHERE user_id = $2 RETURNING: one statement. An error, also one that
\* hides a committed DELETE, counts as "no such row".
AckPostgres(d, n) ==
    /\ backend = "postgres" /\ Ask(d)
    /\ \/ /\ Matches(n, d)
          /\ pending' = [pending EXCEPT ![n] = Nobody]
          /\ Step(d, n, "answer")
          /\ UNCHANGED <<jheld, answers>>
          /\ UNCHANGED lost
       \/ Refuse(d, n) /\ UNCHANGED <<pending, job, lost>>
       \/ /\ Matches(n, d)
          /\ pending' = [pending EXCEPT ![n] = Nobody]
          /\ GivesWay(n, Nobody, "unanswered")
          /\ Refuse(d, n)
          /\ UNCHANGED job
    /\ UNCHANGED <<backend, mortal, tracking>>

\* HGET, which may fail; nothing is deleted before the user has been compared.
AckRedis(d, n) ==
    /\ backend = "redis" /\ Ask(d)
    /\ \/ /\ Matches(n, d)
          /\ Step(d, n, "delete")
          /\ UNCHANGED <<jheld, answers>>
       \/ Refuse(d, n) /\ UNCHANGED job
    /\ UNCHANGED <<backend, pending, mortal, tracking, lost>>

\* DEL takes the entry, whoever's it is by now; a failure is ignored.
DeleteRedis(d) ==
    /\ jpc[d] = "delete"
    /\ Step(d, jnote[d], "answer")
    /\ \/ /\ pending' = [pending EXCEPT ![jnote[d]] = Nobody]
          /\ mortal' = mortal \ {jnote[d]}
          /\ GivesWay(jnote[d], UserOf[d], "deleted")
       \/ UNCHANGED <<pending, mortal, lost>>
    /\ UNCHANGED <<backend, tracking, jheld, asked, answers>>

Answer(d) ==
    /\ jpc[d] = "answer"
    /\ Step(d, NoNote, "idle")
    /\ confirmed' = confirmed \cup {<<jnote[d], d>>}
    /\ confirmations' = [confirmations EXCEPT ![jnote[d]] = @ + 1]
    /\ UNCHANGED <<backend, pending, mortal, tracking, jheld, asked, refused, lost>>

----------------------------------------------------------------------------
Next ==
    \/ \E n \in Note : SetTtl(n) \/ TtlPasses(n)
    \/ \E d \in Device : Restore(d) \/ DeleteRedis(d) \/ Answer(d)
    \/ \E n \in Note, d \in Device :
          \/ Send(n, d) \/ Replay(n, d) \/ Track(n, d)
          \/ AckMemory(d, n) \/ AckPostgres(d, n) \/ AckRedis(d, n)

Spec == Init /\ [][Next]_vars
----------------------------------------------------------------------------
(* Properties                                                              *)

Addressed(n, u) == \E e \in Devices(u) : <<n, e>> \in sent

\* "ACK only valid from the user who received the notification": whoever is told
\* "acked" belongs to a user one of whose devices had been sent the notification
\* by then, although the entry is shared by all users, removed, put back and
\* overwritten.
OnlyAddressee ==
    \A n \in Note, d \in Device : <<n, d>> \in confirmed => Addressed(n, UserOf[d])

\* The memory and PostgreSQL backends accept no more Acks than they stored
\* entries, also when two devices acknowledge at once (the Redis backend reads and
\* deletes in two commands and may accept one entry twice).
AcceptedOnce ==
    backend # "redis" => \A n \in Note : confirmations[n] <= stored[n]

Quiet == tpc = [n \in Note |-> "idle"] /\ jpc = [d \in Device |-> "idle"]

\* The ways in which each backend may end an entry that nobody acknowledged.
Endings == [memory |-> {"overwritten"}, redis |-> {"overwritten", "deleted", "expired"},
            postgres |-> {"unanswered"}]

\* An entry written for a user stays pending for that user until an Ack of that
\* user is accepted, whatever other users acknowledge in between, with the
\* exceptions of each backend: in memory and in Redis the entry of another user may
\* take its place, also by the re-insert after a refused Ack; in Redis the DEL of
\* another user's Ack or the TTL may take it; in PostgreSQL only a DELETE that was
\* committed and whose answer was lost.
StaysPending ==
    Quiet => \A n \in Note, u \in User : <<n, u>> \in owed =>
        \/ pending[n] = u
        \/ \E d \in Devices(u) : <<n, d>> \in confirmed
        \/ \E c \in Endings[backend] : <<n, u, c>> \in lost

\* The inductive invariant behind OnlyAddressee: every entry, also one that a
\* handler took out or is about to delete, names a user the notification was sent to.
Entitled ==
    /\ \A n \in Note : pending[n] # Nobody => Addressed(n, pending[n])
    /\ \A d \in Device :
          /\ jpc[d] = "restore" => jheld[d] \in User /\ Addressed(jnote[d], jheld[d])
          /\ jpc[d] \in {"delete", "answer"} => Addressed(jnote[d], UserOf[d])

----------------------------------------------------------------------------
(* What the changelog says and the code refutes                            *)

\* "Server responds with acked on valid ACK": a device that was sent the
\* notification is refused only after a device of its user was confirmed.
ValidAckConfirmed ==
    \A n \in Note, d \in Device : <<n, d>> \in refused \cap sent =>
        \E e \in Devices(UserOf[d]) : <<n, e>> \in confirmed
=============================================================================

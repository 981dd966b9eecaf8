------------------------ MODULE QueueBackends_proofs ------------------------
(***************************************************************************)
(* The offline queue of a user on the three backends, for any messages,    *)
(* drains and limits: nothing is returned twice but by Redis drains that   *)
(* overlap, every loss has one of the known reasons, and the limit is      *)
(* exceeded only by overlapping statements of PostgreSQL.                  *)
(***************************************************************************)
EXTENDS QueueBackends, FiniteSetTheorems, SequenceTheorems, TLAPS

USE QueueConstants

----------------------------------------------------------------------------
(* Numbers, finite sets and the log                                        *)

\* A set of numbers has a least one.
LEMMA LeastNat ==
    ASSUME NEW T \in SUBSET Nat, T # {}
    PROVE  \E x \in T : \A y \in T : x <= y
<1>1. \E x \in T : \A y \in T : ~ (<<y, x>> \in OpToRel(<, Nat))
  BY NatLessThanWellFounded, WFMin
<1>2. \A x, y \in Nat : y < x => <<y, x>> \in OpToRel(<, Nat)
  BY DEF OpToRel
<1>3. \A x, y \in T : y < x \/ x <= y
  OBVIOUS
<1>4. \A x, y \in T : <<y, x>> \in OpToRel(<, Nat) \/ x <= y
  BY <1>2, <1>3
<1> QED BY <1>1, <1>4

\* Finite sets and their sizes: unions, one element more or less, subsets.
LEMMA SizeOfUnion ==
    ASSUME NEW S, NEW T, IsFiniteSet(S), IsFiniteSet(T)
    PROVE  /\ IsFiniteSet(S \cup T) /\ Cardinality(S \cup T) \in Nat
           /\ Cardinality(S) \in Nat /\ Cardinality(T) \in Nat
           /\ Cardinality(S \cup T) <= Cardinality(S) + Cardinality(T)
<1>1. IsFiniteSet(S \cup T) /\ Cardinality(S \cup T) = Cardinality(S) + Cardinality(T) - Cardinality(S \cap T)
  BY FS_Union
<1>2. IsFiniteSet(S \cap T)
  BY FS_Intersection
<1>3. Cardinality(S \cap T) \in Nat
  BY <1>2, FS_CardinalityType
<1>4. Cardinality(S \cup T) \in Nat
  BY <1>1, FS_CardinalityType
<1>5. Cardinality(S) \in Nat
  BY FS_CardinalityType
<1>6. Cardinality(T) \in Nat
  BY FS_CardinalityType
<1> QED BY <1>1, <1>3, <1>4, <1>5, <1>6

\* A part of a finite set is finite and no larger.
LEMMA SizeOfSubset ==
    ASSUME NEW S, NEW T, IsFiniteSet(T), S \subseteq T
    PROVE  /\ IsFiniteSet(S) /\ Cardinality(S) \in Nat /\ Cardinality(T) \in Nat
           /\ Cardinality(S) <= Cardinality(T)
<1>1. IsFiniteSet(S) /\ Cardinality(S) <= Cardinality(T)
  BY FS_Subset
<1> QED BY <1>1, FS_CardinalityType

\* A new element makes a finite set larger by one.
LEMMA SizeWithOne ==
    ASSUME NEW S, NEW x, IsFiniteSet(S)
    PROVE  /\ IsFiniteSet(S \cup {x}) /\ Cardinality(S) \in Nat
           /\ Cardinality(S \cup {x}) \in Nat
           /\ Cardinality(S \cup {x}) <= Cardinality(S) + 1
           /\ x \notin S => Cardinality(S \cup {x}) = Cardinality(S) + 1
<1>1. /\ IsFiniteSet(S \cup {x})
      /\ Cardinality(S \cup {x}) = IF x \in S THEN Cardinality(S) ELSE Cardinality(S) + 1
  BY FS_AddElement
<1>2. Cardinality(S) \in Nat
  BY FS_CardinalityType
<1> QED BY <1>1, <1>2

\* A removed element makes a finite set smaller by one.
LEMMA SizeWithoutOne ==
    ASSUME NEW S, NEW x \in S, IsFiniteSet(S)
    PROVE  /\ IsFiniteSet(S \ {x}) /\ Cardinality(S) \in Nat
           /\ Cardinality(S \ {x}) \in Nat /\ Cardinality(S \ {x}) = Cardinality(S) - 1
<1>1. S \ {x} \subseteq S
  OBVIOUS
<1>2. IsFiniteSet(S \ {x}) /\ Cardinality(S \ {x}) \in Nat /\ Cardinality(S) \in Nat
  BY <1>1, SizeOfSubset
<1>3. x \notin S \ {x} /\ (S \ {x}) \cup {x} = S
  OBVIOUS
<1>4. Cardinality((S \ {x}) \cup {x}) = Cardinality(S \ {x}) + 1
  BY <1>2, <1>3, SizeWithOne
<1>5. Cardinality(S) = Cardinality(S \ {x}) + 1
  BY <1>3, <1>4, Zenon
<1> QED BY <1>2, <1>5

\* A log holds finitely many messages.
LEMMA RangeFinite ==
    ASSUME NEW s \in Seq(Msg)
    PROVE  IsFiniteSet(Range(s)) /\ Range(s) \subseteq Msg
<1>1. s \in Surjection(1..Len(s), Range(s)) /\ Range(s) \subseteq Msg
  BY DEF Surjection, Range
<1>2. IsFiniteSet(1..Len(s))
  BY FS_Interval
<1> QED BY <1>1, <1>2, FS_Surjection

\* A message that was not in the log can be appended to it.
LEMMA RangeAppended ==
    ASSUME NEW s \in Seq(Msg), NEW m \in Msg
    PROVE  /\ Append(s, m) \in Seq(Msg) /\ Range(Append(s, m)) = Range(s) \cup {m}
           /\ IsInjective(s) /\ m \notin Range(s) => IsInjective(Append(s, m))
<1>1. Len(Append(s, m)) = Len(s) + 1 /\ DOMAIN Append(s, m) = 1..Len(s) + 1
  OBVIOUS
<1>2. \A i \in 1..Len(s) : Append(s, m)[i] = s[i]
  OBVIOUS
<1>3. Append(s, m)[Len(s) + 1] = m
  OBVIOUS
<1>4. DOMAIN s = 1..Len(s) /\ Append(s, m) \in Seq(Msg)
  OBVIOUS
<1>5. Range(Append(s, m)) \subseteq Range(s) \cup {m}
  BY <1>1, <1>2, <1>3, <1>4 DEF Range
<1>6. Range(s) \cup {m} \subseteq Range(Append(s, m))
  <2>1. m \in Range(Append(s, m))
    BY <1>1, <1>3 DEF Range
  <2>2. \A i \in 1..Len(s) : s[i] \in Range(Append(s, m))
    BY <1>1, <1>2 DEF Range
  <2> QED BY <1>4, <2>1, <2>2 DEF Range
<1>7. IsInjective(s) /\ m \notin Range(s) => IsInjective(Append(s, m))
  <2> SUFFICES ASSUME IsInjective(s), m \notin Range(s),
                      NEW i \in DOMAIN Append(s, m), NEW j \in DOMAIN Append(s, m),
                      Append(s, m)[i] = Append(s, m)[j]
               PROVE  i = j
    BY DEF IsInjective
  <2>1. \A k \in 1..Len(s) : s[k] # m
    BY <1>4 DEF Range
  <2>2. i \in 1..Len(s) \/ i = Len(s) + 1
    BY <1>1
  <2>3. j \in 1..Len(s) \/ j = Len(s) + 1
    BY <1>1
  <2> QED BY <1>2, <1>3, <1>4, <2>1, <2>2, <2>3 DEF IsInjective
<1> QED BY <1>4, <1>5, <1>6, <1>7

\* The log orders its messages.
LEMMA OlderTotal ==
    ASSUME log \in Seq(Msg), NEW x \in Range(log), NEW y \in Range(log), x # y
    PROVE  Older(x, y) \/ Older(y, x)
<1>1. PICK i \in DOMAIN log : log[i] = x
  BY DEF Range
<1>2. PICK j \in DOMAIN log : log[j] = y
  BY DEF Range
<1>3. i < j \/ j < i
  BY <1>1, <1>2
<1> QED BY <1>1, <1>2, <1>3 DEF Older

\* An appended message is younger than all others, whose order stays.
LEMMA OlderAppended ==
    ASSUME log \in Seq(Msg), NEW m \in Msg, log' = Append(log, m)
    PROVE  /\ \A x, y : Older(x, y) => Older(x, y)'
           /\ \A x \in Range(log) : Older(x, m)'
<1>1. /\ DOMAIN log = 1..Len(log) /\ DOMAIN log' = 1..Len(log) + 1 /\ Len(log) \in Nat
      /\ \A i \in 1..Len(log) : log'[i] = log[i]
      /\ log'[Len(log) + 1] = m
  OBVIOUS
<1>2. ASSUME NEW x, NEW y, Older(x, y) PROVE Older(x, y)'
  <2>1. PICK i, j \in DOMAIN log : i < j /\ log[i] = x /\ log[j] = y
    BY <1>2 DEF Older
  <2>2. i \in DOMAIN log' /\ j \in DOMAIN log' /\ log'[i] = x /\ log'[j] = y
    BY <1>1, <2>1
  <2> QED BY <2>1, <2>2 DEF Older
<1>3. ASSUME NEW x \in Range(log) PROVE Older(x, m)'
  <2>1. PICK i \in DOMAIN log : log[i] = x
    BY DEF Range
  <2>2. /\ i \in DOMAIN log' /\ Len(log) + 1 \in DOMAIN log' /\ i < Len(log) + 1
        /\ log'[i] = x /\ log'[Len(log) + 1] = m
    BY <1>1, <2>1
  <2> QED BY <2>2 DEF Older
<1> QED BY <1>2, <1>3

\* A queue that is not empty has an oldest message.
LEMMA OldestExists ==
    ASSUME log \in Seq(Msg), IsInjective(log), stored \subseteq Range(log), stored # {}
    PROVE  Oldest(1) # {}
<1> DEFINE T == {i \in DOMAIN log : log[i] \in stored}
<1>1. T \in SUBSET Nat /\ T # {}
  BY DEF Range
<1>2. PICK i \in T : \A j \in T : i <= j
  BY <1>1, LeastNat
<1>3. ASSUME NEW n \in stored, Older(n, log[i]) PROVE FALSE
  <2>1. PICK a, b \in DOMAIN log : a < b /\ log[a] = n /\ log[b] = log[i]
    BY <1>3 DEF Older
  <2>2. b = i
    BY <1>2, <2>1 DEF IsInjective
  <2>3. a \in T
    BY <2>1
  <2> QED BY <1>1, <1>2, <2>1, <2>2, <2>3
<1>4. {n \in stored : Older(n, log[i])} = {}
  BY <1>3
<1>5. Cardinality({n \in stored : Older(n, log[i])}) = 0
  BY <1>4, FS_EmptySet
<1>6. log[i] \in stored
  OBVIOUS
<1> QED BY <1>5, <1>6 DEF Oldest

\* One of the k oldest messages has the others of the queue behind it, and the next one.
LEMMA PushedOut ==
    ASSUME log \in Seq(Msg), stored \subseteq Range(log), NEW m \in Msg, m \notin Range(log),
           log' = Append(log, m), NEW k \in Nat, NEW o \in Oldest(k),
           Size + 1 - k >= MaxQueue
    PROVE  Cardinality(Later(o)') >= MaxQueue
<1> DEFINE B == {n \in stored : Older(n, o)}
           A == {n \in stored : Older(o, n)}
<1>1. o \in stored /\ Cardinality(B) < k
  BY DEF Oldest
<1>2. IsFiniteSet(Range(log)) /\ IsFiniteSet(Range(log')) /\ Range(log') = Range(log) \cup {m}
  BY RangeFinite, RangeAppended
<1>3. IsFiniteSet(stored) /\ IsFiniteSet(A) /\ IsFiniteSet(B)
  <2>1. IsFiniteSet(stored)
    BY <1>2, FS_Subset
  <2>2. A \in SUBSET stored /\ B \in SUBSET stored
    OBVIOUS
  <2> HIDE DEF A, B
  <2>3. IsFiniteSet(A)
    BY <2>1, <2>2, FS_Subset
  <2>4. IsFiniteSet(B)
    BY <2>1, <2>2, FS_Subset
  <2> QED BY <2>1, <2>3, <2>4
<1>4. stored \subseteq (A \cup B) \cup {o}
  BY <1>1, OlderTotal
<1> HIDE DEF A, B
<1>5. /\ IsFiniteSet(A \cup B) /\ Cardinality(A) \in Nat /\ Cardinality(B) \in Nat
      /\ Cardinality(A \cup B) <= Cardinality(A) + Cardinality(B)
  BY <1>3, SizeOfUnion
<1>6. Cardinality(stored) \in Nat
  BY <1>3, FS_CardinalityType
<1>7. /\ IsFiniteSet((A \cup B) \cup {o}) /\ Cardinality(A \cup B) \in Nat
      /\ Cardinality((A \cup B) \cup {o}) \in Nat
      /\ Cardinality((A \cup B) \cup {o}) <= Cardinality(A \cup B) + 1
  BY <1>5, SizeWithOne
<1>8. Cardinality(stored) <= Cardinality((A \cup B) \cup {o})
  BY <1>4, <1>7, FS_Subset
<1>9. m \notin A /\ IsFiniteSet(A \cup {m}) /\ Cardinality(A \cup {m}) = Cardinality(A) + 1
  BY <1>3, FS_AddElement DEF A
<1>10. A \cup {m} \subseteq Later(o)'
  BY <1>1, <1>2, OlderAppended DEF A, Later
<1>11. Later(o)' \subseteq Range(log')
  BY DEF Later
<1>12. IsFiniteSet(Later(o)')
  BY <1>2, <1>11, FS_Subset
<1>13. Cardinality(A \cup {m}) <= Cardinality(Later(o)')
  BY <1>10, <1>12, FS_Subset
<1>14. Cardinality(Later(o)') \in Nat
  BY <1>12, FS_CardinalityType
<1> HIDE DEF Later
<1> QED BY <1>1, <1>5, <1>6, <1>7, <1>8, <1>9, <1>13, <1>14 DEF Size

\* What is younger than a message stays so.
LEMMA LaterGrows ==
    ASSUME log \in Seq(Msg), log' = log \/ \E m \in Msg : log' = Append(log, m), NEW x
    PROVE  Cardinality(Later(x)) >= MaxQueue => Cardinality(Later(x)') >= MaxQueue
<1>1. CASE log' = log
  BY <1>1 DEF Later, Older
<1>2. CASE \E m \in Msg : log' = Append(log, m)
  <2>1. PICK m \in Msg : log' = Append(log, m)
    BY <1>2
  <2>2. /\ IsFiniteSet(Range(log)) /\ IsFiniteSet(Range(log'))
        /\ Range(log') = Range(log) \cup {m}
    BY <2>1, RangeFinite, RangeAppended
  <2>3. Later(x) \subseteq Later(x)'
    BY <2>1, <2>2, OlderAppended DEF Later
  <2>4. Later(x) \subseteq Range(log) /\ Later(x)' \subseteq Range(log')
    BY DEF Later
  <2>5. IsFiniteSet(Later(x)) /\ IsFiniteSet(Later(x)')
    BY <2>2, <2>4, FS_Subset
  <2>6. /\ Cardinality(Later(x)) <= Cardinality(Later(x)')
        /\ Cardinality(Later(x)) \in Nat /\ Cardinality(Later(x)') \in Nat
    BY <2>3, <2>5, FS_Subset, FS_CardinalityType
  <2> HIDE DEF Later
  <2> QED BY <2>6
<1> QED BY <1>1, <1>2

----------------------------------------------------------------------------
(* What is known of the messages                                           *)

\* A message that MaxQueue younger ones follow.
Overtaken(m) == Cardinality(Later(m)) >= MaxQueue

\* A message is in the log from the start of its enqueue on, and in the queue or with a
\* drain only after its enqueue was executed. A row that an open statement is about to
\* drop was queued, and has MaxQueue younger messages after it.
Known ==
    \A m \in Msg :
        /\ epc[m] = "new" => m \notin Range(log)
        /\ epc[m] = "ok" => m \in Range(log)
        /\ epc[m] = "snapshot" =>
              /\ backend = "postgres" /\ m \in Range(log) /\ m \notin stored
              /\ \A d \in Drain : m \notin hand[d] \cup got[d]
        /\ \A o \in Msg : victim[m] = o =>
              /\ epc[m] = "snapshot" /\ epc[o] # "snapshot"
              /\ o \in Range(log) /\ Overtaken(o)

\* What a step changes of the log: nothing, or it appends the message of a new enqueue.
LEMMA LogGrows ==
    ASSUME TypeOK, Known, [Next]_vars
    PROVE  /\ log' = log \/ \E m \in Msg : epc[m] = "new" /\ log' = Append(log, m)
           /\ log' \in Seq(Msg) /\ IsInjective(log') /\ Range(log) \subseteq Range(log')
           /\ backend' = backend
<1>1. log' = log \/ \E m \in Msg : epc[m] = "new" /\ log' = Append(log, m)
  BY DEF Next, EnqueueStep, DrainStep, EnqueueMemory, EnqueueRedis, StartPostgres,
         CommitPostgres, DrainMemory, ReadRedis, DeleteRedis, TakePostgres, DeleteExpired,
         Expire, Restart, vars, queueVars
<1>2. backend' = backend
  BY DEF Next, EnqueueStep, DrainStep, EnqueueMemory, EnqueueRedis, StartPostgres,
         CommitPostgres, DrainMemory, ReadRedis, DeleteRedis, TakePostgres, DeleteExpired,
         Expire, Restart, vars
<1>3. log \in Seq(Msg) /\ IsInjective(log) /\ \A m \in Msg : epc[m] = "new" => m \notin Range(log)
  BY DEF TypeOK, Known
<1>4. CASE log' = log
  BY <1>2, <1>3, <1>4
<1>5. CASE \E m \in Msg : epc[m] = "new" /\ log' = Append(log, m)
  <2>1. PICK m \in Msg : epc[m] = "new" /\ log' = Append(log, m)
    BY <1>5
  <2>2. /\ Append(log, m) \in Seq(Msg) /\ Range(Append(log, m)) = Range(log) \cup {m}
        /\ IsInjective(Append(log, m))
    BY <1>3, <2>1, RangeAppended
  <2>3. log' \in Seq(Msg) /\ Range(log') = Range(log) \cup {m} /\ IsInjective(log')
    BY <2>1, <2>2
  <2> QED BY <1>1, <1>2, <2>3
<1> QED BY <1>1, <1>4, <1>5

\* The sets of messages grow with the log.
LEMMA TypesStep ==
    ASSUME TypeOK, Known, [Next]_vars
    PROVE  TypeOK'
<1>1. /\ log' \in Seq(Msg) /\ IsInjective(log') /\ Range(log) \subseteq Range(log')
      /\ backend' = backend /\ Range(log') \subseteq Msg
  BY LogGrows, RangeFinite
<1>2. \A m \in Msg : log' = Append(log, m) => m \in Range(log')
  BY RangeAppended DEF TypeOK
<1>3. stored \subseteq Range(log') /\ expired \subseteq Range(log')
      /\ hand \in [Drain -> SUBSET Range(log')] /\ got \in [Drain -> SUBSET Range(log')]
  BY <1>1 DEF TypeOK
<1>4. /\ epc \in [Msg -> {"new", "snapshot", "ok", "failed"}]
      /\ victim \in [Msg -> Msg \cup {NoMsg}]
      /\ dpc \in [Drain -> {"new", "read", "second", "ok", "failed"}]
      /\ late \subseteq Msg /\ rivals \subseteq Msg /\ before \subseteq Msg
      /\ overlap \subseteq Drain \X Drain /\ backend \in {"memory", "redis", "postgres"}
      /\ log \in Seq(Msg) /\ IsInjective(log) /\ stored \subseteq Range(log)
      /\ \A m \in Msg : epc[m] = "snapshot" => m \in Range(log)
  BY DEF TypeOK, Known
<1> DEFINE R == Range(log)  Q == Range(log')
<1>5. R \subseteq Q /\ Q \subseteq Msg /\ stored \subseteq R /\ stored \subseteq Q
  BY <1>1, <1>3, <1>4
<1> HIDE DEF R, Q
<1>6. SUFFICES /\ stored' \subseteq Q /\ expired' \subseteq Q
               /\ epc' \in [Msg -> {"new", "snapshot", "ok", "failed"}]
               /\ victim' \in [Msg -> Msg \cup {NoMsg}]
               /\ dpc' \in [Drain -> {"new", "read", "second", "ok", "failed"}]
               /\ hand' \in [Drain -> SUBSET Q] /\ got' \in [Drain -> SUBSET Q]
               /\ late' \subseteq Msg /\ rivals' \subseteq Msg /\ before' \subseteq Msg
               /\ overlap' \subseteq Drain \X Drain
  BY <1>1, <1>4 DEF TypeOK, Q
<1>7. /\ expired \subseteq Q /\ hand \in [Drain -> SUBSET Q] /\ got \in [Drain -> SUBSET Q]
      /\ \A m \in Msg : log' = Append(log, m) => m \in Q
      /\ \A m \in Msg : epc[m] = "snapshot" => m \in Q
  BY <1>2, <1>3, <1>4, <1>5 DEF Q, R
<1>8. ASSUME NEW m \in Msg, EnqueueMemory(m) \/ EnqueueRedis(m) \/ CommitPostgres(m)
      PROVE  stored' \subseteq Q /\ late' \subseteq Msg
  BY <1>4, <1>5, <1>7, <1>8 DEF EnqueueMemory, EnqueueRedis, CommitPostgres, Trim
<1>9. ASSUME NEW m \in Msg, StartPostgres(m)
      PROVE  victim' \in [Msg -> Msg \cup {NoMsg}]
  <2>1. Size >= MaxQueue => (CHOOSE o \in Oldest(1) : TRUE) \in Msg
    <3> SUFFICES ASSUME Size >= MaxQueue PROVE Oldest(1) # {} /\ Oldest(1) \subseteq Msg
      OBVIOUS
    <3>1. Oldest(1) \subseteq Msg
      BY <1>5 DEF Oldest
    <3>2. stored # {}
      <4>1. Cardinality({}) = 0
        BY FS_EmptySet
      <4> QED BY <4>1 DEF Size
    <3> QED BY <1>4, <3>1, <3>2, OldestExists
  <2> QED BY <1>4, <1>9, <2>1 DEF StartPostgres
<1>10. CASE \E m \in Msg : EnqueueStep(m)
  <2>1. PICK m \in Msg : EnqueueStep(m)
    BY <1>10
  <2>2. CASE EnqueueMemory(m)
    BY <1>4, <1>5, <1>7, <1>8, <2>2 DEF EnqueueMemory, EnqueueEnds, drainVars
  <2>3. CASE EnqueueRedis(m)
    BY <1>4, <1>5, <1>7, <1>8, <2>3 DEF EnqueueRedis, EnqueueEnds, drainVars
  <2>4. CASE StartPostgres(m)
    BY <1>4, <1>5, <1>7, <1>9, <2>4 DEF StartPostgres, EnqueueEnds, drainVars
  <2>5. CASE CommitPostgres(m)
    BY <1>4, <1>5, <1>7, <1>8, <2>5 DEF CommitPostgres, EnqueueEnds, drainVars
  <2> QED BY <2>1, <2>2, <2>3, <2>4, <2>5 DEF EnqueueStep
<1>11. CASE \E d \in Drain : DrainStep(d)
  <2>1. PICK d \in Drain : DrainStep(d)
    BY <1>11
  <2> USE DEF DrainGoto, Return, Fresh, queueVars, enqueueVars, drainVars
  <2>2. CASE DrainMemory(d)
    BY <1>4, <1>5, <1>7, <2>2 DEF DrainMemory
  <2>3. CASE ReadRedis(d)
    BY <1>4, <1>5, <1>7, <2>3 DEF ReadRedis
  <2>4. CASE DeleteRedis(d)
    BY <1>4, <1>5, <1>7, <2>4 DEF DeleteRedis
  <2>5. CASE TakePostgres(d)
    BY <1>4, <1>5, <1>7, <2>5 DEF TakePostgres
  <2>6. CASE DeleteExpired(d)
    BY <1>4, <1>5, <1>7, <2>6 DEF DeleteExpired
  <2> QED BY <2>1, <2>2, <2>3, <2>4, <2>5, <2>6 DEF DrainStep
<1>12. CASE Expire
  <2>1. \A i \in DOMAIN log : log[i] \in Q
    BY <1>4, <1>5 DEF R, Range
  <2> QED BY <1>4, <1>5, <1>7, <1>12, <2>1 DEF Expire, queueVars, enqueueVars, drainVars
<1>13. CASE Restart
  <2>1. Range(log) \subseteq Msg
    BY <1>5 DEF R
  <2> QED BY <1>4, <1>5, <1>7, <1>13, <2>1 DEF Restart
<1>14. CASE UNCHANGED vars
  BY <1>4, <1>5, <1>7, <1>14 DEF vars, queueVars, enqueueVars, drainVars
<1> QED BY <1>10, <1>11, <1>12, <1>13, <1>14 DEF Next

\* A full queue has a message to drop, which has MaxQueue younger ones once m is queued.
LEMMA Victim ==
    ASSUME TypeOK, Known, NEW m \in Msg, StartPostgres(m), Size >= MaxQueue
    PROVE  /\ victim'[m] \in stored /\ victim'[m] # m /\ m \notin Range(log)
           /\ victim'[m] \in Oldest(1)
           /\ \A o : victim'[m] = o => Overtaken(o)'
<1>1. stored # {}
  <2>1. Cardinality({}) = 0
    BY FS_EmptySet
  <2> QED BY <2>1 DEF Size
<1>2. Oldest(1) # {}
  BY <1>1, OldestExists DEF TypeOK
<1>3. victim'[m] \in Oldest(1) /\ log' = Append(log, m)
  BY <1>2 DEF StartPostgres, TypeOK
<1>4. m \notin Range(log) /\ log \in Seq(Msg) /\ stored \subseteq Range(log)
  BY DEF StartPostgres, Known, TypeOK
<1>5. victim'[m] \in stored /\ victim'[m] # m
  BY <1>3, <1>4 DEF Oldest
<1>6. PICK o \in Oldest(1) : o = victim'[m]
  BY <1>3
<1>7. Size + 1 - 1 >= MaxQueue
  <2>1. IsFiniteSet(stored)
    BY <1>4, RangeFinite, FS_Subset
  <2>2. Size \in Nat
    BY <2>1, FS_CardinalityType DEF Size
  <2> QED BY <2>2
<1>8. Overtaken(o)'
  BY <1>3, <1>4, <1>7, PushedOut DEF Overtaken
<1> QED BY <1>3, <1>4, <1>5, <1>6, <1>8

\* The places a message moves through are those its enqueue has reached.
LEMMA KnownStep ==
    ASSUME TypeOK, Known, [Next]_vars
    PROVE  Known'
<1> SUFFICES ASSUME NEW x \in Msg
             PROVE  /\ epc'[x] = "new" => x \notin Range(log')
                    /\ epc'[x] = "ok" => x \in Range(log')
                    /\ epc'[x] = "snapshot" =>
                          /\ backend' = "postgres" /\ x \in Range(log') /\ x \notin stored'
                          /\ \A d \in Drain : x \notin hand'[d] \cup got'[d]
                    /\ \A o \in Msg : victim'[x] = o =>
                          /\ epc'[x] = "snapshot" /\ epc'[o] # "snapshot"
                          /\ o \in Range(log') /\ Overtaken(o)'
  BY DEF Known
<1>1. /\ log' = log \/ \E m \in Msg : epc[m] = "new" /\ log' = Append(log, m)
      /\ Range(log) \subseteq Range(log') /\ backend' = backend
  BY LogGrows
<1>2. \A m \in Msg : log' = Append(log, m) => Range(log') = Range(log) \cup {m}
  BY RangeAppended DEF TypeOK
<1>3. \A o : Overtaken(o) => Overtaken(o)'
  BY <1>1, LaterGrows DEF TypeOK, Overtaken
<1>4. /\ \A m \in Msg : epc[m] = "new" => m \notin Range(log)
      /\ \A m \in Msg : epc[m] = "ok" => m \in Range(log)
      /\ \A m \in Msg : epc[m] = "snapshot" =>
            /\ backend = "postgres" /\ m \in Range(log) /\ m \notin stored
            /\ \A d \in Drain : m \notin hand[d] \cup got[d]
      /\ \A m, o \in Msg : victim[m] = o =>
            /\ epc[m] = "snapshot" /\ epc[o] # "snapshot"
            /\ o \in Range(log) /\ Overtaken(o)
  BY DEF Known
<1>5. /\ epc \in [Msg -> {"new", "snapshot", "ok", "failed"}]
      /\ victim \in [Msg -> Msg \cup {NoMsg}] /\ stored \subseteq Range(log)
      /\ hand \in [Drain -> SUBSET Range(log)] /\ got \in [Drain -> SUBSET Range(log)]
      /\ dpc \in [Drain -> {"new", "read", "second", "ok", "failed"}]
      /\ backend \in {"memory", "redis", "postgres"}
  BY DEF TypeOK
<1>6. \A o \in Msg : victim[x] = o =>
        /\ epc[x] = "snapshot" /\ o \in Range(log) /\ Overtaken(o)'
        /\ epc[o] # "snapshot" /\ epc[o] # "new"
  BY <1>3, <1>4, <1>5
<1> HIDE DEF Known
<1>7. CASE \E m \in Msg : EnqueueStep(m)
  <2>1. PICK m \in Msg : EnqueueStep(m)
    BY <1>7
  <2>2. CASE EnqueueMemory(m)
    <3>1. Range(log') = Range(log) \cup {m} /\ stored' \subseteq stored \cup {m}
      BY <1>2, <2>2 DEF EnqueueMemory
    <3>2. /\ epc[m] = "new" /\ epc' = [epc EXCEPT ![m] = "ok"] /\ backend = "memory"
          /\ victim' = victim /\ hand' = hand /\ got' = got
      BY <2>2 DEF EnqueueMemory, EnqueueEnds, drainVars
    <3> QED BY <1>1, <1>4, <1>5, <1>6, <3>1, <3>2
  <2>3. CASE EnqueueRedis(m)
    <3>1. \/ Range(log') = Range(log) \cup {m} /\ epc'[m] \in {"ok", "failed"}
          \/ log' = log /\ epc'[m] = "failed"
      BY <1>2, <1>5, <2>3 DEF EnqueueRedis, EnqueueEnds
    <3>2. /\ epc[m] = "new" /\ \A y \in Msg : y # m => epc'[y] = epc[y]
          /\ backend = "redis" /\ victim' = victim /\ hand' = hand /\ got' = got
      BY <1>5, <2>3 DEF EnqueueRedis, EnqueueEnds, drainVars
    <3> QED BY <1>1, <1>4, <1>5, <1>6, <3>1, <3>2
  <2>4. CASE StartPostgres(m)
    <3>1. /\ Range(log') = Range(log) \cup {m} /\ backend = "postgres" /\ epc[m] = "new"
          /\ epc' = [epc EXCEPT ![m] = "snapshot"] /\ stored' = stored
          /\ hand' = hand /\ got' = got
          /\ \A y \in Msg : y # m => victim'[y] = victim[y]
      BY <1>2, <1>5, <2>4 DEF StartPostgres, EnqueueEnds, drainVars
    <3>2. Size >= MaxQueue => /\ victim'[m] \in stored /\ victim'[m] # m
                              /\ \A o : victim'[m] = o => Overtaken(o)'
      BY <2>4, Victim
    <3>3. ~ (Size >= MaxQueue) => victim'[m] = NoMsg
      BY <1>5, <2>4 DEF StartPostgres
    <3>4. CASE x = m
      <4>1. stored \subseteq Msg
        BY <1>5, RangeFinite DEF TypeOK
      <4> QED BY <1>1, <1>4, <1>5, <3>1, <3>2, <3>3, <3>4, <4>1
    <3>5. CASE x # m
      BY <1>1, <1>4, <1>5, <1>6, <3>1, <3>5
    <3> QED BY <3>4, <3>5
  <2>5. CASE CommitPostgres(m)
    <3>1. /\ log' = log /\ epc[m] = "snapshot" /\ epc'[m] \in {"ok", "failed"}
          /\ \A y \in Msg : y # m => epc'[y] = epc[y] /\ victim'[y] = victim[y]
          /\ stored' \subseteq stored \cup {m} /\ victim'[m] = NoMsg
          /\ hand' = hand /\ got' = got
      BY <1>5, <2>5 DEF CommitPostgres, EnqueueEnds, drainVars
    <3> QED BY <1>1, <1>4, <1>5, <1>6, <3>1
  <2> QED BY <2>1, <2>2, <2>3, <2>4, <2>5 DEF EnqueueStep
<1>8. CASE \E d \in Drain : DrainStep(d)
  <2>1. PICK d \in Drain : DrainStep(d)
    BY <1>8
  <2> USE DEF DrainGoto, Return, Fresh, queueVars, enqueueVars, drainVars
  <2>2. /\ log' = log /\ epc' = epc /\ victim' = victim /\ stored' \subseteq stored
        /\ \A e \in Drain : hand'[e] \subseteq hand[e] \cup stored
        /\ \A e \in Drain : got'[e] \subseteq got[e] \cup hand[e] \cup stored
    <3>1. CASE DrainMemory(d)
      BY <1>5, <3>1 DEF DrainMemory
    <3>2. CASE ReadRedis(d)
      BY <1>5, <3>2 DEF ReadRedis
    <3>3. CASE DeleteRedis(d)
      BY <1>5, <3>3 DEF DeleteRedis
    <3>4. CASE TakePostgres(d)
      BY <1>5, <3>4 DEF TakePostgres
    <3>5. CASE DeleteExpired(d)
      BY <1>5, <3>5 DEF DeleteExpired
    <3> QED BY <2>1, <3>1, <3>2, <3>3, <3>4, <3>5 DEF DrainStep
  <2> QED BY <1>1, <1>4, <1>5, <1>6, <2>2
<1>9. CASE Expire
  <2> QED BY <1>1, <1>4, <1>5, <1>6, <1>9 DEF Expire, queueVars, enqueueVars, drainVars
<1>10. CASE Restart
  <2>1. epc'[x] # "snapshot" /\ (epc'[x] = "failed" \/ epc'[x] = epc[x]) /\ victim'[x] = NoMsg
        /\ log' = log
    BY <1>5, <1>10 DEF Restart
  <2> QED BY <1>1, <1>4, <1>5, <2>1
<1>11. CASE UNCHANGED vars
  <2> QED BY <1>1, <1>4, <1>5, <1>6, <1>11 DEF vars, queueVars, enqueueVars, drainVars
<1> QED BY <1>7, <1>8, <1>9, <1>10, <1>11 DEF Next

----------------------------------------------------------------------------
(* Who has a message                                                       *)

Overlapped(d, e) == <<d, e>> \in overlap \/ <<e, d>> \in overlap

\* Where a drain takes what it reads, what it took is nowhere else. From Redis two
\* drains have the same message only if one read it before the other deleted it.
Disjoint ==
    /\ \A d \in Drain : got[d] \cap stored = {}
    /\ backend # "redis" =>
          /\ \A d \in Drain : hand[d] \cap stored = {}
          /\ \A d, e \in Drain : d # e => (hand[d] \cup got[d]) \cap (hand[e] \cup got[e]) = {}
    /\ backend = "redis" =>
          /\ \A d, e \in Drain : d # e /\ dpc[d] = "read" /\ dpc[e] = "read" => Overlapped(d, e)
          /\ \A d, e \in Drain :
                d # e /\ dpc[d] = "read" /\ hand[d] \cap got[e] # {} => Overlapped(d, e)
          /\ \A d, e \in Drain : d # e /\ got[d] \cap got[e] # {} => Overlapped(d, e)

\* An enqueue adds only its own message, which no drain has.
LEMMA Added ==
    ASSUME TypeOK, Known, NEW m \in Msg, EnqueueStep(m)
    PROVE  /\ stored' \subseteq stored \cup {m}
           /\ UNCHANGED <<dpc, hand, got, overlap, backend, expired, before>>
           /\ \A d \in Drain : m \notin hand[d] \cup got[d]
<1>1. m \notin Range(log) \/ epc[m] = "snapshot"
  BY DEF EnqueueStep, EnqueueMemory, EnqueueRedis, StartPostgres, CommitPostgres, Known
<1>2. \A d \in Drain : m \notin hand[d] \cup got[d]
  BY <1>1 DEF Known, TypeOK
<1>3. stored' \subseteq stored \cup {m}
  BY DEF EnqueueStep, EnqueueMemory, EnqueueRedis, StartPostgres, CommitPostgres, Trim
<1>4. UNCHANGED <<dpc, hand, got, overlap, backend, expired, before>>
  BY DEF EnqueueStep, EnqueueMemory, EnqueueRedis, StartPostgres, CommitPostgres, drainVars
<1> QED BY <1>2, <1>3, <1>4

\* No step gives a message to a second owner.
LEMMA DisjointStep ==
    ASSUME TypeOK, Known, Disjoint, [Next]_vars
    PROVE  Disjoint'
<1>1. /\ dpc \in [Drain -> {"new", "read", "second", "ok", "failed"}]
      /\ hand \in [Drain -> SUBSET Range(log)] /\ got \in [Drain -> SUBSET Range(log)]
      /\ backend \in {"memory", "redis", "postgres"} /\ overlap \subseteq Drain \X Drain
  BY DEF TypeOK
<1>2. CASE \E m \in Msg : EnqueueStep(m)
  <2>1. PICK m \in Msg : EnqueueStep(m)
    BY <1>2
  <2>2. /\ stored' \subseteq stored \cup {m} /\ UNCHANGED <<dpc, hand, got, overlap, backend>>
        /\ \A d \in Drain : m \notin hand[d] \cup got[d]
    BY <2>1, Added
  <2> QED BY <2>2 DEF Disjoint, Overlapped
<1>3. CASE \E d \in Drain : DrainStep(d)
  <2>1. PICK d \in Drain : DrainStep(d)
    BY <1>3
  <2> USE DEF DrainGoto, Return, Fresh, queueVars, enqueueVars, drainVars
  <2>2. CASE DrainMemory(d)
    BY <1>1, <2>2 DEF DrainMemory, Disjoint, Overlapped
  <2>3. CASE ReadRedis(d)
    <3>1. /\ UNCHANGED <<backend, stored, got>> /\ overlap \subseteq overlap'
          /\ backend = "redis" /\ hand'[d] \subseteq stored
          /\ \A e \in Drain : e # d => dpc'[e] = dpc[e] /\ hand'[e] = hand[e]
      BY <1>1, <2>3 DEF ReadRedis
    <3>2. \A e \in Drain : dpc[e] = "read" /\ dpc'[d] = "read" => <<e, d>> \in overlap'
      BY <1>1, <2>3 DEF ReadRedis
    <3> QED BY <3>1, <3>2 DEF Disjoint, Overlapped
  <2>4. CASE DeleteRedis(d)
    <3>1. /\ UNCHANGED <<backend, overlap>> /\ stored' \subseteq stored
          /\ backend = "redis" /\ hand' = hand /\ dpc'[d] # "read" /\ dpc[d] = "read"
          /\ \A e \in Drain : e # d => dpc'[e] = dpc[e] /\ got'[e] = got[e]
          /\ (got'[d] = hand[d] /\ stored' = {}) \/ got'[d] = got[d]
      BY <1>1, <2>4 DEF DeleteRedis
    <3> QED BY <3>1 DEF Disjoint, Overlapped
  <2>5. CASE TakePostgres(d)
    <3>1. /\ UNCHANGED <<backend, got>> /\ backend = "postgres"
          /\ \A e \in Drain : e # d => hand'[e] = hand[e]
          /\ \/ hand'[d] \subseteq stored /\ hand'[d] \cap stored' = {}
             \/ hand'[d] = {}
          /\ stored' \subseteq stored
      BY <1>1, <2>5 DEF TakePostgres
    <3> QED BY <3>1 DEF Disjoint, Overlapped
  <2>6. CASE DeleteExpired(d)
    <3>1. /\ UNCHANGED backend /\ backend = "postgres" /\ stored' \subseteq stored /\ hand' = hand
          /\ \A e \in Drain : e # d => got'[e] = got[e]
          /\ got'[d] \subseteq got[d] \cup hand[d]
      BY <1>1, <2>6 DEF DeleteExpired
    <3> QED BY <3>1 DEF Disjoint, Overlapped
  <2> QED BY <2>1, <2>2, <2>3, <2>4, <2>5, <2>6 DEF DrainStep
<1>4. CASE Expire
  BY <1>4 DEF Expire, queueVars, drainVars, Disjoint, Overlapped
<1>5. CASE Restart
  <2>1. /\ UNCHANGED <<backend, hand, got, overlap>> /\ stored' \subseteq stored
        /\ \A d \in Drain : dpc'[d] = "read" => dpc[d] = "read"
    BY <1>1, <1>5 DEF Restart
  <2> QED BY <2>1 DEF Disjoint, Overlapped
<1>6. CASE UNCHANGED vars
  BY <1>6 DEF vars, queueVars, drainVars, Disjoint, Overlapped
<1> QED BY <1>2, <1>3, <1>4, <1>5, <1>6 DEF Next

\* A drain returns something only when it ends well.
Once == \A d \in Drain : dpc[d] # "ok" => got[d] = {}

QueueInv == TypeOK /\ Known /\ Disjoint /\ Once

\* got is set only by the step that ends a drain.
LEMMA OnceStep ==
    ASSUME TypeOK, Once, [Next]_vars
    PROVE  Once'
<1>1. /\ dpc \in [Drain -> {"new", "read", "second", "ok", "failed"}]
      /\ got \in [Drain -> SUBSET Range(log)]
  BY DEF TypeOK
<1>2. CASE \E m \in Msg : EnqueueStep(m)
  BY <1>2 DEF EnqueueStep, EnqueueMemory, EnqueueRedis, StartPostgres, CommitPostgres,
              drainVars, Once
<1>3. CASE \E d \in Drain : DrainStep(d)
  <2> USE DEF DrainGoto, Return, drainVars, Once
  <2>1. PICK d \in Drain : DrainStep(d)
    BY <1>3
  <2> QED BY <1>1, <2>1
          DEF DrainStep, DrainMemory, ReadRedis, DeleteRedis, TakePostgres, DeleteExpired
<1>4. CASE Expire \/ Restart \/ UNCHANGED vars
  BY <1>1, <1>4 DEF Expire, Restart, vars, drainVars, Once
<1> QED BY <1>2, <1>3, <1>4 DEF Next

\* The invariant holds of empty queues and is kept by every step.
LEMMA QueueInvInit == Init => QueueInv
<1> SUFFICES ASSUME Init PROVE QueueInv
  OBVIOUS
<1>1. Range(log) = {} /\ log \in Seq(Msg) /\ IsInjective(log)
  BY DEF Init, Range, IsInjective
<1>2. TypeOK
  BY <1>1 DEF Init, TypeOK
<1>3. Known
  BY <1>1 DEF Init, Known
<1>4. Disjoint /\ Once
  BY DEF Init, Disjoint, Once
<1> QED BY <1>2, <1>3, <1>4 DEF QueueInv

\* Every step keeps the invariant of the queue.
LEMMA QueueInvStep == QueueInv /\ [Next]_vars => QueueInv'
BY TypesStep, KnownStep, DisjointStep, OnceStep DEF QueueInv

\* What enqueue and drain of the three backends keep true of the queue, the messages of
\* their open calls and what the drains hold.
THEOREM QueueInvariant == Spec => []QueueInv
BY QueueInvInit, QueueInvStep, PTL DEF Spec

\* The queue, the expired messages and what the drains have in hand or returned are
\* messages some enqueue was called with, each once in the order of queued_at.
THEOREM QueueTypes == Spec => []TypeOK
<1>1. QueueInv => TypeOK
  BY DEF QueueInv
<1> QED BY <1>1, QueueInvariant, PTL

\* No message is returned by two drains, but by two Redis drains of which one ran its
\* XRANGE between the XRANGE and the DEL of the other: the memory backend takes the queue
\* out under the entry's lock, and PostgreSQL returns the rows its own DELETE removed.
THEOREM ReturnedTwice == Spec => []TwiceOnlyOverlapping
<1>1. QueueInv => TwiceOnlyOverlapping
  <2> SUFFICES ASSUME QueueInv, NEW d \in Drain, NEW e \in Drain, d # e, got[d] \cap got[e] # {}
               PROVE  backend = "redis" /\ Overlapped(d, e)
    BY DEF TwiceOnlyOverlapping, Overlapped
  <2> QED BY DEF QueueInv, Disjoint
<1> QED BY <1>1, QueueInvariant, PTL

----------------------------------------------------------------------------
(* Why a message is gone                                                   *)

\* What a Redis drain will delete it has in hand, or the gaps account for it.
Reading ==
    backend = "redis" =>
        \A d \in Drain : dpc[d] = "read" => stored \subseteq hand[d] \cup expired \cup late

\* What comes while a Redis drain reads is late.
LEMMA ReadingStep ==
    ASSUME QueueInv, Reading, [Next]_vars
    PROVE  Reading'
<1>1. /\ dpc \in [Drain -> {"new", "read", "second", "ok", "failed"}]
      /\ hand \in [Drain -> SUBSET Range(log)]
  BY DEF TypeOK, QueueInv
<1>2. CASE \E m \in Msg : EnqueueStep(m)
  <2>1. PICK m \in Msg : EnqueueStep(m)
    BY <1>2
  <2>2. /\ stored' \subseteq stored \cup {m}
        /\ UNCHANGED <<dpc, hand, backend, expired>>
    BY <2>1, Added DEF QueueInv
  <2>3. CASE EnqueueRedis(m)
    BY <2>2, <2>3 DEF EnqueueRedis, Reading
  <2>4. CASE ~ EnqueueRedis(m)
    <3>1. backend # "redis"
      BY <2>1, <2>4 DEF EnqueueStep, EnqueueMemory, StartPostgres, CommitPostgres, QueueInv, Known
    <3> QED BY <2>2, <3>1 DEF Reading
  <2> QED BY <2>3, <2>4
<1>3. CASE \E d \in Drain : DrainStep(d)
  <2>1. PICK d \in Drain : DrainStep(d)
    BY <1>3
  <2>2. UNCHANGED <<backend, expired, late>> /\ stored' \subseteq stored
    BY <2>1 DEF DrainStep, DrainMemory, ReadRedis, DeleteRedis, TakePostgres, DeleteExpired,
                Fresh, queueVars
  <2>3. backend = "redis" =>
          /\ \A e \in Drain : e # d => dpc'[e] = dpc[e] /\ hand'[e] = hand[e]
          /\ dpc'[d] = "read" => hand'[d] = Fresh
    BY <1>1, <2>1 DEF DrainStep, DrainMemory, ReadRedis, DeleteRedis, TakePostgres,
                      DeleteExpired, DrainGoto
  <2> QED BY <2>2, <2>3 DEF Reading, Fresh
<1>4. CASE Expire
  <2>1. expired \subseteq expired' /\ UNCHANGED <<backend, dpc, stored, hand, late>>
    BY <1>4 DEF Expire, queueVars, drainVars
  <2> QED BY <2>1 DEF Reading
<1>5. CASE Restart
  BY <1>1, <1>5 DEF Restart, Reading
<1>6. CASE UNCHANGED vars
  BY <1>6 DEF vars, queueVars, drainVars, Reading
<1> QED BY <1>2, <1>3, <1>4, <1>5, <1>6 DEF Next

\* Where m is, or why it is gone.
Explained(m) ==
    \/ m \in stored \cup expired \cup late
    \/ \E d \in Drain : m \in got[d]
    \/ Overtaken(m)
    \/ \E d \in Drain : dpc[d] \in {"second", "failed"} /\ m \in hand[d]
    \/ backend = "memory" /\ m \in before

\* LossExplained says so of every message.
LEMMA LossMeans ==
    ASSUME TypeOK
    PROVE  LossExplained <=> \A m \in Msg : epc[m] = "ok" => Explained(m)
<1>1. \A m : m \in UNION Range(got) <=> \E d \in Drain : m \in got[d]
  BY DEF TypeOK, Range
<1>2. \A m \in Msg : Explained(m) <=>
        \/ m \in stored \cup expired \cup late \cup UNION Range(got)
        \/ Cardinality(Later(m)) >= MaxQueue
        \/ \E d \in Drain : dpc[d] \in {"second", "failed"} /\ m \in hand[d]
        \/ backend = "memory" /\ m \in before
  BY <1>1 DEF Explained, Overtaken
<1> QED BY <1>2 DEF LossExplained

\* A message an enqueue drops has MaxQueue younger ones.
LEMMA Dropped ==
    ASSUME QueueInv, NEW m \in Msg, EnqueueStep(m), NEW o \in stored, o \notin stored'
    PROVE  Overtaken(o)'
<1>1. /\ log \in Seq(Msg) /\ stored \subseteq Range(log)
      /\ epc[m] = "new" => m \notin Range(log)
  BY DEF QueueInv, TypeOK, Known
<1>2. IsFiniteSet(stored) /\ Size \in Nat /\ stored \subseteq Msg
  <2>1. IsFiniteSet(stored) /\ stored \subseteq Msg
    BY <1>1, RangeFinite, FS_Subset
  <2> QED BY <2>1, FS_CardinalityType DEF Size
<1>3. CASE EnqueueMemory(m)
  <2>1. /\ log' = Append(log, m) /\ o \in Oldest(1) /\ Size >= MaxQueue /\ m \notin Range(log)
    BY <1>1, <1>3 DEF EnqueueMemory
  <2>2. Size + 1 - 1 >= MaxQueue
    BY <1>2, <2>1
  <2> QED BY <1>1, <2>1, <2>2, PushedOut DEF Overtaken
<1>4. CASE EnqueueRedis(m)
  <2>1. /\ log' = Append(log, m) /\ Trim(m) /\ m \notin Range(log)
    BY <1>1, <1>4 DEF EnqueueRedis
  <2>2. PICK k \in 0..Size : /\ k > 0 => Size + 1 - k >= MaxQueue
                             /\ stored' = (stored \ Oldest(k)) \cup {m}
    BY <2>1 DEF Trim
  <2>3. o \in Oldest(k) /\ k \in Nat
    BY <1>2, <2>2
  <2>4. k > 0
    <3>1. CASE k = 0
      <4>1. {n \in stored : Older(n, o)} \subseteq stored
        OBVIOUS
      <4>2. Cardinality({n \in stored : Older(n, o)}) \in Nat
        BY <1>2, <4>1, SizeOfSubset
      <4>3. Cardinality({n \in stored : Older(n, o)}) < k
        BY <2>3 DEF Oldest
      <4> QED BY <3>1, <4>2, <4>3
    <3> QED BY <2>3, <3>1
  <2> QED BY <1>1, <2>1, <2>2, <2>3, <2>4, PushedOut DEF Overtaken
<1>5. CASE StartPostgres(m)
  BY <1>5 DEF StartPostgres
<1>6. CASE CommitPostgres(m)
  <2>1. victim[m] = o /\ o \in Msg /\ log' = log
    BY <1>2, <1>6 DEF CommitPostgres
  <2>2. Overtaken(o)
    BY <2>1 DEF QueueInv, Known
  <2> QED BY <1>1, <2>1, <2>2, LaterGrows DEF Overtaken
<1> QED BY <1>3, <1>4, <1>5, <1>6 DEF EnqueueStep

\* A message that was accounted for is so after a step, and so is a newly accepted one.
LEMMA LossStep ==
    ASSUME QueueInv, Reading, [Next]_vars, NEW x \in Msg,
           epc[x] = "ok" => Explained(x), epc'[x] = "ok"
    PROVE  Explained(x)'
<1>1. Overtaken(x) => Overtaken(x)'
  BY LogGrows, LaterGrows DEF QueueInv, TypeOK, Overtaken
<1>2. /\ dpc \in [Drain -> {"new", "read", "second", "ok", "failed"}]
      /\ hand \in [Drain -> SUBSET Range(log)] /\ got \in [Drain -> SUBSET Range(log)]
      /\ epc \in [Msg -> {"new", "snapshot", "ok", "failed"}]
      /\ backend \in {"memory", "redis", "postgres"}
      /\ \A d \in Drain : dpc[d] # "ok" => got[d] = {}
  BY DEF QueueInv, TypeOK, Once
<1>3. CASE \E m \in Msg : EnqueueStep(m)
  <2>1. PICK m \in Msg : EnqueueStep(m)
    BY <1>3
  <2>2. UNCHANGED <<dpc, hand, got, backend, expired, before>>
    BY <2>1, Added DEF QueueInv
  <2>3. late \subseteq late'
    BY <2>1 DEF EnqueueStep, EnqueueMemory, EnqueueRedis, StartPostgres, CommitPostgres
  <2>4. CASE epc[x] = "ok"
    <3>1. x \in stored => x \in stored' \/ Overtaken(x)'
      BY <2>1, Dropped
    <3> QED BY <1>1, <2>2, <2>3, <2>4, <3>1 DEF Explained
  <2>5. CASE epc[x] # "ok"
    <3>1. x = m /\ x \in stored'
      BY <1>2, <2>1, <2>5 DEF EnqueueStep, EnqueueMemory, EnqueueRedis, StartPostgres,
                              CommitPostgres, EnqueueEnds, Trim
    <3> QED BY <3>1 DEF Explained
  <2> QED BY <2>4, <2>5
<1>4. CASE \E d \in Drain : DrainStep(d)
  <2>1. PICK d \in Drain : DrainStep(d)
    BY <1>4
  <2> USE DEF DrainGoto, Return, Fresh, queueVars, enqueueVars, drainVars
  <2>2. UNCHANGED <<epc, backend, expired, late, before>>
    BY <2>1 DEF DrainStep, DrainMemory, ReadRedis, DeleteRedis, TakePostgres, DeleteExpired
  <2>3. Explained(x)
    BY <2>2
  <2>4. /\ \A e \in Drain : e # d => dpc'[e] = dpc[e] /\ hand'[e] = hand[e] /\ got'[e] = got[e]
        /\ dpc[d] \in {"new", "read", "second"} /\ got[d] = {}
    BY <1>2, <2>1 DEF DrainStep, DrainMemory, ReadRedis, DeleteRedis, TakePostgres, DeleteExpired
  <2>5. dpc[d] = "second" /\ x \in hand[d] => Explained(x)'
    <3>1. dpc[d] = "second" => DeleteExpired(d)
      BY <2>1 DEF DrainStep, DrainMemory, ReadRedis, DeleteRedis, TakePostgres
    <3>2. dpc[d] = "second" => \/ got'[d] = hand[d]
                               \/ dpc'[d] = "failed" /\ hand'[d] = hand[d]
      BY <1>2, <3>1 DEF DeleteExpired
    <3> QED BY <3>2 DEF Explained
  <2>6. x \in stored => Explained(x)'
    <3>1. CASE DrainMemory(d)
      BY <1>2, <2>2, <3>1 DEF DrainMemory, Explained
    <3>2. CASE ReadRedis(d)
      BY <3>2 DEF ReadRedis, Explained
    <3>3. CASE DeleteRedis(d)
      <4>1. stored \subseteq hand[d] \cup expired \cup late
        BY <3>3 DEF DeleteRedis, Reading
      <4>2. \/ got'[d] = hand[d]
            \/ dpc'[d] = "failed" /\ hand'[d] = hand[d]
        BY <1>2, <3>3 DEF DeleteRedis
      <4> QED BY <2>2, <4>1, <4>2 DEF Explained
    <3>4. CASE TakePostgres(d)
      <4>1. \/ stored' = stored
            \/ stored' = stored \ Fresh /\ dpc'[d] \in {"second", "failed"} /\ hand'[d] = Fresh
        BY <1>2, <3>4 DEF TakePostgres
      <4> QED BY <4>1 DEF Explained
    <3>5. CASE DeleteExpired(d)
      BY <2>2, <3>5 DEF DeleteExpired, Explained
    <3> QED BY <2>1, <3>1, <3>2, <3>3, <3>4, <3>5 DEF DrainStep
  <2> QED BY <1>1, <2>2, <2>3, <2>4, <2>5, <2>6 DEF Explained
<1>5. CASE Expire
  BY <1>1, <1>5 DEF Expire, Explained, queueVars, enqueueVars, drainVars
<1>6. CASE Restart
  <2>1. epc[x] = "ok" /\ Explained(x)
    BY <1>2, <1>6 DEF Restart
  <2>2. x \in Range(log)
    BY <2>1 DEF QueueInv, Known
  <2>3. /\ UNCHANGED <<backend, expired, late, hand, got>> /\ before' = Range(log)
        /\ backend # "memory" => stored' = stored
        /\ \A d \in Drain : dpc[d] \in {"second", "failed"} => dpc'[d] \in {"second", "failed"}
    BY <1>2, <1>6 DEF Restart
  <2> QED BY <1>1, <2>1, <2>2, <2>3 DEF Explained
<1>7. CASE UNCHANGED vars
  BY <1>1, <1>7 DEF vars, Explained, queueVars, enqueueVars, drainVars
<1> QED BY <1>3, <1>4, <1>5, <1>6, <1>7 DEF Next

\* An enqueued message that is neither queued nor returned expired, was pushed out by
\* MaxQueue younger ones, came between the XRANGE and the DEL of a drain, was in the hands
\* of a drain whose second call failed, or was in the memory of a server that restarted.
THEOREM LossesExplained == Spec => []LossExplained
<1> DEFINE I == QueueInv /\ Reading /\ \A m \in Msg : epc[m] = "ok" => Explained(m)
<1>1. Init => QueueInv
  BY QueueInvInit
<1>2. Init => I
  BY <1>1 DEF Init, Reading
<1>3. I /\ [Next]_vars => I'
  <2> SUFFICES ASSUME I, [Next]_vars PROVE I'
    OBVIOUS
  <2>1. QueueInv'
    BY QueueInvStep
  <2>2. Reading'
    BY ReadingStep
  <2>3. ASSUME NEW m \in Msg, epc'[m] = "ok" PROVE Explained(m)'
    BY <2>3, LossStep
  <2> QED BY <2>1, <2>2, <2>3
<1>4. I => LossExplained
  BY LossMeans DEF QueueInv
<1> HIDE DEF I
<1> QED BY <1>2, <1>3, <1>4, PTL DEF Spec

----------------------------------------------------------------------------
(* The limit of the queue                                                  *)

\* The open statements of PostgreSQL, and the rows they are about to drop.
Open == {m \in Msg : epc[m] = "snapshot"}
Doomed == {o \in Msg : \E m \in Open : victim[m] = o}
Excess == IF rivals = {} THEN 0 ELSE Cardinality(rivals) - 1

\* What the queue will hold when all open statements have committed.
Weight == Cardinality(stored \ Doomed) + Cardinality(Open)

Weighed ==
    /\ backend = "memory" => Size <= MaxQueue
    /\ rivals \subseteq Range(log)
    /\ backend = "postgres" => Weight <= MaxQueue + Excess

\* The queue, the open statements and the rivals are finitely many.
LEMMA Finite ==
    ASSUME QueueInv, Weighed
    PROVE  /\ IsFiniteSet(stored) /\ IsFiniteSet(Open) /\ IsFiniteSet(rivals)
           /\ IsFiniteSet(stored \ Doomed)
           /\ Size \in Nat /\ Cardinality(Open) \in Nat /\ Excess \in Nat
           /\ Cardinality(stored \ Doomed) \in Nat
<1>1. IsFiniteSet(Range(log))
  BY RangeFinite DEF QueueInv, TypeOK
<1>2. stored \subseteq Range(log) /\ Open \subseteq Range(log) /\ rivals \subseteq Range(log)
  BY DEF QueueInv, TypeOK, Known, Open, Weighed
<1>3. IsFiniteSet(stored) /\ Cardinality(stored) \in Nat
  BY <1>1, <1>2, SizeOfSubset
<1>4. IsFiniteSet(Open) /\ Cardinality(Open) \in Nat
  BY <1>1, <1>2, SizeOfSubset
<1>5. IsFiniteSet(rivals) /\ Cardinality(rivals) \in Nat
  BY <1>1, <1>2, SizeOfSubset
<1>6. IsFiniteSet(stored \ Doomed) /\ Cardinality(stored \ Doomed) \in Nat
  <2>1. stored \ Doomed \subseteq stored
    OBVIOUS
  <2> QED BY <1>3, <2>1, SizeOfSubset
<1>7. Excess \in Nat
  <2>1. rivals # {} => Cardinality(rivals) # 0
    BY <1>5, FS_EmptySet
  <2> QED BY <1>5, <2>1 DEF Excess
<1> QED BY <1>3, <1>4, <1>5, <1>6, <1>7 DEF Size

\* Each open statement drops at most one row.
LEMMA QueueWithDoomed ==
    ASSUME QueueInv, Weighed
    PROVE  Size <= Weight
<1> DEFINE W == {m \in Open : victim[m] # NoMsg}
           f == [m \in W |-> victim[m]]
<1>1. /\ W \subseteq Open /\ IsFiniteSet(Open) /\ IsFiniteSet(stored \ Doomed)
      /\ IsFiniteSet(stored) /\ victim \in [Msg -> Msg \cup {NoMsg}] /\ Open \subseteq Msg
  BY Finite DEF QueueInv, TypeOK, Open
<1>2. IsFiniteSet(W) /\ Cardinality(W) <= Cardinality(Open)
      /\ Cardinality(W) \in Nat /\ Cardinality(Open) \in Nat
  <2> HIDE DEF W
  <2> QED BY <1>1, SizeOfSubset
<1>3. f \in Surjection(W, Doomed)
  <2>1. f \in [W -> Doomed]
    BY <1>1 DEF Doomed
  <2>2. \A o \in Doomed : \E m \in W : f[m] = o
    BY <1>1 DEF Doomed
  <2> QED BY <2>1, <2>2 DEF Surjection
<1> HIDE DEF W, f
<1>4. IsFiniteSet(Doomed) /\ Cardinality(Doomed) <= Cardinality(W)
  BY <1>2, <1>3, FS_Surjection
<1>5. Cardinality(Doomed) \in Nat
  BY <1>4, FS_CardinalityType
<1>6. /\ IsFiniteSet((stored \ Doomed) \cup Doomed) /\ Cardinality(stored \ Doomed) \in Nat
      /\ Cardinality((stored \ Doomed) \cup Doomed) \in Nat
      /\ Cardinality((stored \ Doomed) \cup Doomed) <= Cardinality(stored \ Doomed) + Cardinality(Doomed)
  BY <1>1, <1>4, SizeOfUnion
<1>7. stored \subseteq (stored \ Doomed) \cup Doomed
  OBVIOUS
<1>8. /\ Cardinality(stored) \in Nat
      /\ Cardinality(stored) <= Cardinality((stored \ Doomed) \cup Doomed)
  BY <1>6, <1>7, SizeOfSubset
<1> QED BY <1>2, <1>4, <1>5, <1>6, <1>8 DEF Size, Weight

\* A full queue in memory drops its oldest message first.
LEMMA WeighedMemory ==
    ASSUME QueueInv, Weighed, NEW m \in Msg, EnqueueMemory(m)
    PROVE  Size' <= MaxQueue
<1>1. IsFiniteSet(stored) /\ Size \in Nat
  BY Finite
<1>2. CASE Size >= MaxQueue
  <2>1. stored # {}
    <3>1. Cardinality({}) = 0
      BY FS_EmptySet
    <3> QED BY <1>2, <3>1 DEF Size
  <2>2. PICK o \in Oldest(1) : TRUE
    BY <2>1, OldestExists DEF QueueInv, TypeOK
  <2>3. o \in stored /\ stored' \subseteq (stored \ {o}) \cup {m}
    BY <1>2, <2>2 DEF EnqueueMemory, Oldest
  <2>4. /\ IsFiniteSet(stored \ {o}) /\ Cardinality(stored \ {o}) \in Nat
        /\ Cardinality(stored \ {o}) = Size - 1
    BY <1>1, <2>3, SizeWithoutOne DEF Size
  <2>5. /\ IsFiniteSet((stored \ {o}) \cup {m})
        /\ Cardinality((stored \ {o}) \cup {m}) <= Cardinality(stored \ {o}) + 1
    BY <2>4, SizeWithOne
  <2>6. /\ Cardinality(stored') <= Cardinality((stored \ {o}) \cup {m})
        /\ Cardinality(stored') \in Nat /\ Cardinality((stored \ {o}) \cup {m}) \in Nat
    BY <2>3, <2>5, SizeOfSubset
  <2>7. Size <= MaxQueue
    BY DEF Weighed, EnqueueMemory
  <2> QED BY <1>1, <2>4, <2>5, <2>6, <2>7 DEF Size
<1>3. CASE ~ (Size >= MaxQueue)
  <2>1. stored' = stored \cup {m}
    BY <1>3 DEF EnqueueMemory
  <2>2. Cardinality(stored') <= Cardinality(stored) + 1 /\ Cardinality(stored') \in Nat
    BY <1>1, <2>1, SizeWithOne
  <2> QED BY <1>1, <1>3, <2>2 DEF Size
<1> QED BY <1>2, <1>3

\* A statement that starts alone finds room or a row to drop. One that overlaps weighs
\* one, and is one rival more.
LEMMA WeighedStart ==
    ASSUME QueueInv, Weighed, NEW m \in Msg, StartPostgres(m)
    PROVE  (Weight <= MaxQueue + Excess)'
<1>1. /\ IsFiniteSet(stored) /\ IsFiniteSet(Open) /\ IsFiniteSet(rivals)
      /\ IsFiniteSet(stored \ Doomed) /\ Size \in Nat /\ Cardinality(Open) \in Nat
      /\ Excess \in Nat /\ Cardinality(stored \ Doomed) \in Nat
  BY Finite
<1>2. /\ epc \in [Msg -> {"new", "snapshot", "ok", "failed"}]
      /\ victim \in [Msg -> Msg \cup {NoMsg}]
      /\ epc[m] = "new" /\ epc' = [epc EXCEPT ![m] = "snapshot"] /\ stored' = stored
      /\ \A n \in Msg : n # m => victim'[n] = victim[n]
      /\ backend = "postgres" /\ Weight <= MaxQueue + Excess
  BY DEF QueueInv, TypeOK, StartPostgres, EnqueueEnds, Weighed
<1>3. Open' = Open \cup {m} /\ m \notin Open
  BY <1>2 DEF Open
<1>4. Cardinality(Open') = Cardinality(Open) + 1
  BY <1>1, <1>3, SizeWithOne
<1>5. m \notin rivals
  BY <1>2 DEF Weighed, QueueInv, Known
<1>6. CASE Open = {}
  <2>1. Doomed = {} /\ rivals' = rivals /\ Cardinality(Open) = 0
    BY <1>6, FS_EmptySet DEF Doomed, StartPostgres, Open
  <2>2. Excess' = Excess
    BY <2>1 DEF Excess
  <2>3. Weight = Size
    <3>1. stored \ Doomed = stored
      BY <2>1
    <3> QED BY <1>1, <2>1, <3>1 DEF Weight, Size
  <2>4. CASE Size >= MaxQueue
    <3>1. PICK o \in stored : victim'[m] = o
      BY <2>4, Victim DEF QueueInv
    <3>2. o \in Doomed'
      <4>1. stored \subseteq Msg
        BY RangeFinite DEF QueueInv, TypeOK
      <4> QED BY <1>3, <3>1, <4>1 DEF Doomed
    <3>3. stored' \ Doomed' \subseteq stored \ {o}
      BY <1>2, <3>2
    <3>4. IsFiniteSet(stored \ {o}) /\ Cardinality(stored \ {o}) = Size - 1
          /\ Cardinality(stored \ {o}) \in Nat
      BY <1>1, SizeWithoutOne DEF Size
    <3>5. /\ Cardinality(stored' \ Doomed') <= Cardinality(stored \ {o})
          /\ Cardinality(stored' \ Doomed') \in Nat
      BY <3>3, <3>4, SizeOfSubset
    <3> QED BY <1>1, <1>2, <1>4, <2>1, <2>2, <2>3, <3>4, <3>5 DEF Weight
  <2>5. CASE ~ (Size >= MaxQueue)
    <3>1. stored' \ Doomed' \subseteq stored
      BY <1>2
    <3>2. Cardinality(stored' \ Doomed') <= Size /\ Cardinality(stored' \ Doomed') \in Nat
      BY <1>1, <3>1, SizeOfSubset DEF Size
    <3> QED BY <1>1, <1>4, <2>1, <2>2, <2>5, <3>2 DEF Weight
  <2> QED BY <2>4, <2>5
<1>7. CASE Open # {}
  <2>1. rivals' = rivals \cup Open \cup {m}
    BY <1>7 DEF StartPostgres, Open
  <2>2. Doomed \subseteq Doomed'
    BY <1>2, <1>3 DEF Doomed, Open
  <2>3. stored' \ Doomed' \subseteq stored \ Doomed
    BY <1>2, <2>2
  <2>4. /\ Cardinality(stored' \ Doomed') <= Cardinality(stored \ Doomed)
        /\ Cardinality(stored' \ Doomed') \in Nat
    BY <1>1, <2>3, SizeOfSubset
  <2>5. Excess' >= Excess + 1 /\ Excess' \in Nat
    <3>1. IsFiniteSet(rivals \cup Open) /\ Cardinality(rivals \cup Open) \in Nat
      BY <1>1, SizeOfUnion
    <3>2. /\ Cardinality((rivals \cup Open) \cup {m}) = Cardinality(rivals \cup Open) + 1
      BY <1>3, <1>5, <3>1, SizeWithOne
    <3>3. rivals' # {} /\ Excess' = Cardinality(rivals \cup Open)
      BY <2>1, <3>1, <3>2 DEF Excess
    <3>4. rivals \subseteq rivals \cup Open
      OBVIOUS
    <3>5. Cardinality(rivals) <= Cardinality(rivals \cup Open) /\ Cardinality(rivals) \in Nat
      BY <3>1, <3>4, SizeOfSubset
    <3>6. Cardinality(rivals \cup Open) # 0
      BY <1>7, <3>1, FS_EmptySet
    <3> QED BY <3>1, <3>3, <3>5, <3>6 DEF Excess
  <2> QED BY <1>1, <1>2, <1>4, <2>4, <2>5 DEF Weight
<1> QED BY <1>6, <1>7

\* A statement that commits, or fails, adds one row to what stays at most.
LEMMA WeighedCommit ==
    ASSUME QueueInv, Weighed, NEW m \in Msg, CommitPostgres(m)
    PROVE  Weight' <= Weight
<1>1. /\ IsFiniteSet(Open) /\ IsFiniteSet(stored \ Doomed) /\ Cardinality(Open) \in Nat
      /\ Cardinality(stored \ Doomed) \in Nat
  BY Finite
<1>2. /\ epc \in [Msg -> {"new", "snapshot", "ok", "failed"}]
      /\ victim \in [Msg -> Msg \cup {NoMsg}]
      /\ epc[m] = "snapshot" /\ epc'[m] # "snapshot"
      /\ \A n \in Msg : n # m => victim'[n] = victim[n] /\ epc'[n] = epc[n]
      /\ stored' = (stored \ {victim[m]}) \cup {m} \/ stored' = stored
  BY DEF QueueInv, TypeOK, CommitPostgres, EnqueueEnds
<1>3. Open' = Open \ {m} /\ m \in Open
  BY <1>2 DEF Open
<1>4. Cardinality(Open') = Cardinality(Open) - 1
  BY <1>1, <1>3, SizeWithoutOne
<1>5. Doomed \ {victim[m]} \subseteq Doomed'
  <2> SUFFICES ASSUME NEW o \in Doomed, o # victim[m] PROVE o \in Doomed'
    OBVIOUS
  <2>1. PICK n \in Open : victim[n] = o
    BY DEF Doomed
  <2>2. n # m /\ n \in Open' /\ victim'[n] = o /\ o \in Msg
    BY <1>2, <1>3, <2>1 DEF Open, Doomed
  <2> QED BY <2>2 DEF Doomed
<1>6. \E y : stored' \ Doomed' \subseteq (stored \ Doomed) \cup {y}
  <2>1. CASE stored' = (stored \ {victim[m]}) \cup {m}
    <3>1. stored' \ Doomed' \subseteq (stored \ Doomed) \cup {m}
      BY <1>5, <2>1
    <3> QED BY <3>1
  <2>2. CASE stored' = stored
    <3>1. stored' \ Doomed' \subseteq (stored \ Doomed) \cup {victim[m]}
      BY <1>5, <2>2
    <3> QED BY <3>1
  <2> QED BY <1>2, <2>1, <2>2
<1>7. PICK y : stored' \ Doomed' \subseteq (stored \ Doomed) \cup {y}
  BY <1>6
<1>8. /\ IsFiniteSet((stored \ Doomed) \cup {y}) /\ Cardinality((stored \ Doomed) \cup {y}) \in Nat
      /\ Cardinality((stored \ Doomed) \cup {y}) <= Cardinality(stored \ Doomed) + 1
  BY <1>1, SizeWithOne
<1>9. /\ Cardinality(stored' \ Doomed') <= Cardinality((stored \ Doomed) \cup {y})
      /\ Cardinality(stored' \ Doomed') \in Nat
  BY <1>7, <1>8, SizeOfSubset
<1> QED BY <1>1, <1>4, <1>8, <1>9 DEF Weight

\* Fewer rows weigh less.
LEMMA WeighedLess ==
    ASSUME QueueInv, Weighed, stored' \subseteq stored, UNCHANGED <<backend, epc, victim, rivals>>
    PROVE  /\ backend' = "memory" => Size' <= MaxQueue
           /\ backend' = "postgres" => (Weight <= MaxQueue + Excess)'
<1>1. /\ IsFiniteSet(stored) /\ IsFiniteSet(stored \ Doomed) /\ Cardinality(Open) \in Nat
      /\ Size \in Nat /\ Excess \in Nat /\ Cardinality(stored \ Doomed) \in Nat
  BY Finite
<1>2. Open' = Open /\ Doomed' = Doomed /\ Excess' = Excess
  BY DEF Open, Doomed, Excess
<1>3. stored' \ Doomed' \subseteq stored \ Doomed
  BY <1>2
<1>4. /\ Cardinality(stored' \ Doomed') <= Cardinality(stored \ Doomed)
      /\ Cardinality(stored' \ Doomed') \in Nat
  BY <1>1, <1>3, SizeOfSubset
<1>5. Cardinality(stored') <= Cardinality(stored) /\ Cardinality(stored') \in Nat
  BY <1>1, SizeOfSubset
<1>6. backend' = "memory" => Size' <= MaxQueue
  BY <1>1, <1>5 DEF Weighed, Size
<1>7. backend' = "postgres" => (Weight <= MaxQueue + Excess)'
  <2> SUFFICES ASSUME backend' = "postgres"
               PROVE  Cardinality(stored' \ Doomed') + Cardinality(Open') <= MaxQueue + Excess'
    BY DEF Weight
  <2>1. Cardinality(stored \ Doomed) + Cardinality(Open) <= MaxQueue + Excess
    BY DEF Weighed, Weight
  <2> QED BY <1>1, <1>2, <1>4, <2>1
<1> QED BY <1>6, <1>7

\* No step weighs more than it may.
LEMMA WeighedStep ==
    ASSUME QueueInv, Weighed, [Next]_vars
    PROVE  Weighed'
<1>1. Range(log) \subseteq Range(log') /\ backend' = backend
  BY LogGrows DEF QueueInv
<1>2. QueueInv'
  BY QueueInvStep
<1>3. CASE \E m \in Msg : EnqueueStep(m)
  <2>1. PICK m \in Msg : EnqueueStep(m)
    BY <1>3
  <2>2. CASE EnqueueMemory(m)
    BY <1>1, <2>2, WeighedMemory DEF EnqueueMemory, Weighed
  <2>3. CASE EnqueueRedis(m)
    BY <1>1, <2>3 DEF EnqueueRedis, Weighed
  <2>4. CASE StartPostgres(m)
    <3>1. (Weight <= MaxQueue + Excess)'
      BY <2>4, WeighedStart
    <3>2. rivals' \subseteq Range(log')
      <4>1. m \in Range(log')
        BY <1>2, <2>4 DEF StartPostgres, EnqueueEnds, QueueInv, Known, TypeOK
      <4>2. {n \in Msg : epc[n] = "snapshot"} \subseteq Range(log) /\ rivals \subseteq Range(log)
        BY DEF QueueInv, Known, Weighed
      <4> QED BY <1>1, <2>4, <4>1, <4>2 DEF StartPostgres
    <3> QED BY <1>1, <2>4, <3>1, <3>2 DEF StartPostgres, Weighed
  <2>5. CASE CommitPostgres(m)
    <3>1. Weight' <= Weight
      BY <2>5, WeighedCommit
    <3>2. rivals' = rivals /\ backend = "postgres" /\ Excess' = Excess
      BY <2>5 DEF CommitPostgres, QueueInv, Known, Excess
    <3>3. /\ Excess \in Nat /\ Cardinality(Open) \in Nat /\ Cardinality(stored \ Doomed) \in Nat
          /\ rivals' \subseteq Range(log')
      BY <1>1, <3>2, Finite DEF Weighed
    <3>4. Weight \in Nat /\ Weight <= MaxQueue + Excess
      BY <3>2, <3>3 DEF Weight, Weighed
    <3>5. Weight' \in Int
      <4>1. IsFiniteSet(Range(log'))
        BY <1>2, RangeFinite DEF QueueInv, TypeOK
      <4>2. stored' \ Doomed' \subseteq Range(log') /\ Open' \subseteq Range(log')
        BY <1>2 DEF QueueInv, TypeOK, Known, Open
      <4>3. Cardinality(stored' \ Doomed') \in Nat
        BY <4>1, <4>2, SizeOfSubset
      <4>4. Cardinality(Open') \in Nat
        BY <4>1, <4>2, SizeOfSubset
      <4> QED BY <4>3, <4>4 DEF Weight
    <3>6. Weight' <= MaxQueue + Excess'
      <4> HIDE DEF Weight, Excess
      <4> QED BY <3>1, <3>2, <3>3, <3>4, <3>5
    <3> QED BY <1>1, <3>2, <3>3, <3>6 DEF Weighed
  <2> QED BY <2>1, <2>2, <2>3, <2>4, <2>5 DEF EnqueueStep
<1>4. CASE (\E d \in Drain : DrainStep(d)) \/ Expire \/ UNCHANGED vars
  <2>1. stored' \subseteq stored /\ UNCHANGED <<backend, epc, victim, rivals>>
    BY <1>4 DEF DrainStep, DrainMemory, ReadRedis, DeleteRedis, TakePostgres, DeleteExpired,
                Expire, Fresh, vars, queueVars, enqueueVars
  <2> QED BY <1>1, <2>1, WeighedLess DEF Weighed
<1>5. CASE Restart
  <2>1. rivals' = rivals /\ (stored' = {} \/ stored' = stored) /\ (backend = "postgres" => stored' = stored)
    BY <1>5 DEF Restart
  <2>2. Open' = {} /\ Doomed' = {} /\ Excess' = Excess
    BY <1>5, <2>1 DEF Restart, Open, Doomed, Excess, QueueInv, TypeOK
  <2>3. Cardinality(Open') = 0
    BY <2>2, FS_EmptySet
  <2>4. Size <= Weight /\ Size \in Nat /\ Excess \in Nat /\ Weight \in Nat
    BY QueueWithDoomed, Finite DEF Weight
  <2>5. backend = "postgres" => (Weight <= MaxQueue + Excess)'
    <3> SUFFICES ASSUME backend = "postgres"
                 PROVE  Cardinality(stored' \ Doomed') + Cardinality(Open') <= MaxQueue + Excess'
      BY DEF Weight
    <3>1. stored' \ Doomed' = stored
      BY <2>1, <2>2
    <3>2. Cardinality(stored' \ Doomed') = Size
      BY <3>1 DEF Size
    <3>3. Weight <= MaxQueue + Excess
      BY DEF Weighed
    <3> HIDE DEF Weight, Excess, Size
    <3> QED BY <2>2, <2>3, <2>4, <3>2, <3>3
  <2>6. backend = "memory" => Size' <= MaxQueue
    <3>1. CASE stored' = {}
      BY <3>1, FS_EmptySet DEF Size
    <3>2. CASE stored' = stored
      BY <3>2 DEF Size, Weighed
    <3> QED BY <2>1, <3>1, <3>2
  <2> QED BY <1>1, <2>1, <2>5, <2>6 DEF Weighed
<1> QED BY <1>3, <1>4, <1>5 DEF Next

\* The memory backend never holds more than MaxQueue messages. In PostgreSQL each of the
\* enqueue statements that ever overlapped, but one, may exceed the limit by one row.
THEOREM QueueBounded == Spec => []SizeBound
<1>1. Init => Weighed
  <2> SUFFICES ASSUME Init PROVE Weighed
    OBVIOUS
  <2>1. stored = {} /\ rivals = {} /\ Open = {} /\ stored \ Doomed = {}
    BY DEF Init, Open
  <2>2. Size = 0 /\ Weight = 0 /\ Excess = 0
    BY <2>1, FS_EmptySet DEF Size, Weight, Excess
  <2> QED BY <2>1, <2>2 DEF Weighed
<1>2. QueueInv /\ Weighed /\ [Next]_vars => Weighed'
  BY WeighedStep
<1>3. QueueInv /\ Weighed => SizeBound
  <2> SUFFICES ASSUME QueueInv, Weighed, backend = "postgres"
               PROVE  Size <= MaxQueue + Excess
    BY DEF SizeBound, Weighed, Excess
  <2>1. Size <= Weight /\ Weight <= MaxQueue + Excess
    BY QueueWithDoomed DEF Weighed
  <2>2. Size \in Nat /\ Excess \in Nat /\ Weight \in Nat
    BY Finite DEF Weight
  <2> HIDE DEF Size, Weight, Excess
  <2> QED BY <2>1, <2>2
<1> QED BY <1>1, <1>2, <1>3, QueueInvariant, PTL DEF Spec
=============================================================================

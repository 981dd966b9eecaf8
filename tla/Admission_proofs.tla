-------------------------- MODULE Admission_proofs --------------------------
(***************************************************************************)
(* The rate limiter never lets more through than an exact token bucket     *)
(* would, for every limit, rate, clock resolution and number of times the  *)
(* clock is set back, alone and in front of the registry.                  *)
(***************************************************************************)
EXTENDS Admission, TLAPS

USE LimiterConstantsOK

\* What the exact bucket has is never less than what the code's bucket, with the time
\* that has passed since its last refill, will ever find.
NeverBehind ==
    \A b \in Bucket :
        ideal[b] >= AtMost(Capacity(b) * Ticks, tokens[b] * Ticks + Span(b) * RefillRate(b))

LimiterInv == LimiterTypeOK /\ NeverBehind

----------------------------------------------------------------------------
(* Arithmetic                                                              *)

\* Capacity and rate are natural numbers (RateLimitConfig).
LEMMA LimitsType ==
    ASSUME NEW b \in Bucket
    PROVE  Capacity(b) \in Nat /\ RefillRate(b) \in Nat
<1>1. WsConnectionsPerMinute # 0 => (WsConnectionsPerMinute + 59) \div 60 \in Nat
  OBVIOUS
<1> QED BY <1>1 DEF Capacity, RefillRate

\* A product of natural numbers is one.
LEMMA ProductType ==
    ASSUME NEW x \in Nat, NEW y \in Nat
    PROVE  x * y \in Nat
OBVIOUS

\* A product grows with its first factor.
LEMMA ProductGrows ==
    ASSUME NEW x \in Int, NEW y \in Int, NEW z \in Nat, x <= y
    PROVE  x * z <= y * z
OBVIOUS

\* The tokens of the quotient that try_consume_n computes are worth no more than the
\* time it was computed from.
LEMMA QuotientLoses ==
    ASSUME NEW x \in Nat
    PROVE  x \div Ticks \in Nat /\ (x \div Ticks) * Ticks <= x
<1>1. x \div Ticks \in Int /\ x % Ticks \in 0..(Ticks - 1)
  OBVIOUS
<1>2. x = Ticks * (x \div Ticks) + (x % Ticks)
  OBVIOUS
<1> QED BY <1>1, <1>2

\* A negative time span counts as none.
LEMMA SpanType ==
    ASSUME LimiterTypeOK, NEW b \in Bucket
    PROVE  Span(b) \in Nat
BY DEF Span, LimiterTypeOK

\* What a check finds is at most the capacity, and worth no more than tokens and time.
LEMMA AvailableWorth ==
    ASSUME LimiterTypeOK, NEW b \in Bucket
    PROVE  /\ Available(b) \in Nat /\ Available(b) <= Capacity(b)
           /\ Available(b) * Ticks
                <= AtMost(Capacity(b) * Ticks, tokens[b] * Ticks + Span(b) * RefillRate(b))
<1> DEFINE c == Capacity(b)
           t == tokens[b]
           w == Span(b) * RefillRate(b)
           q == w \div Ticks
<1>1. c \in Nat /\ t \in Nat /\ w \in Nat
  BY LimitsType, SpanType, ProductType DEF LimiterTypeOK
<1>2. q \in Nat /\ q * Ticks <= w
  BY <1>1, QuotientLoses
<1>3. Available(b) = AtMost(t + q, c)
  BY DEF Available
<1>4. Available(b) \in Nat /\ Available(b) <= c /\ Available(b) <= t + q
  <2> HIDE DEF c, t, q, w
  <2> QED BY <1>1, <1>2, <1>3 DEF AtMost
<1>5. Available(b) * Ticks <= c * Ticks
  BY <1>1, <1>4, ProductGrows
<1>6. Available(b) * Ticks <= (t + q) * Ticks
  <2> HIDE DEF c, t, q, w
  <2> QED BY <1>1, <1>2, <1>4, ProductGrows
<1>7. (t + q) * Ticks = t * Ticks + q * Ticks
  <2> HIDE DEF c, t, q, w
  <2> QED BY <1>1, <1>2
<1>8. t * Ticks \in Nat /\ q * Ticks \in Nat /\ c * Ticks \in Nat
      /\ Available(b) * Ticks \in Nat
  <2> HIDE DEF c, t, q, w
  <2> QED BY <1>1, <1>2, <1>4, ProductType
<1>9. Available(b) * Ticks <= AtMost(c * Ticks, t * Ticks + w)
  <2> HIDE DEF c, t, q, w
  <2> QED BY <1>1, <1>2, <1>5, <1>6, <1>7, <1>8 DEF AtMost
<1> QED BY <1>4, <1>9

----------------------------------------------------------------------------
(* The invariant                                                           *)

\* The limiter starts within its bounds.
LEMMA LimiterInitInv == LimiterInit => LimiterInv
<1> SUFFICES ASSUME LimiterInit PROVE LimiterInv
  OBVIOUS
<1>1. \A b \in Bucket : Capacity(b) \in Nat /\ RefillRate(b) \in Nat /\ Capacity(b) * Ticks \in Nat
  BY LimitsType, ProductType
<1>2. LimiterTypeOK
  BY <1>1 DEF LimiterInit, LimiterTypeOK
<1>3. NeverBehind
  <2> SUFFICES ASSUME NEW b \in Bucket
               PROVE  ideal[b] >= AtMost(Capacity(b) * Ticks, tokens[b] * Ticks + Span(b) * RefillRate(b))
    BY DEF NeverBehind
  <2>1. Span(b) = 0 /\ ideal[b] = Capacity(b) * Ticks /\ tokens[b] = Capacity(b)
    BY DEF LimiterInit, Span
  <2>2. Span(b) * RefillRate(b) = 0
    BY <2>1, <1>1
  <2> QED BY <2>1, <2>2, <1>1 DEF AtMost
<1> QED BY <1>2, <1>3 DEF LimiterInv

\* The rest of a token that a refill drops is the exact bucket's gain.
LEMMA TryConsumeInv ==
    ASSUME LimiterInv, NEW b \in Bucket, TryConsume(b)
    PROVE  LimiterInv'
<1> USE DEF LimiterInv
<1>1. Available(b) \in Nat /\ Available(b) <= Capacity(b) /\ Available(b) >= 1
      /\ Available(b) * Ticks
           <= AtMost(Capacity(b) * Ticks, tokens[b] * Ticks + Span(b) * RefillRate(b))
  BY AvailableWorth DEF TryConsume
<1>2. LimiterTypeOK'
  BY <1>1, LimitsType DEF LimiterTypeOK, TryConsume
<1>3. NeverBehind'
  <2> SUFFICES ASSUME NEW d \in Bucket
               PROVE  ideal'[d] >= AtMost(Capacity(d) * Ticks, tokens'[d] * Ticks + Span(d)' * RefillRate(d))
    BY DEF NeverBehind, Capacity, RefillRate
  <2>1. CASE d # b
    BY <2>1 DEF TryConsume, LimiterTypeOK, NeverBehind, Span
  <2>2. CASE d = b
    <3>1. ideal'[b] = ideal[b] - Ticks /\ tokens'[b] = Available(b) - 1 /\ elapsed'[b] = 0
      BY DEF TryConsume, LimiterTypeOK
    <3>2. Span(b)' = 0
      BY <3>1 DEF Span
    <3>3. Span(b)' * RefillRate(b) = 0
      BY <3>2, LimitsType
    <3>4. ideal[b] \in Int
          /\ ideal[b] >= AtMost(Capacity(b) * Ticks, tokens[b] * Ticks + Span(b) * RefillRate(b))
      BY DEF LimiterTypeOK, NeverBehind
    <3>5. AtMost(Capacity(b) * Ticks, tokens[b] * Ticks + Span(b) * RefillRate(b)) \in Int
      <4>1. Capacity(b) * Ticks \in Nat /\ tokens[b] * Ticks \in Nat /\ Span(b) * RefillRate(b) \in Nat
        BY LimitsType, SpanType, ProductType DEF LimiterTypeOK
      <4> QED BY <4>1 DEF AtMost
    <3>6. Available(b) * Ticks \in Nat /\ ideal[b] >= Available(b) * Ticks
      BY <3>4, <3>5, <1>1, ProductType
    <3>7. (Available(b) - 1) * Ticks = Available(b) * Ticks - Ticks
      BY <1>1
    <3>8. ideal'[b] >= tokens'[b] * Ticks + Span(b)' * RefillRate(b)
      BY <3>1, <3>3, <3>4, <3>6, <3>7
    <3>9. Capacity(b) * Ticks \in Nat
      BY LimitsType, ProductType
    <3> QED BY <2>2, <3>1, <3>3, <3>4, <3>6, <3>7, <3>8, <3>9 DEF AtMost
  <2> QED BY <2>1, <2>2
<1> QED BY <1>2, <1>3

\* Time is worth the same to both buckets.
LEMMA TickInv ==
    ASSUME LimiterInv, Tick
    PROVE  LimiterInv'
<1> USE DEF LimiterInv
<1>1. LimiterTypeOK'
  <2>1. \A b \in Bucket : AtMost(ideal[b] + RefillRate(b), Capacity(b) * Ticks) \in Int
    BY LimitsType, ProductType DEF AtMost, LimiterTypeOK
  <2> QED BY <2>1 DEF LimiterTypeOK, Tick, Capacity
<1>2. NeverBehind'
  <2> SUFFICES ASSUME NEW b \in Bucket
               PROVE  ideal'[b] >= AtMost(Capacity(b) * Ticks, tokens'[b] * Ticks + Span(b)' * RefillRate(b))
    BY DEF NeverBehind, Capacity, RefillRate
  <2> DEFINE c == Capacity(b) * Ticks
             t == tokens[b] * Ticks
             r == RefillRate(b)
             w == Span(b) * r
  <2>1. c \in Nat /\ t \in Nat /\ r \in Nat /\ w \in Nat /\ ideal[b] \in Int /\ Span(b) \in Nat
    BY LimitsType, SpanType, ProductType DEF LimiterTypeOK
  <2>2. ideal[b] >= AtMost(c, t + w)
    BY DEF NeverBehind
  <2>3. ideal'[b] = AtMost(ideal[b] + r, c) /\ tokens'[b] * Ticks = t
    BY DEF Tick
  <2>4. CASE w >= c
    <3>1. Span(b)' = Span(b)
      BY <2>4 DEF Tick, Span
    <3>2. Span(b)' * RefillRate(b) = w
      BY <3>1
    <3> HIDE DEF c, t, r, w
    <3> QED BY <2>1, <2>2, <2>3, <2>4, <3>2 DEF AtMost, c, r
  <2>5. CASE ~ (w >= c)
    <3>1. elapsed'[b] = elapsed[b] + 1 /\ elapsed[b] \in Int
      BY <2>5 DEF Tick, LimiterTypeOK
    <3>2. Span(b)' \in Nat /\ Span(b)' <= Span(b) + 1
      BY <3>1 DEF Span
    <3>3. Span(b)' * r <= (Span(b) + 1) * r
      BY <3>2, <2>1, ProductGrows
    <3>4. (Span(b) + 1) * r = w + r
      BY <2>1
    <3>5. Span(b)' * r \in Nat
      BY <3>2, <2>1, ProductType
    <3>6. ideal'[b] >= AtMost(c, t + Span(b)' * r)
      <4> DEFINE s == Span(b)' * r
      <4>1. s \in Nat /\ s <= w + r
        BY <3>3, <3>4, <3>5
      <4> HIDE DEF c, t, r, w, s
      <4>2. AtMost(ideal[b] + r, c) >= AtMost(c, t + s)
        BY <2>1, <2>2, <4>1 DEF AtMost
      <4> QED BY <2>3, <4>2 DEF s
    <3> QED BY <3>6, <2>3
  <2> QED BY <2>4, <2>5
<1> QED BY <1>1, <1>2

\* A clock that is set back costs the code's bucket time, and the exact one nothing.
LEMMA SetBackInv ==
    ASSUME LimiterInv, SetBack
    PROVE  LimiterInv'
<1> USE DEF LimiterInv
<1>1. LimiterTypeOK'
  BY DEF LimiterTypeOK, SetBack, Capacity
<1>2. NeverBehind'
  <2> SUFFICES ASSUME NEW b \in Bucket
               PROVE  ideal'[b] >= AtMost(Capacity(b) * Ticks, tokens'[b] * Ticks + Span(b)' * RefillRate(b))
    BY DEF NeverBehind, Capacity, RefillRate
  <2> DEFINE c == Capacity(b) * Ticks
             t == tokens[b] * Ticks
             r == RefillRate(b)
             w == Span(b) * r
             s == Span(b)' * r
  <2>1. c \in Nat /\ t \in Nat /\ r \in Nat /\ w \in Nat /\ ideal[b] \in Int /\ Span(b) \in Nat
    BY LimitsType, SpanType, ProductType DEF LimiterTypeOK
  <2>2. ideal[b] >= AtMost(c, t + w)
    BY DEF NeverBehind
  <2>3. elapsed'[b] = elapsed[b] - 1 /\ elapsed[b] \in Int
    BY DEF SetBack, LimiterTypeOK
  <2>4. Span(b)' \in Nat /\ Span(b)' <= Span(b)
    BY <2>3 DEF Span
  <2>5. s \in Nat /\ s <= w
    BY <2>1, <2>4, ProductGrows, ProductType
  <2>6. ideal'[b] = ideal[b] /\ tokens'[b] * Ticks = t
    BY DEF SetBack
  <2>7. ideal[b] >= AtMost(c, t + s)
    <3> HIDE DEF c, t, r, w, s
    <3> QED BY <2>1, <2>2, <2>5 DEF AtMost
  <2> QED BY <2>6, <2>7
<1> QED BY <1>1, <1>2

\* Every step of the limiter keeps its bounds.
LEMMA LimiterStepInv == LimiterInv /\ [LimiterNext]_limiter => LimiterInv'
<1> SUFFICES ASSUME LimiterInv, [LimiterNext]_limiter PROVE LimiterInv'
  OBVIOUS
<1>1. ASSUME NEW b \in Bucket, TryConsume(b) PROVE LimiterInv'
  BY <1>1, TryConsumeInv
<1>2. CASE Tick
  BY <1>2, TickInv
<1>3. CASE SetBack
  BY <1>3, SetBackInv
<1>4. CASE UNCHANGED limiter
  BY <1>4 DEF LimiterInv, LimiterTypeOK, NeverBehind, Span, limiter, Capacity, RefillRate
<1> QED BY <1>1, <1>2, <1>3, <1>4 DEF LimiterNext, CheckKey, Deny

\* The exact bucket is in credit whenever it is ahead of the code's.
LEMMA NeverBehindConforms == LimiterInv => Conforms
<1> SUFFICES ASSUME LimiterInv, NEW b \in Bucket PROVE ideal[b] >= 0
  BY DEF Conforms
<1>1. Capacity(b) * Ticks \in Nat /\ tokens[b] * Ticks \in Nat /\ Span(b) * RefillRate(b) \in Nat
  BY LimitsType, SpanType, ProductType DEF LimiterTypeOK, LimiterInv
<1> QED BY <1>1 DEF LimiterInv, NeverBehind, AtMost, LimiterTypeOK

\* No bucket holds more than its capacity, however check_ip and check_key are called.
THEOREM BucketsBounded == LimiterSpec => []LimiterTypeOK
<1>1. LimiterInit => LimiterInv
  BY LimiterInitInv
<1>2. LimiterInv /\ [LimiterNext]_limiter => LimiterInv'
  BY LimiterStepInv
<1>3. LimiterInv => LimiterTypeOK
  BY DEF LimiterInv
<1> QED BY <1>1, <1>2, <1>3, PTL DEF LimiterSpec

\* No request passes that an exact token bucket would refuse (try_consume_n).
THEOREM LimiterConforms == LimiterSpec => []Conforms
<1>1. LimiterInit => LimiterInv
  BY LimiterInitInv
<1>2. LimiterInv /\ [LimiterNext]_limiter => LimiterInv'
  BY LimiterStepInv
<1>3. LimiterInv => Conforms
  BY NeverBehindConforms
<1> QED BY <1>1, <1>2, <1>3, PTL DEF LimiterSpec

\* In front of the registry the limiter does what it does alone: the middlewares, the
\* handlers and the tasks of the registry take no other steps with it.
THEOREM AdmissionLimits == AdmissionSpec => LimiterSpec
<1>1. AdmissionInit => LimiterInit
  BY DEF AdmissionInit
<1>2. [AdmissionNext]_all => [LimiterNext]_limiter
  <2> SUFFICES ASSUME [AdmissionNext]_all PROVE [LimiterNext]_limiter
    OBVIOUS
  <2>1. \A c \in Conn : IpOf[c] \in Bucket
    BY IpOfOK DEF Bucket
  <2>2. ASSUME NEW c \in Conn, Pass(c) \/ Refuse(c) PROVE LimiterNext
    BY <2>1, <2>2 DEF Pass, Refuse, LimiterNext, CheckKey
  <2>3. ASSUME NEW c \in Conn, Enter(c) \/ Reject(c) PROVE UNCHANGED limiter
    BY <2>3 DEF Enter, Reject
  <2>4. ASSUME NEW k \in ApiKey, Request(k) PROVE LimiterNext
    BY <2>4 DEF Request, LimiterNext, Bucket
  <2>5. CASE (Tick \/ SetBack) /\ UNCHANGED <<vars, passed>>
    BY <2>5 DEF LimiterNext
  <2>6. CASE RegistryStep /\ UNCHANGED <<limiter, passed>>
    BY <2>6
  <2>7. CASE UNCHANGED all
    BY <2>7 DEF all
  <2> QED BY <2>2, <2>3, <2>4, <2>5, <2>6, <2>7 DEF AdmissionNext
<1> QED BY <1>1, <1>2, PTL DEF AdmissionSpec, LimiterSpec

\* Hence no request or connection passes the middlewares that an exact bucket would
\* refuse.
THEOREM AdmissionConforms == AdmissionSpec => []Conforms
BY AdmissionLimits, LimiterConforms, PTL
=============================================================================

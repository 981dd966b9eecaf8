---------------------------- MODULE RateLimiter ----------------------------
(***************************************************************************)
(* The token buckets of src/domain/ratelimit: one per API key (check_key)  *)
(* and one per IP address (check_ip). A check holds its map entry from     *)
(* beginning to end, so it is one step. A bucket that does not exist yet   *)
(* behaves as a full one. Time is counted in clock ticks, Ticks of them    *)
(* (1000 in the code) to the second.                                       *)
(*                                                                         *)
(* Left out: the width of the u32 counters, which a bucket left alone for  *)
(* more than a year would exceed, and cleanup_stale, which nothing calls.  *)
(***************************************************************************)
EXTENDS Integers

CONSTANTS
    Ip, ApiKey,               \* addresses; values of X-API-Key, or the address without one
    WsConnectionsPerMinute, HttpBurstSize, HttpRequestsPerSecond,
    Ticks,
    MaxBack                   \* bound: how often the clock is set back

Bucket == Ip \cup ApiKey

ASSUME LimiterConstantsOK ==
    /\ WsConnectionsPerMinute \in Nat /\ HttpBurstSize \in Nat
    /\ HttpRequestsPerSecond \in Nat
    /\ Ticks \in Nat \ {0} /\ MaxBack \in Nat

VARIABLES
    tokens,   \* tokens[b]
    elapsed,  \* elapsed[b]: the clock minus last_refill
    back,     \* how often the clock was set back
    ideal     \* history: an exact bucket, in Ticks-ths of a token

limiter == <<tokens, elapsed, back, ideal>>

AtMost(x, y) == IF x <= y THEN x ELSE y

Capacity(b) == IF b \in Ip THEN WsConnectionsPerMinute ELSE HttpBurstSize

\* Connections per minute become tokens per second, rounded up.
RefillRate(b) ==
    IF b \in Ip
    THEN IF WsConnectionsPerMinute = 0 THEN 1 ELSE (WsConnectionsPerMinute + 59) \div 60
    ELSE HttpRequestsPerSecond

LimiterInit ==
    /\ tokens = [b \in Bucket |-> Capacity(b)]
    /\ elapsed = [b \in Bucket |-> 0]
    /\ back = 0
    /\ ideal = [b \in Bucket |-> Capacity(b) * Ticks]

LimiterTypeOK ==
    /\ tokens \in [Bucket -> Nat] /\ \A b \in Bucket : tokens[b] <= Capacity(b)
    /\ elapsed \in [Bucket -> Int]
    /\ back \in 0..MaxBack
    /\ ideal \in [Bucket -> Int]

\* Fault: a negative time span is used as it is, and becomes a large unsigned one.
SpanUnclamped(b) == IF elapsed[b] < 0 THEN Capacity(b) * Ticks ELSE elapsed[b]

Span(b) == IF elapsed[b] < 0 THEN 0 ELSE elapsed[b]

\* What a check finds: whole tokens only, and no more than the capacity.
Available(b) == AtMost(tokens[b] + (Span(b) * RefillRate(b)) \div Ticks, Capacity(b))

\* try_consume_n(1) with success: last_refill is now, the rest of a token is lost.
TryConsume(b) ==
    /\ Available(b) >= 1
    /\ tokens' = [tokens EXCEPT ![b] = Available(b) - 1]
    /\ elapsed' = [elapsed EXCEPT ![b] = 0]
    /\ ideal' = [ideal EXCEPT ![b] = @ - Ticks]
    /\ UNCHANGED back

\* Fault: a refused check stores the time as well.
DenyStamps(b) ==
    /\ Available(b) < 1
    /\ elapsed' = [elapsed EXCEPT ![b] = 0]
    /\ UNCHANGED <<tokens, back, ideal>>

\* A refused check leaves the bucket alone.
Deny(b) == Available(b) < 1 /\ UNCHANGED limiter

CheckKey(k) == TryConsume(k) \/ Deny(k)

\* A tick of the system clock. Once a bucket is full its age no longer matters.
Tick ==
    /\ elapsed' = [b \in Bucket |-> IF Span(b) * RefillRate(b) >= Capacity(b) * Ticks
                                    THEN elapsed[b] ELSE elapsed[b] + 1]
    /\ ideal' = [b \in Bucket |-> AtMost(ideal[b] + RefillRate(b), Capacity(b) * Ticks)]
    /\ UNCHANGED <<tokens, back>>

\* The system clock is set back by a tick.
SetBack ==
    /\ back < MaxBack
    /\ back' = back + 1
    /\ elapsed' = [b \in Bucket |-> elapsed[b] - 1]
    /\ UNCHANGED <<tokens, ideal>>

LimiterNext ==
    \/ \E b \in Bucket : CheckKey(b)
    \/ Tick \/ SetBack

LimiterSpec == LimiterInit /\ [][LimiterNext]_limiter

\* No check is allowed that an exact token bucket of the same capacity and rate
\* would refuse, whatever is rounded, lost or set back in between (try_consume_n,
\* token_bucket.rs:49-80).
Conforms == \A b \in Bucket : ideal[b] >= 0
=============================================================================

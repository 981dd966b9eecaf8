----------------------------- MODULE Admission -----------------------------
(***************************************************************************)
(* How a client gets in: /ws and /sse pass ws_rate_limit_middleware, which *)
(* takes a token of the client's address, before the handler registers the *)
(* connection; the HTTP API passes rate_limit_middleware, which takes one  *)
(* of the X-API-Key header's value, and then api_key_auth.                 *)
(***************************************************************************)
EXTENDS ConnectionManager, RateLimiter

CONSTANTS IpOf   \* IpOf[c]: where connection c comes from

ASSUME IpOfOK == IpOf \in [Conn -> Ip]

VARIABLE passed  \* connections past the middleware, not yet at the registry

all == <<vars, limiter, passed>>

AdmissionInit == Init /\ LimiterInit /\ passed = {}

\* ws_rate_limit_middleware
Pass(c) ==
    /\ FreshId(c) /\ c \notin passed
    /\ TryConsume(IpOf[c])
    /\ passed' = passed \cup {c}
    /\ UNCHANGED vars

Refuse(c) ==
    /\ FreshId(c) /\ c \notin passed
    /\ Deny(IpOf[c])
    /\ UNCHANGED <<vars, passed>>

\* rate_limit_middleware: the key counts before api_key_auth looks at it.
Request(k) ==
    /\ CheckKey(k)
    /\ UNCHANGED <<vars, passed>>

Enter(c) ==
    /\ c \in passed
    /\ CheckTotal(c)
    /\ passed' = passed \ {c}
    /\ UNCHANGED limiter

\* The handler gives up before it registers: no token, or an invalid one.
Reject(c) ==
    /\ c \in passed /\ passed' = passed \ {c}
    /\ UNCHANGED <<vars, limiter>>

Admitted(c) == CheckUser(c) \/ Insert(c) \/ PushUser(c) \/ PushTenant(c)

RegistryStep ==
    \/ \E c \in Conn : \/ Admitted(c) \/ Disconnect(c)
                       \/ Subscribe(c) \/ Unsubscribe(c) \/ Serve(c)
                       \/ Activity(c) \/ TimePasses(c)
    \/ \E t \in Task : Remove(t) \/ Unindex(t)
    \/ FindStale \/ NextStale

AdmissionNext ==
    \/ \E c \in Conn : Pass(c) \/ Refuse(c) \/ Enter(c) \/ Reject(c)
    \/ \E k \in ApiKey : Request(k)
    \/ (Tick \/ SetBack) /\ UNCHANGED <<vars, passed>>
    \/ RegistryStep /\ UNCHANGED <<limiter, passed>>

\* Time passes; the registry's tasks as in ConnectionManager.
AdmissionSpec ==
    /\ AdmissionInit /\ [][AdmissionNext]_all
    /\ Fairness /\ WF_all(Tick /\ UNCHANGED <<vars, passed>>)

\* A bucket that refuses a client has a token again later, however often the client
\* or anybody else asks meanwhile (unless its rate or capacity is zero).
Refills ==
    \A b \in Bucket : RefillRate(b) > 0 /\ Capacity(b) > 0 =>
        (Available(b) = 0 ~> Available(b) > 0)
=============================================================================

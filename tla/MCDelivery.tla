----------------------------- MODULE MCDelivery -----------------------------
(* Small instances of Delivery. *)
EXTENDS Delivery

CONSTANTS c1, c2, bob, acme_bob, acme_acme_bob, dflt, acme, m1, m2, news

\* The default tenant's user "acme:bob" on c1 and the bob of acme on c2: their queue
\* keys are the same string.
Aliases == [c \in Conn |-> IF c = c1 THEN acme_bob ELSE bob]
TwoTenants == [c \in Conn |-> IF c = c1 THEN dflt ELSE acme]
Joined == [a \in {acme} \X {bob, acme_bob} |-> IF a[2] = bob THEN acme_bob ELSE acme_acme_bob]

\* One message lists the first of them twice and names no tenant, one is for both ids
\* in acme.
Lists == [m \in Msg |-> [kind |-> "users",
                         to |-> IF m = m1 THEN <<acme_bob, acme_bob>> ELSE <<bob, acme_bob>>]]
ListScope == [m \in Msg |-> IF m = m1 THEN NoTenant ELSE acme]
NoFrames == [c \in Conn |-> 0]

\* One message is for the first of them, one for a channel.
UserAndChannel == [m \in Msg |-> IF m = m1 THEN [kind |-> "users", to |-> <<acme_bob>>]
                                           ELSE [kind |-> "channels", to |-> {news}]]
FramesToFirst == [c \in Conn |-> IF c = c1 THEN 1 ELSE 0]

\* Two messages for one user.
ForBob == [m \in Msg |-> [kind |-> "users", to |-> <<acme_bob>>]]
DefaultScope == [m \in Msg |-> dflt]
=============================================================================

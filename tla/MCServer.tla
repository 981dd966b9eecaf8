------------------------------ MODULE MCServer ------------------------------
(* Two slots. The default tenant uses the ids "x" and "acme:x", the tenants acme and
   "a.b" the id "x".                                                       *)
EXTENDS Server

CONSTANTS r1, r2, dflt, acme, dotted, x, acme_x, dotted_x, d1, d2

Asked == {<<dflt, x>>, <<dflt, acme_x>>, <<acme, x>>, <<dotted, x>>}
AcmeAsked == {<<acme, x>>}
Joined == [a \in {<<acme, x>>, <<dotted, x>>} |-> IF a[1] = acme THEN acme_x ELSE dotted_x]
=============================================================================

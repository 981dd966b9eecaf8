------------------------ MODULE MCConnectionManager ------------------------
(* Small instances of ConnectionManager: devices of one user, of one tenant,
   on shared channels.                                                     *)
EXTENDS ConnectionManager, TLC

CONSTANTS c1, c2, u1, t1, news, alerts

OneUser == [c \in Conn |-> u1]
OneTenant == [c \in Conn |-> t1]

\* The devices of the user are interchangeable, and so are the channels.
SameUser == Permutations({c1, c2}) \cup Permutations({news, alerts})
=============================================================================

---------------------------- MODULE MCAdmission ----------------------------
(* One client at one address, and one API key.                             *)
EXTENDS Admission

CONSTANTS c1, u1, t1, news, ip1, k1

OneUser == [c \in Conn |-> u1]
OneTenant == [c \in Conn |-> t1]
OneAddress == [c \in Conn |-> ip1]
=============================================================================

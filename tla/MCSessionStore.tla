---------------------------- MODULE MCSessionStore ----------------------------
(***************************************************************************)
(* A WebSocket and an SSE stream, whose entries share a shard or not, and  *)
(* sessions that expire in the second period after their last refresh.     *)
(***************************************************************************)
EXTENDS SessionStore

CONSTANTS w1, s1
MCWs  == {w1}
MCSse == {s1}
=============================================================================

---------------------------- MODULE MCQueueBackends ----------------------------
(***************************************************************************)
(* Three messages on a queue of one, so that it overflows by one and by    *)
(* two, and two clients that connect.                                      *)
(***************************************************************************)
EXTENDS QueueBackends

CONSTANTS m1, m2, m3, d1, d2
Interchangeable == Permutations({m1, m2, m3}) \cup Permutations({d1, d2})
=============================================================================

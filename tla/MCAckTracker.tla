---------------------------- MODULE MCAckTracker ----------------------------
(* Two devices of one user and one of another, and one notification for all. *)
EXTENDS AckTracker

CONSTANTS d1, d2, d3, ann, bob

ThreeDevices == [d \in Device |-> IF d = d3 THEN bob ELSE ann]
=============================================================================

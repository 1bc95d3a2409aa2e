-------------------------- MODULE MCPoolLifecycle --------------------------
(* Instances of PoolLifecycle for TLC. *)
EXTENDS PoolLifecycle

CONSTANTS u1, u2, u3, u4, k1, k2, p1, p2, p3, p4
=============================================================================

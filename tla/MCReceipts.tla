----------------------------- MODULE MCReceipts -----------------------------
(* Instances of Receipts for TLC. *)
EXTENDS Receipts, TLC

CONSTANTS alice, bob, k1, k2, utc, ist, v0, v1, h1, h2

MCSymmetry == Permutations(Subjects) \cup Permutations(Keys)
=============================================================================

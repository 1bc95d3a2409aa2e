------------------------- MODULE MCSubjectContext -------------------------
(* Instances of SubjectContext for TLC. *)
EXTENDS SubjectContext, TLC

CONSTANTS main, t1, t2, g1, g2, alice, bob, acme

MCBindings == {[subject |-> alice, tenant |-> acme], [subject |-> bob, tenant |-> None]}
MCSymmetry == Permutations(Gens) \cup Permutations(Tasks \ {Main})
=============================================================================

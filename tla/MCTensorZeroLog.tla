-------------------------- MODULE MCTensorZeroLog --------------------------
(***************************************************************************)
(* Instances of TensorZeroLog for TLC: two of the six tag-scoped tables    *)
(* stand for the inference and the feedback tables.                        *)
(***************************************************************************)
EXTENDS TensorZeroLog

CONSTANTS alice, bob, Chat, Comment, i1, m1, f1, i2, m2, c1, c2, c3

MCTagTables == <<Chat, Comment>>
MCTableOf ==
    [r \in Rows |-> CASE r \in {i1, i2} -> Chat
                      [] r = f1         -> Comment
                      [] OTHER          -> ModelInference]
MCSubjectOf == [r \in Rows |-> IF r \in {i2, m2} THEN bob ELSE alice]
MCInferenceOf == [r \in Rows \ {i1, i2} |-> IF r = m2 THEN i2 ELSE i1]
MCCallSubject == [c \in Calls |-> IF c = c3 THEN bob ELSE alice]
=============================================================================

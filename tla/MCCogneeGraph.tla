--------------------------- MODULE MCCogneeGraph ---------------------------
(***************************************************************************)
(* Instances of CogneeGraph for TLC: two texts about alice, one about bob, *)
(* and one nobody tagged, sharing the names they mention.                  *)
(***************************************************************************)
EXTENDS CogneeGraph

CONSTANTS alice, bob, a1, a2, b1, u1, acme, ravi, c1, c2, c3, c4

MCItemSubject == [i \in Items |-> IF i = b1 THEN bob ELSE alice]
MCMentions ==
    [i \in Items |-> CASE i = a1 -> {acme} [] i = b1 -> {acme, ravi} [] OTHER -> {ravi}]
MCCallSubject == [c \in Calls |-> IF c = c3 THEN bob ELSE alice]
=============================================================================

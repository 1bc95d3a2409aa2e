--------------------------- MODULE MCOrchestrator ---------------------------
(***************************************************************************)
(* Instances of Orchestrator for TLC.                                      *)
(***************************************************************************)
EXTENDS Orchestrator, TLC

CONSTANTS alice, bob,           \* subjects
          vector, graph, log,   \* layers
          v1, w,                \* embeddings, w about bob
          g                     \* a node of the graph

MCSubjectOf == [r \in Records |-> IF r = w THEN bob ELSE alice]
MCLayerOf == [r \in Records |-> IF r = g THEN graph ELSE vector]

MCSymmetry == Permutations(EraseOps)
=============================================================================

------------------------- MODULE MCKnowledgeRebuild -------------------------
(* Instances of KnowledgeRebuild for TLC. *)
EXTENDS KnowledgeRebuild, TLC

CONSTANTS b1, b2, t1, t2, k1, k2

Interchangeable ==
    Permutations(Builders) \cup Permutations(Tools) \cup Permutations(Keys)
=============================================================================

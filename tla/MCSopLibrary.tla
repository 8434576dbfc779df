----------------------------- MODULE MCSopLibrary -----------------------------
(***************************************************************************)
(* SopLibrary with one workspace, two requests at work and two texts, one  *)
(* of which has the one key.                                               *)
(***************************************************************************)
EXTENDS SopLibrary, TLC

CONSTANTS p1, p2, plain, keyed, k1
TheUses == [t \in {plain, keyed} |-> IF t = plain THEN {} ELSE {k1}]
Symmetry == Permutations({p1, p2})
===============================================================================

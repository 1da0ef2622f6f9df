-------------------------- MODULE MCLegacyRecovery --------------------------
(* Instances of LegacyRecovery for TLC: the objects are model values of the cfg. *)
EXTENDS LegacyRefinement, TLC

\* Processes, identifiers and objects of a kind are interchangeable.
Interchangeable == Permutations(Proc) \cup Permutations(Id)
                   \cup Permutations(Protected) \cup Permutations(Permissive)
=============================================================================

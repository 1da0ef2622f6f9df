-------------------------- MODULE MCProtectedStore --------------------------
(***************************************************************************)
(* Bounds for the protected store.  An entry is 3 or 6 bytes and a log     *)
(* holds 5: every log file holds one entry, or one entry behind a cut one, *)
(* so three appends rotate through both archives, and the larger entry     *)
(* never fits.                                                             *)
(***************************************************************************)
EXTENDS ProtectedStore

Symmetry == Permutations(Process)
=============================================================================

----------------------------- MODULE MCAdmission -----------------------------
(* Symmetry of the TLC runs of Admission. *)
EXTENDS Admission, TLC

MCSymmetry == Permutations(Runs)
=============================================================================

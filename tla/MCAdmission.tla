----------------------------- MODULE MCAdmission -----------------------------
(* Small instances of Admission for TLC; no action orders the workers or the *)
(* descriptors.                                                              *)
EXTENDS Admission, TLC

Symmetry == Permutations(Workers) \cup Permutations(Fds)
=============================================================================

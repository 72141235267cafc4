--------------------------- MODULE MCQualifierState ---------------------------
(***************************************************************************)
(* QualifierState with two interchangeable application threads.            *)
(***************************************************************************)
EXTENDS QualifierState, TLC

Symmetry == Permutations(Clients)
=============================================================================

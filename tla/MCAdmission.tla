---------------------------- MODULE MCAdmission ----------------------------
(***************************************************************************)
(* Admission for TLC.  Requests are interchangeable.                       *)
(***************************************************************************)
EXTENDS Admission, TLC

Symmetry == Permutations(Requests)
=============================================================================

--------------------------- MODULE MCRegistration ---------------------------
(***************************************************************************)
(* Small instances of Registration.  Operations are interchangeable names. *)
(***************************************************************************)
EXTENDS Registration, TLC

OpSymmetry == Permutations(Operations)
=============================================================================

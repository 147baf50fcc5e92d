--------------------------- MODULE MCNodeRegistry ---------------------------
(***************************************************************************)
(* An instance of NodeRegistry for TLC.  Liveness is checked on it too, so *)
(* it has no symmetry.                                                     *)
(***************************************************************************)
EXTENDS NodeRegistry, TLC
=============================================================================

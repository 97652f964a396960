--------------------------- MODULE MCCorrections ---------------------------
(***************************************************************************)
(* Instances of Corrections for TLC.                                       *)
(***************************************************************************)
EXTENDS Corrections

CONSTANTS r1, r2, o1, o2, n1, n2, t1
=============================================================================

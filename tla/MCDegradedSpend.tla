--------------------------- MODULE MCDegradedSpend ---------------------------
(***************************************************************************)
(* Instances of DegradedSpend for TLC.                                     *)
(***************************************************************************)
EXTENDS DegradedSpend
=============================================================================

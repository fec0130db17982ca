--------------------------- MODULE MCStuckDetector ---------------------------
(***************************************************************************)
(* Instances of StuckDetector for TLC.                                     *)
(***************************************************************************)
EXTENDS StuckDetector
=============================================================================

------------------------------ MODULE MCConnTest -----------------------------
(***************************************************************************)
(* Instances of ConnTest for TLC.                                          *)
(***************************************************************************)
EXTENDS ConnTest
=============================================================================

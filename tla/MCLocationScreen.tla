-------------------------- MODULE MCLocationScreen --------------------------
(* The location screen for TLC.                                             *)
EXTENDS LocationScreen
=============================================================================

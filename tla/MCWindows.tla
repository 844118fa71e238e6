----------------------------- MODULE MCWindows ------------------------------
(* Constants for model checking Windows.                                   *)
EXTENDS Windows, TLC
=============================================================================

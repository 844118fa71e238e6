---------------------------- MODULE MCSemaphore -----------------------------
(* Constants for model checking WeightedSemaphore.                         *)
EXTENDS WeightedSemaphore, TLC

CONSTANTS c1, c2, c3
=============================================================================

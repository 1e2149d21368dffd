--------------------------- MODULE MCAsyncXQueue ---------------------------
(***************************************************************************)
(* Instances of AsyncXQueue for TLC: application threads a and b,          *)
(* controllers k1 and k2.                                                  *)
(***************************************************************************)
EXTENDS AsyncXQueue

CONSTANTS a, b, k1, k2

ASSUME Distinct == a # b /\ k1 # k2
=============================================================================

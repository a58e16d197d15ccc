----------------------------- MODULE MCEnforcement -----------------------------
(***************************************************************************)
(* Model checking of Enforcement: a display with two spaces and one with    *)
(* one.                                                                     *)
(***************************************************************************)
EXTENDS Enforcement

CONSTANTS a, b

MCRows == [m \in Monitors |-> IF m = a THEN 2 ELSE 1]
=============================================================================

------------------------------ MODULE MCSpaces ------------------------------
(***************************************************************************)
(* Model checking of Spaces.  Windows are interchangeable where none of     *)
(* them is singled out as elevated or as a system window; displays are not, *)
(* since the monitor table has an order.                                    *)
(***************************************************************************)
EXTENDS SpacesProperties

Symmetry == Permutations(Windows)
=============================================================================

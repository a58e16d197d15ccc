------------------------------- MODULE MCLayout -------------------------------
(***************************************************************************)
(* Model checking of Layout: two displays on the desk, one of which may be  *)
(* away, and the virtual display of a remote session.                       *)
(***************************************************************************)
EXTENDS LayoutProperties

CONSTANTS a, b, r

MCTopologies == {{a, b}, {a}, {r}}
MCRemote == {r}
=============================================================================

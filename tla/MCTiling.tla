------------------------------ MODULE MCTiling ------------------------------
(***************************************************************************)
(* Model checking of Tiling on a wide display.                              *)
(***************************************************************************)
EXTENDS TilingProperties

CONSTANTS a, b, w1

Wide == [l |-> 0, t |-> 0, r |-> 64, b |-> 24]
Tall == [l |-> 64, t |-> 0, r |-> 88, b |-> 40]

TwoDisplays == [m \in {a, b} |-> IF m = a THEN 2 ELSE 1]
MCWork == [m \in {a, b} |-> IF m = a THEN Wide ELSE Tall]
MCDpi == [m \in {a, b} |-> IF m = a THEN 96 ELSE 144]
Yielding == [w \in Windows |-> "yields"]
MCKinds == {[Yielding EXCEPT ![w1] = k] : k \in {"yields", "clamps", "elevated"}}
MCDeltas == {-12, 12}

\* The displays of this instance have room for its windows.
ASSUME RoomyAssumption == Roomy
=============================================================================

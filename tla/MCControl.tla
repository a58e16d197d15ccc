----------------------------- MODULE MCControl -----------------------------
EXTENDS ControlProperties

CONSTANTS k1, k2, k3, k4, xk, tk

MCSpecials == <<"tiling">>

\* Two digits to switch, one to move, and one special.
MCBind == [id \in Configurable |->
              CASE id = 0 -> k1 [] id = 1 -> k2 [] id = MoveBase -> k3
                [] id = MoveBase + 1 -> None [] OTHER -> k4]
=============================================================================

--------------------------- MODULE MCContextStore ---------------------------
(***************************************************************************)
(* Constants for the instances of ContextStore that TLC checks.            *)
(***************************************************************************)
EXTENDS ContextStore

CONSTANTS g1, g2, g3

MCBounds(change, fault) ==
  [l \in {"change", "fault"} |-> IF l = "change" THEN change ELSE fault]

MCFaultyBounds == MCBounds(2, 2)
MCQuietBounds  == MCBounds(0, 0)
=============================================================================

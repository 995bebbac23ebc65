--------------------------- MODULE MCNodeStorage ---------------------------
(* The instance of NodeStorage that TLC checks: one workspace that is      *)
(* upgraded and rolled back, and a neighbour that comes and goes.          *)
EXTENDS NodeOutcomes

CONSTANTS s1, s2

MCSpaces == {s1, s2}
MCUpgraded == {s1}
MCKeys == MCSpaces \X {"live", "prev", "recovery"}
=============================================================================

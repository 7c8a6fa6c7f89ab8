--------------------------- MODULE MCIdleScanner ---------------------------
(* Small instances of IdleScanner for TLC. *)
EXTENDS IdleScanner, TLC

CONSTANTS deskA, deskB

\* NobodyStarves is claimed of such configurations only.
ASSUME MCIdleAssumption == CooldownCoversSessions

SwapDesks == Permutations({deskA, deskB})
=============================================================================

--------------------------- MODULE MCTreasuryAudit ---------------------------
(* A small instance of TreasuryAudit for TLC.                              *)
EXTENDS TreasuryAudit, TreasuryRefinement, TLC

CONSTANTS a1, a2, c1, c2

MCAccount    == {a1, a2}
MCOneAccount == {a1}
MCCoin       == {c1, c2}
MCSymmetry   == Permutations(MCCoin)

=============================================================================

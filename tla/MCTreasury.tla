------------------------------ MODULE MCTreasury ------------------------------
(* Small instances of Treasury for TLC.                                    *)
EXTENDS TreasuryClaims, TLC

CONSTANTS a1, a2, c1, c2

MCAccount  == {a1, a2}
MCCoin     == {c1, c2}
MCOneAccount == {a1}
AccountSymmetry == Permutations(MCAccount) \cup Permutations(MCCoin)
CoinSymmetry == Permutations(MCCoin)

=============================================================================

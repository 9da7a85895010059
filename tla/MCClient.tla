------------------------------- MODULE MCClient -------------------------------
(* A small instance of Client for TLC.                                     *)
EXTENDS Client, TLC

CONSTANTS me, other, c1, c2

MCAccount  == {me, other}
MCEndowed  == {me}
MCCoin     == {c1, c2}
MCSymmetry == Permutations(MCCoin)

=============================================================================

------------------------------ MODULE MCListing ------------------------------
(* A small instance of Listing for TLC.                                    *)
EXTENDS Listing

CONSTANTS me, other, c1, c2, common, mine, nobodys

MCAccount  == {me, other}
MCEndowed  == {me}
MCCoin     == {c1, c2}

MCAuthorText == {common, mine, nobodys}
MCContaining ==
    [text \in MCAuthorText |-> CASE text = common -> MCAccount
                                 [] text = mine   -> {me}
                                 [] OTHER         -> {}]

MCSymmetry == Permutations(MCCoin)

=============================================================================

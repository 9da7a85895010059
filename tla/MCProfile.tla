------------------------------ MODULE MCProfile ------------------------------
(* A small instance of Profile for TLC.                                    *)
EXTENDS Profile

CONSTANTS me, other

MCAccount == {me, other}

\* Of the account's, two kinds whose order matters; of somebody else's, one
\* of the same kind; a decision, and the creation that must come before it.
MCEmitted ==
    {Own("Deposited", me), Own("Withdrawn", me), Own("Deposited", other),
     Own("ProposalCreated", other), [kind |-> "ProposalFinalized"]}

=============================================================================

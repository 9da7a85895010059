---------------------------- MODULE TreasuryClaims ----------------------------
(***************************************************************************)
(* What the repository's own words say of the treasury where the code does *)
(* something else.  Each claim is refuted by a run under the thresholds    *)
(* the runtime configures.                                                 *)
(***************************************************************************)
EXTENDS TreasuryRefinement

\* runtime/src/configs/mod.rs:168 annotates the quorum with "~2/3": with two
\* thirds of the stake's weight cast, an open proposal has its quorum.
\* (from_parts counts millionths, so 666_666_666 of them is clamped to all.)
TwoThirdsIsQuorum ==
    \A id \in ProposalId :
        IsActive(id) /\ 3 * Participation(proposals[id]) >= 2 * totalStake
            => QuorumMet(proposals[id])

\* README.md:100-103: members vote for or against a proposal and, if it is
\* approved, it is executed.  So no proposal is approved that nobody voted on.
\* (With no stake on deposit, no votes are a quorum and carry anything.)
ApprovedByVoters ==
    \A id \in ProposalId : Approved(id) => hasVoted[id] # {}

\* README.md:103: "If approved, the investment or swap is executed on-chain".
\* So a proposal whose period ends with a quorum and enough votes for it, to
\* swap different coins of which the vault has enough, is executed in the end.
\* (A vote in the last block, or a decision nobody asked for until then, comes
\* too late for finalize_proposal, which then never succeeds again.)
WonAtTheEnd(id) ==
    /\ IsActive(id)
    /\ now = proposals[id].end
    /\ QuorumMet(proposals[id]) /\ ForCarries(proposals[id])
    /\ hasVoted[id] # {}
    /\ proposals[id].action.from # proposals[id].action.to
    /\ vault[proposals[id].action.from] >= proposals[id].action.amount

WinnerIsExecuted ==
    \A id \in ProposalId : WonAtTheEnd(id) ~> Approved(id)

=============================================================================

-------------------------- MODULE TreasuryRefinement --------------------------
(* The treasury pallet implements Governance.                              *)
EXTENDS Treasury

\* A record is an opened motion; its status says what became of it.
PhaseOf(id) ==
    IF ~Exists(id) THEN "unopened"
    ELSE CASE proposals[id].status = "Approved" -> "carried"
           [] proposals[id].status = "Rejected" -> "lost"
           [] OTHER                             -> "open"

TermsOf(id) ==
    IF ~Exists(id) THEN NoProposal
    ELSE [author |-> proposals[id].author,
          from   |-> proposals[id].action.from,
          to     |-> proposals[id].action.to,
          amount |-> proposals[id].action.amount]

Gov == INSTANCE Governance WITH
    Member     <- Account,
    Motion     <- ProposalId,
    NoTerms    <- NoProposal,
    MaxHolding <- MaxCoin,
    MaxMerit   <- MaxKarma,
    phase      <- [id \in ProposalId |-> PhaseOf(id)],
    terms      <- [id \in ProposalId |-> TermsOf(id)],
    voters     <- hasVoted,
    holdings   <- vault,
    merit      <- karma

\* The pallet keeps every promise of Governance, whatever stakes, weights and
\* thresholds decide underneath: each call and each block is a step of it or
\* changes nothing it speaks of.
ImplementsGovernance == Gov!GovSpec

=============================================================================

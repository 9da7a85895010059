---------------------------- MODULE TreasuryAudit ----------------------------
(***************************************************************************)
(* The treasury with a memory.  The pallet keeps a running tally and a     *)
(* running balance and forgets what they were made of; here every ballot   *)
(* and every seeding is remembered, so that the running figures can be     *)
(* held against what actually happened.                                    *)
(***************************************************************************)
EXTENDS Treasury

CONSTANT MaxSeeded   \* bound: how much of a coin is ever seeded

ASSUME CoinAssumption == IsFiniteSet(Coin)

VARIABLES
    ballots,   \* for each id and kind of vote, what the last ballot of each
               \* account counts: its weight and one, if it was of that kind
    seeded     \* for each coin, what seed_vault was called with in all

auditVars == <<vars, ballots, seeded>>

AuditInit ==
    /\ Init
    /\ ballots = [id \in ProposalId |-> [v \in VoteKind |-> [a \in Account |-> 0]]]
    /\ seeded = [c \in Coin |-> 0]

AuditedVote(who, id, vote) ==
    /\ VoteProposal(who, id, vote)
    /\ ballots' = [ballots EXCEPT ![id] =
                      [v \in VoteKind |-> [@[v] EXCEPT ![who] =
                          IF v = vote THEN Weight(who) + 1 ELSE 0]]]
    /\ UNCHANGED seeded

AuditedSeed(coin, amount) ==
    /\ seeded[coin] + amount <= MaxSeeded
    /\ SeedVault(coin, amount)
    /\ seeded' = [seeded EXCEPT ![coin] = @ + amount]
    /\ UNCHANGED ballots

\* Everything else, which neither casts a ballot nor seeds a coin.
Unaudited ==
    /\ \/ NextBlock
       \/ \E who \in Account, duration \in Duration,
             action \in [from : Coin, to : Coin, amount : CoinAmount] :
                CreateProposal(who, duration, action)
       \/ \E id \in ProposalId : FinalizeProposal(id)
       \/ StakeCall
       \/ \E from, to \in Account, amount \in Amount : Transfer(from, to, amount)
    /\ UNCHANGED <<ballots, seeded>>

AuditNext ==
    \/ \E who \in Account, id \in ProposalId, vote \in VoteKind :
          AuditedVote(who, id, vote)
    \/ \E coin \in Coin, amount \in CoinAmount : AuditedSeed(coin, amount)
    \/ Unaudited

AuditSpec == AuditInit /\ [][AuditNext]_auditVars

-----------------------------------------------------------------------------
Capped(n) == IF n > MaxBalance THEN MaxBalance ELSE n

\* The tally is the sum of the ballots at the weights they were cast with,
\* whatever the voters' stakes and karma became afterwards, and whoever is on
\* record as having voted has one ballot in it, either for or against.
TallyMatchesBallots ==
    \A id \in ProposalId :
        /\ Exists(id) =>
              /\ proposals[id].forVotes = Capped(SumFunction(ballots[id]["For"]))
              /\ proposals[id].againstVotes
                    = Capped(SumFunction(ballots[id]["Against"]))
        /\ \A a \in Account :
              a \in hasVoted[id] <=> \E v \in VoteKind : ballots[id][v][a] > 0

\* What approved proposals took out of, or brought into, a coin's entry.
SwappedOut(c) ==
    SumFunction([id \in ProposalId |->
                    IF Approved(id) /\ proposals[id].action.from = c
                    THEN proposals[id].action.amount ELSE 0])
SwappedIn(c) ==
    SumFunction([id \in ProposalId |->
                    IF Approved(id) /\ proposals[id].action.to = c
                    THEN proposals[id].action.amount ELSE 0])

\* While the coins ever seeded fit a vault entry, no coin is created or lost:
\* each entry is what was seeded, less the approved swaps out of it, plus the
\* approved swaps into it, each counted once.
VaultLedger ==
    SumFunction(seeded) <= MaxCoin =>
        \A c \in Coin : vault[c] + SwappedOut(c) = seeded[c] + SwappedIn(c)

=============================================================================

------------------------------- MODULE Treasury -------------------------------
(***************************************************************************)
(* The DAO treasury pallet, solochain/pallets/template/src/lib.rs, as the  *)
(* runtime configures it in solochain/runtime/src/configs/mod.rs.          *)
(*                                                                         *)
(* One action per dispatchable.  A FRAME dispatchable runs in a storage    *)
(* transaction: a call that returns an error leaves no trace, so an action *)
(* is enabled exactly when its call returns Ok and a failing call is a     *)
(* stuttering step.  The order of the checks inside a call only decides    *)
(* which error is reported and is not kept.                                *)
(*                                                                         *)
(* T::Currency is pallet_balances, which is not part of the repository: of *)
(* it the module keeps each account's free and reserved balance, reserve,  *)
(* unreserve, and the transfers the accounts make around this pallet.      *)
(***************************************************************************)
EXTENDS Arithmetic, FiniteSets, Functions

CONSTANTS
    Account,              \* every account
    Endowed,              \* those endowed at genesis
    Endowment,            \* what each of them receives
    Coin,                 \* the coins of the vault
    NoProposal,           \* an id of the Proposals map that holds no record
    MaxBalance,           \* largest Balance (u128)
    MaxCoin,              \* largest vault entry and swap amount (u128)
    MaxKarma,             \* largest karma (u32)
    MaxProposalId,        \* largest ProposalId (u32)
    MaxBlock,             \* largest BlockNumber (u32)
    ExistentialDeposit,   \* pallet_balances: least free balance of an account
    MinProposalDuration,
    MaxProposalDuration,
    KarmaUnit,            \* voting weight of one karma point
    Quorum,               \* Permill of TotalStake that must take part
    ApprovalOfQuorum,     \* Permill of the participation that must be for
    Amount,               \* the amounts that calls are made with
    CoinAmount,           \* the coin amounts that calls are made with
    Duration              \* the durations that calls are made with

Balance    == 0..MaxBalance
CoinBal    == 0..MaxCoin
ProposalId == 0..MaxProposalId
Block      == 0..MaxBlock

ProposalStatus == {"Active", "Approved", "Rejected", "Cancelled"}
VoteKind       == {"For", "Against"}

\* The only Action is a Swap.
Swap == [from : Coin, to : Coin, amount : CoinBal]

\* Title and description are never read by the pallet and are left out.
Proposal == [author       : Account,
             start        : Block,
             end          : Block,
             forVotes     : Balance,
             againstVotes : Balance,
             status       : ProposalStatus,
             action       : Swap]

ASSUME AccountAssumption ==
    /\ IsFiniteSet(Account)
    /\ Endowed \subseteq Account

ASSUME WidthAssumption ==
    /\ MaxBalance \in Nat
    /\ MaxCoin \in Nat
    /\ MaxKarma \in Nat
    /\ MaxProposalId \in Nat
    /\ MaxBlock \in Nat \ {0}

ASSUME ConfigAssumption ==
    /\ ExistentialDeposit \in Nat \ {0}
    /\ MinProposalDuration \in Nat
    /\ MaxProposalDuration \in Nat
    /\ KarmaUnit \in Nat
    /\ Quorum \in Permill
    /\ ApprovalOfQuorum \in Permill

\* The genesis builder refuses an endowment below the existential deposit.
\* The total issuance, a Balance, holds every endowment.
ASSUME GenesisAssumption ==
    /\ Endowment \in Nat
    /\ Endowment >= ExistentialDeposit
    /\ Cardinality(Endowed) * Endowment <= MaxBalance

ASSUME InputAssumption ==
    /\ Amount \subseteq Balance
    /\ CoinAmount \subseteq CoinBal
    /\ Duration \subseteq Nat

ASSUME NoProposalAssumption == NoProposal \notin Proposal

VARIABLES
    now,             \* frame_system's block number
    free,            \* pallet_balances: free balance of each account
    reserved,        \* pallet_balances: reserved balance of each account
    nextProposalId,  \* NextProposalId
    proposals,       \* Proposals
    hasVoted,        \* HasVoted: the accounts that voted on each id
    deposits,        \* Deposits
    totalStake,      \* TotalStake
    karma,           \* Karma
    vault            \* Vault

balanceVars  == <<free, reserved>>
proposalVars == <<nextProposalId, proposals, hasVoted>>
stakeVars    == <<deposits, totalStake>>
rewardVars   == <<karma, vault>>
vars == <<now, balanceVars, proposalVars, stakeVars, rewardVars>>

TypeOK ==
    /\ now \in Block
    /\ free \in [Account -> Balance]
    /\ reserved \in [Account -> Balance]
    /\ nextProposalId \in ProposalId
    /\ proposals \in [ProposalId -> Proposal \cup {NoProposal}]
    /\ hasVoted \in [ProposalId -> SUBSET Account]
    /\ deposits \in [Account -> Balance]
    /\ totalStake \in Balance
    /\ karma \in [Account -> 0..MaxKarma]
    /\ vault \in [Coin -> CoinBal]

\* Genesis is block 0; the first calls run in block 1.
Init ==
    /\ now = 1
    /\ free = [a \in Account |-> IF a \in Endowed THEN Endowment ELSE 0]
    /\ reserved = [a \in Account |-> 0]
    /\ nextProposalId = 0
    /\ proposals = [id \in ProposalId |-> NoProposal]
    /\ hasVoted = [id \in ProposalId |-> {}]
    /\ deposits = [a \in Account |-> 0]
    /\ totalStake = 0
    /\ karma = [a \in Account |-> 0]
    /\ vault = [c \in Coin |-> 0]

-----------------------------------------------------------------------------
(* What the calls read and compute.                                        *)

Exists(id) == proposals[id] # NoProposal

\* The stake of who and, on top of it, KarmaUnit for each karma point.
Weight(who) ==
    SaturatingAdd(deposits[who],
                  SaturatingMul(KarmaUnit, karma[who], MaxBalance),
                  MaxBalance)

Participation(p) == SaturatingAdd(p.forVotes, p.againstVotes, MaxBalance)

QuorumMet(p) == Participation(p) >= MulFloor(Quorum, totalStake)

ForCarries(p) ==
    p.forVotes >= MulFloor(ApprovalOfQuorum, Participation(p))

-----------------------------------------------------------------------------
(* Mutants.  Each is a definition below as a slip in the code would have   *)
(* left it; a property that no such slip breaks would say nothing.         *)

\* finalize_proposal and vote_proposal without the status check.
IsActiveAnyStatus(id) == Exists(id)

\* vote_proposal without the HasVoted check.
MayVoteAgain(who, id) ==
    /\ Exists(id) /\ proposals[id].status = "Active"
    /\ now <= proposals[id].end
    /\ Weight(who) # 0

\* finalize_proposal with vote_proposal's comparison of now and end.
CanFinalizeAtEnd(id) ==
    /\ Exists(id) /\ proposals[id].status = "Active"
    /\ now <= proposals[id].end
    /\ QuorumMet(proposals[id])

\* A swap that credits one coin and forgets to debit the other.
AfterSwapNoDebit(s) ==
    [vault EXCEPT ![s.to] = SaturatingAdd(@, s.amount, MaxCoin)]

\* deposit that takes the balance itself and forgets the existential deposit.
DepositToTheLast(who, amount) ==
    /\ amount <= free[who] /\ reserved[who] + amount <= MaxBalance
    /\ free' = [free EXCEPT ![who] = @ - amount]
    /\ reserved' = [reserved EXCEPT ![who] = @ + amount]
    /\ deposits' = [deposits EXCEPT ![who] = SaturatingAdd(@, amount, MaxBalance)]
    /\ totalStake' = SaturatingAdd(totalStake, amount, MaxBalance)
    /\ UNCHANGED <<now, proposalVars, rewardVars>>

\* deposit that records the stake although reserve failed.
DepositUnreserved(who, amount) ==
    /\ deposits' = [deposits EXCEPT ![who] = SaturatingAdd(@, amount, MaxBalance)]
    /\ totalStake' = SaturatingAdd(totalStake, amount, MaxBalance)
    /\ UNCHANGED <<now, balanceVars, proposalVars, rewardVars>>

\* withdraw without its check, paying what was asked for.
WithdrawUnchecked(who, amount) ==
    /\ free' = [free EXCEPT ![who] = @ + amount]
    /\ reserved' = [reserved EXCEPT ![who] = SaturatingSub(@, amount)]
    /\ deposits' = [deposits EXCEPT ![who] = SaturatingSub(@, amount)]
    /\ totalStake' = SaturatingSub(totalStake, amount)
    /\ UNCHANGED <<now, proposalVars, rewardVars>>

\* seed_vault with an addition in a wider type.
SeedVaultUnbounded(coin, amount) ==
    /\ vault' = [vault EXCEPT ![coin] = @ + amount]
    /\ UNCHANGED <<now, balanceVars, proposalVars, stakeVars, karma>>

\* create_proposal that overwrites the next record without taking its id.
NextIdReused(id) == id

-----------------------------------------------------------------------------
IsActive(id) == Exists(id) /\ proposals[id].status = "Active"
Decided(id)  == Exists(id) /\ proposals[id].status # "Active"
Approved(id) == Exists(id) /\ proposals[id].status = "Approved"

\* The last block of the voting period, now = end, still takes votes.
MayVote(who, id) ==
    /\ IsActive(id)
    /\ now <= proposals[id].end
    /\ who \notin hasVoted[id]
    /\ Weight(who) # 0

\* A vote adds its weight and then one: two additions, each saturating.
Tally(votes, weight) ==
    SaturatingAdd(SaturatingAdd(votes, weight, MaxBalance), 1, MaxBalance)

\* Anyone may ask for the decision, from the first block of the voting
\* period on and only before its last.
CanFinalize(id) ==
    /\ IsActive(id)
    /\ now < proposals[id].end
    /\ QuorumMet(proposals[id])

\* The vault after a swap of two different coins: debit, then credit.
AfterSwap(s) ==
    [vault EXCEPT ![s.from] = @ - s.amount,
                  ![s.to]   = SaturatingAdd(@, s.amount, MaxCoin)]

\* Currency::reserve.  Nothing to reserve always succeeds; otherwise the
\* account must keep its existential deposit free and its reserved balance
\* must not overflow.
CanReserve(who, amount) ==
    \/ amount = 0
    \/ /\ free[who] - amount >= ExistentialDeposit
       /\ reserved[who] + amount <= MaxBalance

\* Currency::unreserve pays back no more than what is reserved, and returns
\* the shortfall, which the call ignores.
Unreserved(who, amount) ==
    IF reserved[who] < amount THEN reserved[who] ELSE amount

NextId(id) == id + 1

-----------------------------------------------------------------------------
(* frame_system: the next block.  There are no hooks in the pallet, so     *)
(* nothing else happens when a block begins or ends.                       *)
NextBlock ==
    /\ now < MaxBlock
    /\ now' = now + 1
    /\ UNCHANGED <<balanceVars, proposalVars, stakeVars, rewardVars>>

CreateProposal(who, duration, action) ==
    /\ MinProposalDuration <= duration
    /\ duration <= MaxProposalDuration
    /\ nextProposalId < MaxProposalId           \* checked_add(1)
    /\ proposals' = [proposals EXCEPT ![nextProposalId] =
                        [author       |-> who,
                         start        |-> now,
                         end          |-> SaturatingAdd(now, duration, MaxBlock),
                         forVotes     |-> 0,
                         againstVotes |-> 0,
                         status       |-> "Active",
                         action       |-> action]]
    /\ nextProposalId' = NextId(nextProposalId)
    /\ UNCHANGED <<now, balanceVars, hasVoted, stakeVars, rewardVars>>

VoteProposal(who, id, vote) ==
    /\ MayVote(who, id)
    /\ proposals' =
          IF vote = "For"
          THEN [proposals EXCEPT ![id].forVotes = Tally(@, Weight(who))]
          ELSE [proposals EXCEPT ![id].againstVotes = Tally(@, Weight(who))]
    /\ hasVoted' = [hasVoted EXCEPT ![id] = @ \cup {who}]
    /\ UNCHANGED <<now, balanceVars, nextProposalId, stakeVars, rewardVars>>

\* The swap runs against the vault as it is now, and the author is rewarded.
Approve(id) ==
    LET p == proposals[id]
        s == p.action
    IN  /\ CanFinalize(id)
        /\ ForCarries(p)
        /\ s.from # s.to
        /\ vault[s.from] >= s.amount
        /\ vault' = AfterSwap(s)
        /\ karma' = [karma EXCEPT ![p.author] = SaturatingAdd(@, 1, MaxKarma)]
        /\ proposals' = [proposals EXCEPT ![id].status = "Approved"]
        /\ UNCHANGED <<now, balanceVars, nextProposalId, hasVoted, stakeVars>>

\* Mutant: the swap runs before the votes are counted.
RejectSwapped(id) ==
    LET p == proposals[id]
        s == p.action
    IN  /\ CanFinalize(id)
        /\ ~ForCarries(p)
        /\ vault[s.from] >= s.amount
        /\ vault' = AfterSwap(s)
        /\ proposals' = [proposals EXCEPT ![id].status = "Rejected"]
        /\ UNCHANGED <<now, balanceVars, nextProposalId, hasVoted, stakeVars, karma>>

Reject(id) ==
    /\ CanFinalize(id)
    /\ ~ForCarries(proposals[id])
    /\ proposals' = [proposals EXCEPT ![id].status = "Rejected"]
    /\ UNCHANGED <<now, balanceVars, nextProposalId, hasVoted, stakeVars,
                   rewardVars>>

FinalizeProposal(id) == Approve(id) \/ Reject(id)

Deposit(who, amount) ==
    /\ CanReserve(who, amount)
    /\ free' = [free EXCEPT ![who] = @ - amount]
    /\ reserved' = [reserved EXCEPT ![who] = @ + amount]
    /\ deposits' = [deposits EXCEPT ![who] = SaturatingAdd(@, amount, MaxBalance)]
    /\ totalStake' = SaturatingAdd(totalStake, amount, MaxBalance)
    /\ UNCHANGED <<now, proposalVars, rewardVars>>

Withdraw(who, amount) ==
    /\ amount <= deposits[who]
    /\ free' = [free EXCEPT
                   ![who] = SaturatingAdd(@, Unreserved(who, amount), MaxBalance)]
    /\ reserved' = [reserved EXCEPT ![who] = @ - Unreserved(who, amount)]
    /\ deposits' = [deposits EXCEPT ![who] = SaturatingSub(@, amount)]
    /\ totalStake' = SaturatingSub(totalStake, amount)
    /\ UNCHANGED <<now, proposalVars, rewardVars>>

\* The call never looks at its origin: any account, signed or not.
SeedVault(coin, amount) ==
    /\ vault' = [vault EXCEPT ![coin] = SaturatingAdd(@, amount, MaxCoin)]
    /\ UNCHANGED <<now, balanceVars, proposalVars, stakeVars, karma>>

(***************************************************************************)
(* pallet_balances::transfer_allow_death, a call of the runtime outside    *)
(* this pallet.  The receiver must end at the existential deposit or more. *)
(* The sender keeps at least that much, or, when it has nothing reserved,  *)
(* may fall below it: it is then reaped and what is left is burned.        *)
(***************************************************************************)
Transfer(from, to, amount) ==
    /\ from # to
    /\ amount <= free[from]
    /\ free[to] + amount \in ExistentialDeposit..MaxBalance
    /\ LET left == free[from] - amount IN
          /\ left >= ExistentialDeposit \/ reserved[from] = 0
          /\ free' = [free EXCEPT
                         ![from] = IF left < ExistentialDeposit THEN 0 ELSE left,
                         ![to]   = @ + amount]
    /\ UNCHANGED <<now, reserved, proposalVars, stakeVars, rewardVars>>

-----------------------------------------------------------------------------
ProposalCall ==
    \/ \E who \in Account, duration \in Duration,
          action \in [from : Coin, to : Coin, amount : CoinAmount] :
             CreateProposal(who, duration, action)
    \/ \E who \in Account, id \in ProposalId, vote \in VoteKind :
             VoteProposal(who, id, vote)
    \/ \E id \in ProposalId : FinalizeProposal(id)

StakeCall ==
    \E who \in Account, amount \in Amount :
        Deposit(who, amount) \/ Withdraw(who, amount)

Next ==
    \/ NextBlock
    \/ ProposalCall
    \/ StakeCall
    \/ \E coin \in Coin, amount \in CoinAmount : SeedVault(coin, amount)
    \/ \E from, to \in Account, amount \in Amount : Transfer(from, to, amount)

Spec == Init /\ [][Next]_vars

(***************************************************************************)
(* Blocks keep coming (the authorities take turns authoring them), and     *)
(* whoever wants a decision keeps asking for it.  The second conjunct is   *)
(* not something the code schedules: it is the most helpful user there is. *)
(***************************************************************************)
FairSpec ==
    /\ Spec
    /\ WF_vars(NextBlock)
    /\ \A id \in ProposalId : WF_vars(FinalizeProposal(id))

-----------------------------------------------------------------------------
(* Safety.                                                                 *)

Issuance == Cardinality(Endowed) * Endowment

\* Every recorded deposit is backed, to the unit, by balance the account has
\* reserved: withdraw's reliance on unreserve paying in full, whose result
\* it drops (lib.rs:381), never writes off money that was not paid back.
StakeBacked == \A a \in Account : deposits[a] = reserved[a]

\* An account with a reserve, as the pallet leaves it to every staker, cannot be
\* reaped: deposit leaves it its existential deposit, and transfers that would
\* take it fail.
ReserveKeepsAlive ==
    \A a \in Account : reserved[a] > 0 => free[a] >= ExistentialDeposit

\* TotalStake, kept apart from Deposits and updated with saturating
\* arithmetic, is their sum: the quorum is taken of what is really staked.
StakeTotalled == totalStake = SumFunction(deposits)

\* Deposits, withdrawals and transfers move money and never make any.
FundsConserved == SumFunction(free) + SumFunction(reserved) <= Issuance

\* Ids are handed out densely and never again: exactly the ids below
\* NextProposalId hold a record, and no one has voted on any other.  In
\* particular the create_proposal that overflows the id leaves nothing.
IdsDense ==
    \A id \in ProposalId :
        /\ Exists(id) <=> id < nextProposalId
        /\ ~Exists(id) => hasVoted[id] = {}

\* No vote, withdrawal or reward that comes after a decision contradicts it:
\* the recorded tally of an approved proposal carries it, that of a rejected
\* one does not, and no swap of a coin with itself was ever approved.  Only
\* the two decisions finalize_proposal takes are ever reached.
DecisionStands ==
    \A id \in ProposalId : Exists(id) =>
        LET p == proposals[id] IN
          /\ p.status = "Approved" => ForCarries(p) /\ p.action.from # p.action.to
          /\ p.status = "Rejected" => ~ForCarries(p)
          /\ p.status # "Cancelled"

\* Karma is earned by approved proposals and by nothing else, one point for
\* each, until it saturates.
KarmaEarned ==
    \A a \in Account :
        LET approved == {id \in ProposalId : Approved(id)
                                               /\ proposals[id].author = a}
        IN  karma[a] = IF Cardinality(approved) > MaxKarma
                       THEN MaxKarma ELSE Cardinality(approved)

-----------------------------------------------------------------------------
(* What a step may never do.                                               *)

\* A change of someone's stake gives and takes exactly what it records:
\* across a deposit or a withdrawal nobody's free balance plus recorded
\* stake changes.
PaidBack ==
    deposits' # deposits =>
        \A a \in Account : free'[a] + deposits'[a] = free[a] + deposits[a]

StakePaidBack == [][PaidBack]_vars

\* The terms a proposal was voted on never change, a decided proposal and its
\* voters never change, and no voter is ever forgotten.
RecordKept(id) ==
    LET p == proposals[id]
        q == proposals'[id]
    IN  /\ Exists(id)'
        /\ <<q.author, q.start, q.end, q.action>>
              = <<p.author, p.start, p.end, p.action>>
        /\ hasVoted[id] \subseteq hasVoted'[id]
        /\ Decided(id) => q = p /\ hasVoted'[id] = hasVoted[id]

DecisionsFinal == [][\A id \in ProposalId : Exists(id) => RecordKept(id)]_vars

\* Money leaves the vault only through a decision: a coin's entry falls only
\* in a step that turns an active proposal to swap that very amount of that
\* coin into an approved one.
DebitDecided(c) ==
    \E id \in ProposalId :
        /\ IsActive(id) /\ Approved(id)'
        /\ proposals[id].action.from = c
        /\ proposals[id].action.amount = vault[c] - vault'[c]

VaultFallsByDecision ==
    [][\A c \in Coin : vault'[c] < vault[c] => DebitDecided(c)]_vars

\* A proposal's fate is open only inside its period: a decision is taken
\* before its last block, a tally changes in it at the latest, and an active
\* proposal whose last block has come is left active for good.
InPeriod(id) ==
    LET p == proposals[id]
        q == proposals'[id]
    IN  /\ now >= p.end => q.status = p.status
        /\ now > p.end  => q = p

PeriodBinds == [][\A id \in ProposalId : Exists(id) => InPeriod(id)]_vars

=============================================================================

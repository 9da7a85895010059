CONSTANTS
    a1 = a1
    a2 = a2
    c1 = c1
    c2 = c2
    NoProposal = NoProposal
    Account <- MCAccount
    Endowed <- MCAccount
    Endowment = 3
    Coin <- MCCoin
    Accuracy = 6
    MaxBalance = 6
    MaxCoin = 2
    MaxKarma = 2
    MaxProposalId = 1
    MaxBlock = 3
    ExistentialDeposit = 1
    MinProposalDuration = 1
    MaxProposalDuration = 1
    KarmaUnit = 1
    Quorum = 4
    ApprovalOfQuorum = 3
    Amount = {1,2}
    CoinAmount = {1,2}
    Duration = {0,1,2}
SPECIFICATION Spec
SYMMETRY AccountSymmetry
INVARIANTS TypeOK StakeBacked StakeTotalled FundsConserved
PROPERTIES StakePaidBack PeriodBinds

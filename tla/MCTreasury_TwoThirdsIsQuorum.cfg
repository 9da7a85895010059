CONSTANTS
    a1 = a1
    a2 = a2
    c1 = c1
    c2 = c2
    NoProposal = NoProposal
    Account <- MCAccount
    Endowed <- MCAccount
    Endowment = 4
    Coin <- MCCoin
    Accuracy = 1000000
    MaxBalance = 8
    MaxCoin = 1
    MaxKarma = 1
    MaxProposalId = 1
    MaxBlock = 3
    ExistentialDeposit = 1
    MinProposalDuration = 1
    MaxProposalDuration = 2
    KarmaUnit = 1
    Quorum <- DaoQuorum
    ApprovalOfQuorum <- DaoApprovalOfQuorum
    Amount = {3}
    CoinAmount = {1}
    Duration = {2, 3}
SPECIFICATION Spec
INVARIANT TwoThirdsIsQuorum

CONSTANTS
    a1 = a1
    a2 = a2
    c1 = c1
    c2 = c2
    NoProposal = NoProposal
    Account <- MCAccount
    Endowed <- MCOneAccount
    Endowment = 2
    Coin <- MCCoin
    Accuracy = 6
    MaxBalance = 4
    MaxCoin = 2
    MaxSeeded = 1
    MaxKarma = 2
    MaxProposalId = 2
    MaxBlock = 3
    ExistentialDeposit = 1
    MinProposalDuration = 1
    MaxProposalDuration = 2
    KarmaUnit = 1
    Quorum = 4
    ApprovalOfQuorum = 3
    Amount = {1}
    CoinAmount = {1}
    Duration = {2}
SPECIFICATION AuditSpec
SYMMETRY MCSymmetry
INVARIANTS IdsDense DecisionStands KarmaEarned TallyMatchesBallots VaultLedger
PROPERTIES ImplementsGovernance DecisionsFinal VaultFallsByDecision

CONSTANTS
    c1 = c1
    c2 = c2
    NoProposal = NoProposal
    NoPreset = NoPreset
    NoExtrinsic = NoExtrinsic
    ChainId = "dev"
    Account <- MCAccount
    Endowed <- MCAccount
    Endowment = 4
    Coin <- MCCoin
    Accuracy = 6
    MaxBalance = 8
    MaxCoin = 1
    MaxKarma = 1
    MaxProposalId = 1
    MaxBlock = 3
    ExistentialDeposit = 1
    MinProposalDuration = 1
    MaxProposalDuration = 2
    KarmaUnit = 1
    Quorum = 4
    ApprovalOfQuorum = 3
    Amount = {1, 2, 3}
    CoinAmount = {0, 1}
    Duration = {2}
    Fee = 1
    EraPeriod = 3
    Wanted <- MCWanted
    MaxSigned = 3
SPECIFICATION RuntimeSpec
INVARIANTS RuntimeTypeOK StakeCovered StakersStayAlive
PROPERTIES AppliedOnce SignedFor
CHECK_DEADLOCK FALSE

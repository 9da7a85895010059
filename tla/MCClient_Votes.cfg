CONSTANTS
    me = me
    other = other
    c1 = c1
    c2 = c2
    NoProposal = NoProposal
    Account <- MCEndowed
    Endowed <- MCEndowed
    Me = me
    Horizon = 1
    MaxTx = 2
    MaxRetracted = 1
    Shown = {0}
    Kinds = {"vote", "finalize"}
    Endowment = 2
    Coin <- MCCoin
    Accuracy = 6
    MaxBalance = 2
    MaxCoin = 0
    MaxKarma = 1
    MaxProposalId = 1
    MaxBlock = 2
    ExistentialDeposit = 1
    MinProposalDuration = 1
    MaxProposalDuration = 2
    KarmaUnit = 1
    Quorum = 4
    ApprovalOfQuorum = 3
    Amount = {1}
    CoinAmount = {0}
    Duration = {2}
SPECIFICATION ClientSpec
SYMMETRY MCSymmetry
INVARIANTS ClientTypeOK MessagesMean OncePerProposal ButtonsHeld

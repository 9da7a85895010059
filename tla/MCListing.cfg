CONSTANTS
    me = me
    other = other
    c1 = c1
    c2 = c2
    NoProposal = NoProposal
    Account <- MCAccount
    Endowed <- MCEndowed
    NoFilter = NoFilter
    common = common
    mine = mine
    nobodys = nobodys
    AuthorText <- MCAuthorText
    Containing <- MCContaining
    Endowment = 3
    Coin <- MCCoin
    Accuracy = 6
    MaxBalance = 3
    MaxCoin = 0
    MaxKarma = 1
    MaxProposalId = 2
    MaxBlock = 2
    ExistentialDeposit = 1
    MinProposalDuration = 1
    MaxProposalDuration = 2
    KarmaUnit = 1
    Quorum = 4
    ApprovalOfQuorum = 3
    Amount = {2}
    CoinAmount = {0}
    Duration = {2}
SPECIFICATION ListingSpec
SYMMETRY MCSymmetry
INVARIANTS ListIsPast InOrderOfCreation FilteredStands

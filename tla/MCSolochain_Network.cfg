CONSTANTS
    t1 = t1
    NoPreset = NoPreset
    ChainId = "local"
    Node <- MCNodes
    Validator <- MCVoters
    ForceAuthoring = {}
    DisableGrandpa = {}
    MayStop = {"Full"}
    Operated = {}
    Tx = {t1}
    Entry = {"Alice"}
    MaxSlot = 3
    MaxRound = 1
SPECIFICATION FairSpec
PROPERTIES ImplementsLedger FinalityCatchesUp

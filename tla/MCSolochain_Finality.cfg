CONSTANTS
    t1 = t1
    NoPreset = NoPreset
    ChainId = "local"
    Node <- MCVoters
    Validator <- MCVoters
    ForceAuthoring = {}
    DisableGrandpa = {}
    MayStop = {"Alice"}
    Operated = {"Alice"}
    Tx = {}
    Entry = {"Alice"}
    MaxSlot = 3
    MaxRound = 2
SPECIFICATION Spec
INVARIANTS SolochainTypeOK FinalityAgrees BestAboveFinal OneBlockPerSlot

CONSTANTS
    me = me
    other = other
    Account <- MCAccount
    Me = me
    NoAccount = NoAccount
    Window = 2
    RowsPerPageOptions = {1, 2}
    RowsPerPage = 2
    MaxBlock = 3
    MaxEvents = 1
    Emitted <- MCEmitted
SPECIFICATION FairSpec
INVARIANTS ProfileTypeOK ListIsHistory PageNotEmpty StakeExplained
PROPERTIES ShownStays LoadingEnds
CHECK_DEADLOCK FALSE

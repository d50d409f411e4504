CONSTANTS
    Sessions = {s1, s2}
    NoTxn = NoTxn
    MaxTxns = 3
    MaxFaults = 1
SPECIFICATION SessionSpec
CHECK_DEADLOCK FALSE
INVARIANTS
    EveryTransactionOwned
    ContextNeverDangles
    RepliesTellOutcome
